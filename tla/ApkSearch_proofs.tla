-------------------------- MODULE ApkSearch_proofs --------------------------
(* Proofs about ApkSearch: for every tree of directories, every depth, any  *)
(* set of apks installed and removed during the search, and any failures,   *)
(* a search looks at what it promises to look at.                           *)
EXTENDS ApkSearch, TLAPS

Elem == [dir : Dirs, depth : 0..Depth]

LEMMA Constants ==
    /\ Depth \in Nat
    /\ Dirs \cap Apks = {}
    /\ Managers \subseteq Apks
    /\ Root \notin Staging \cup Foreign
  BY TreeAssumption

\* What Tail and Append do to the work list.
LEMMA TailElems ==
    ASSUME NEW s \in Seq(Elem), s # << >>
    PROVE  /\ Tail(s) \in Seq(Elem) /\ Len(s) \in Nat /\ Len(s) >= 1
           /\ Len(Tail(s)) = Len(s) - 1
           /\ DOMAIN Tail(s) = 1..(Len(s) - 1) /\ DOMAIN s = 1..Len(s)
           /\ \A j \in 1..(Len(s) - 1) : Tail(s)[j] = s[j + 1]
           /\ s[1] \in Elem
  OBVIOUS

LEMMA AppendElems ==
    ASSUME NEW s \in Seq(Elem), NEW e \in Elem
    PROVE  /\ Append(s, e) \in Seq(Elem) /\ Len(s) \in Nat
           /\ Len(Append(s, e)) = Len(s) + 1
           /\ DOMAIN Append(s, e) = 1..(Len(s) + 1) /\ DOMAIN s = 1..Len(s)
           /\ \A j \in 1..Len(s) : Append(s, e)[j] = s[j]
           /\ Append(s, e)[Len(s) + 1] = e
  OBVIOUS

\* The directories of a path are directories, and entries are either of both.
LEMMA EntryType ==
    /\ \A a \in Apks : \A k \in DOMAIN Path[a] : Path[a][k] \in Dirs /\ Entry(a, k) \in Dirs \cup Apks
    /\ \A a \in Apks : Len(Path[a]) \in Nat /\ DOMAIN Path[a] = 1..Len(Path[a]) /\ Len(Path[a]) >= 1
    /\ Root \in Dirs
  <1>1. ASSUME NEW a \in Apks
        PROVE  /\ Path[a] \in Seq(Dirs) /\ Len(Path[a]) \in Nat
               /\ DOMAIN Path[a] = 1..Len(Path[a]) /\ Len(Path[a]) >= 1
    <2>1. Path[a] \in Seq(Dirs) /\ Path[a] # << >>
      BY TreeAssumption
    <2> QED
      BY <2>1
  <1>2. ASSUME NEW a \in Apks, NEW k \in DOMAIN Path[a]
        PROVE  Path[a][k] \in Dirs /\ Entry(a, k) \in Dirs \cup Apks
    <2>1. \A j \in DOMAIN Path[a] : Path[a][j] \in Dirs
      BY <1>1
    <2>2. k < Len(Path[a]) => k + 1 \in DOMAIN Path[a]
      BY <1>1
    <2> QED
      BY <2>1, <2>2 DEF Entry
  <1>3. Root \in Dirs
    BY DEF Dirs
  <1> QED
    BY <1>1, <1>2, <1>3

-----------------------------------------------------------------------------
(* Type correctness                                                         *)

LEMMA TypeInit == Init => TypeOK
  <1> SUFFICES ASSUME Init PROVE TypeOK
    OBVIOUS
  <1>1. data_path_list \in Seq(Elem)
    BY DEF Init
  <1>2. i \in 0..Depth
    BY Constants DEF Init
  <1>3. there \subseteq Apks /\ gone \subseteq Apks /\ exists \subseteq apk_path_hash_list
    BY DEF Init
  <1>4. pc \in {"idle", "dir", "entries", "sweep"} /\ (pc = "entries" => data_path_list # << >>)
    BY DEF Init
  <1>5. last \in BOOLEAN /\ entries \subseteq Dirs \cup Apks /\ stop \in BOOLEAN
    BY DEF Init
  <1>6. steady \subseteq there /\ seen \subseteq Apks
    /\ faulted \in BOOLEAN /\ refused \subseteq Managers
    BY DEF Init
  <1> QED
    BY <1>1, <1>2, <1>3, <1>4, <1>5, <1>6 DEF TypeOK, Elem

\* A directory that is done leaves the list well-formed.
LEMMA RemoveType ==
    ASSUME TypeOK, data_path_list # << >>, Remove
    PROVE  /\ data_path_list' \in Seq(Elem)
           /\ last' \in BOOLEAN
           /\ i' \in 0..Depth
           /\ pc' \in {"dir", "sweep"}
  <1>1. data_path_list' \in Seq(Elem) /\ Len(data_path_list) \in Nat
    BY TailElems DEF Remove, TypeOK, Elem
  <1>2. i' \in 0..Depth
    <2>1. i \in 0..Depth /\ (i' = i \/ (i > 0 /\ i' = i - 1))
      BY DEF Remove, TypeOK, LastLevel
    <2> QED
      BY <2>1, Constants
  <1>3. last' \in BOOLEAN
    <2>1. CASE last
      <3>1. (Len(data_path_list) =< 2) \in BOOLEAN
        BY <1>1
      <3> QED
        BY <2>1, <3>1, Zenon DEF Remove
    <2>2. CASE ~last
      BY <2>2, Zenon DEF Remove
    <2> QED
      BY <2>1, <2>2
  <1>4. pc' \in {"dir", "sweep"}
    BY DEF Remove
  <1> QED
    BY <1>1, <1>2, <1>3, <1>4

\* Every step keeps the types.
LEMMA TypeNext == TypeOK /\ [Next]_vars => TypeOK'
  <1> SUFFICES ASSUME TypeOK, [Next]_vars PROVE TypeOK'
    OBVIOUS
  <1> USE DEF fsVars, cacheVars, loopVars, histVars
  <1>d. data_path_list \in Seq(Elem)
    BY DEF TypeOK, Elem
  <1>1. CASE Begin
    <2>1. [dir |-> Root, depth |-> Depth] \in Elem
      BY EntryType, Constants DEF Elem
    <2>2. data_path_list' \in Seq(Elem)
      BY <1>1, <2>1 DEF Begin
    <2>3. i' \in 0..Depth /\ pc' = "dir"
      BY <1>1, Constants DEF Begin
    <2>4. UNCHANGED <<there, gone, apk_path_hash_list, entries, refused>>
      BY <1>1 DEF Begin
    <2>5. last' \in BOOLEAN /\ stop' \in BOOLEAN /\ faulted' \in BOOLEAN
      BY <1>1 DEF Begin
    <2>6. exists' = {} /\ steady' = there /\ seen' = {}
      BY <1>1 DEF Begin, Unmarked
    <2> QED
      BY <2>2, <2>3, <2>4, <2>5, <2>6 DEF TypeOK, Elem
  <1>2. CASE EmptyLevel
    BY <1>2, Constants DEF EmptyLevel, TypeOK, LastLevel
  <1>3. CASE OpenDir
    <2>1. EntriesOf(Current.dir) \subseteq Dirs \cup Apks
      BY EntryType DEF EntriesOf, TypeOK
    <2> QED
      BY <1>3, <2>1 DEF OpenDir, AtDir, TypeOK
  <1>4. CASE SkipDir
    BY <1>4, RemoveType DEF SkipDir, AtDir, TypeOK, Elem
  <1>5. CASE CloseDir
    BY <1>5, RemoveType DEF CloseDir, TypeOK, Elem
  <1>6. CASE Sweep
    BY <1>6 DEF Sweep, TypeOK
  <1>7. ASSUME NEW e \in entries, SubDir(e) PROVE TypeOK'
    <2>1. data_path_list # << >> /\ pc = "entries"
      BY <1>7 DEF SubDir, Read, TypeOK
    <2>2. /\ data_path_list' \in Seq(Elem) /\ data_path_list' # << >>
          /\ faulted' \in BOOLEAN
      <3>1. CASE /\ Current.depth > 0 /\ e \in Dirs /\ UNCHANGED faulted
                 /\ data_path_list' = Append(data_path_list, [dir |-> e, depth |-> DepthBelow(Current.depth)])
        <4>1. [dir |-> e, depth |-> DepthBelow(Current.depth)] \in Elem
          <5>1. Current.depth \in 0..Depth
            BY <1>d, <2>1, TailElems DEF Current, Elem
          <5>2. DepthBelow(Current.depth) \in 0..Depth
            BY <3>1, <5>1, Constants DEF DepthBelow
          <5> QED
            BY <3>1, <5>2 DEF Elem
        <4> QED
          BY <1>d, <3>1, <4>1, AppendElems DEF TypeOK
      <3>2. CASE UNCHANGED data_path_list /\ faulted' \in BOOLEAN
        BY <1>d, <2>1, <3>2
      <3> QED
        BY <1>7, <3>1, <3>2 DEF SubDir, TypeOK
    <2> QED
      BY <1>7, <2>1, <2>2 DEF SubDir, Read, TypeOK, Elem
  <1>8. ASSUME NEW e \in entries, CachedApk(e) PROVE TypeOK'
    BY <1>8 DEF CachedApk, Read, TypeOK
  <1>9. ASSUME NEW e \in entries, FoundManager(e) PROVE TypeOK'
    BY <1>9, Constants DEF FoundManager, Read, TypeOK
  <1>10. ASSUME NEW e \in entries, OtherApk(e) PROVE TypeOK'
    BY <1>10 DEF OtherApk, Read, TypeOK
  <1>11. ASSUME NEW a \in Apks, Install(a) PROVE TypeOK'
    BY <1>11 DEF Install, TypeOK
  <1>12. ASSUME NEW a \in Apks, Uninstall(a) PROVE TypeOK'
    BY <1>12 DEF Uninstall, TypeOK
  <1>13. CASE UNCHANGED vars
    BY <1>13 DEF vars, TypeOK
  <1> QED
    BY <1>1, <1>2, <1>3, <1>4, <1>5, <1>6, <1>7, <1>8, <1>9, <1>10, <1>11, <1>12, <1>13
    DEF Next, SearchStep

\* In every reachable state every variable has its type (TypeOK): the work list
\* holds directories with a depth between 0 and Depth, and only cached hashes
\* are marked.
THEOREM TypeCorrect == Spec => []TypeOK
  BY TypeInit, TypeNext, PTL DEF Spec

-----------------------------------------------------------------------------
(* The passes of the level loop empty the list                              *)
(*                                                                          *)
(* In pass i no directory is deeper than i allows, and what lies behind the *)
(* last one of the pass was found in it, one level further down.            *)

PassInv ==
    /\ pc \in {"dir", "entries"} =>
         /\ \A j \in DOMAIN data_path_list : data_path_list[j].depth =< i
         /\ last => \A j \in DOMAIN data_path_list : j >= 2 => data_path_list[j].depth < i
         /\ ~last => Len(data_path_list) >= 2
    /\ pc = "sweep" => data_path_list = << >>

\* The elements of the list have a depth; and the first is the current one.
LEMMA ListElems ==
    ASSUME TypeOK
    PROVE  /\ data_path_list \in Seq(Elem) /\ Len(data_path_list) \in Nat
           /\ DOMAIN data_path_list = 1..Len(data_path_list)
           /\ \A j \in DOMAIN data_path_list : data_path_list[j] \in Elem
           /\ \A j \in DOMAIN data_path_list :
                data_path_list[j].dir \in Dirs /\ data_path_list[j].depth \in 0..Depth
           /\ data_path_list # << >> <=> 1 \in DOMAIN data_path_list
  <1>1. data_path_list \in Seq(Elem)
    BY DEF TypeOK, Elem
  <1>2. \A j \in DOMAIN data_path_list : data_path_list[j] \in Elem
    BY <1>1
  <1>3. \A j \in DOMAIN data_path_list :
                data_path_list[j].dir \in Dirs /\ data_path_list[j].depth \in 0..Depth
    BY <1>2 DEF Elem
  <1> QED
    BY <1>1, <1>2, <1>3

\* What is left of the list when its first element goes.
LEMMA RemoveElems ==
    ASSUME TypeOK, data_path_list # << >>, Remove
    PROVE  /\ Len(data_path_list') = Len(data_path_list) - 1
           /\ DOMAIN data_path_list' = 1..(Len(data_path_list) - 1)
           /\ \A j \in DOMAIN data_path_list' :
                j + 1 \in DOMAIN data_path_list /\ data_path_list'[j] = data_path_list[j + 1]
           /\ \A j \in DOMAIN data_path_list :
                j # 1 => j - 1 \in DOMAIN data_path_list' /\ data_path_list'[j - 1] = data_path_list[j]
  <1>1. data_path_list' = Tail(data_path_list) /\ data_path_list \in Seq(Elem)
    BY ListElems DEF Remove
  <1>2. /\ Len(data_path_list) \in Nat /\ Len(data_path_list') = Len(data_path_list) - 1
        /\ DOMAIN data_path_list' = 1..(Len(data_path_list) - 1)
        /\ DOMAIN data_path_list = 1..Len(data_path_list)
        /\ \A j \in 1..(Len(data_path_list) - 1) : data_path_list'[j] = data_path_list[j + 1]
    BY <1>1, TailElems
  <1> QED
    BY <1>2

\* A directory found below the current one is queued behind all others.
LEMMA SubDirElems ==
    ASSUME TypeOK, NEW e \in entries, SubDir(e)
    PROVE  \/ UNCHANGED data_path_list
           \/ /\ e \in Dirs \ Staging /\ Current.depth > 0 /\ UNCHANGED faulted
              /\ Len(data_path_list') = Len(data_path_list) + 1
              /\ DOMAIN data_path_list' = 1..(Len(data_path_list) + 1)
              /\ \A j \in DOMAIN data_path_list : data_path_list'[j] = data_path_list[j]
              /\ data_path_list'[Len(data_path_list) + 1] =
                   [dir |-> e, depth |-> Current.depth - 1]
  <1> SUFFICES ASSUME /\ e \in Dirs \ Staging /\ Current.depth > 0 /\ UNCHANGED faulted
                      /\ data_path_list' = Append(data_path_list, [dir |-> e, depth |-> Current.depth - 1])
               PROVE  /\ Len(data_path_list') = Len(data_path_list) + 1
                      /\ DOMAIN data_path_list' = 1..(Len(data_path_list) + 1)
                      /\ \A j \in DOMAIN data_path_list : data_path_list'[j] = data_path_list[j]
                      /\ data_path_list'[Len(data_path_list) + 1] =
                           [dir |-> e, depth |-> Current.depth - 1]
    BY DEF SubDir, DepthBelow
  <1>1. 1 \in DOMAIN data_path_list
    BY ListElems DEF SubDir, Read, TypeOK
  <1>2. Current.depth \in 0..Depth
    BY <1>1, ListElems DEF Current
  <1>3. Current.depth - 1 \in 0..Depth
    BY <1>2, Constants
  <1>4. [dir |-> e, depth |-> Current.depth - 1] \in Elem
    BY <1>3 DEF Elem
  <1> QED
    BY <1>4, ListElems, AppendElems

\* When a directory is done the next pass begins where this one's list ends.
LEMMA RemovePass ==
    ASSUME TypeOK, PassInv, pc \in {"dir", "entries"}, data_path_list # << >>, Remove
    PROVE  PassInv'
  <1> DEFINE len == Len(data_path_list)
  <1>1. /\ len \in Nat /\ len >= 1 /\ DOMAIN data_path_list = 1..len
        /\ i \in 0..Depth
        /\ \A j \in DOMAIN data_path_list : data_path_list[j].depth \in 0..Depth
    BY ListElems DEF TypeOK
  <1>2. /\ Len(data_path_list') = len - 1 /\ DOMAIN data_path_list' = 1..(len - 1)
        /\ \A j \in DOMAIN data_path_list' :
             j + 1 \in DOMAIN data_path_list /\ data_path_list'[j] = data_path_list[j + 1]
    BY RemoveElems
  <1>3. /\ \A j \in DOMAIN data_path_list : data_path_list[j].depth =< i
        /\ last => \A j \in DOMAIN data_path_list : j >= 2 => data_path_list[j].depth < i
        /\ ~last => len >= 2
    BY DEF PassInv
  <1>4. data_path_list' \in Seq(Elem)
    BY RemoveType
  <1>5. CASE last /\ i > 0
    <2>1. pc' = "dir" /\ i' = i - 1 /\ (last' <=> len =< 2)
      BY <1>5 DEF Remove, LastLevel
    <2>2. \A j \in DOMAIN data_path_list' : data_path_list'[j].depth =< i - 1
      <3> SUFFICES ASSUME NEW j \in DOMAIN data_path_list'
                   PROVE  data_path_list'[j].depth =< i - 1
        OBVIOUS
      <3>1. data_path_list[j + 1].depth < i /\ data_path_list[j + 1].depth \in 0..Depth
        BY <1>1, <1>2, <1>3, <1>5
      <3> QED
        BY <1>1, <1>2, <3>1, Constants
    <2> QED
      BY <1>1, <1>2, <2>1, <2>2 DEF PassInv
  <1>6. CASE last /\ ~(i > 0)
    <2>1. pc' = "sweep" /\ i = 0
      BY <1>1, <1>6 DEF Remove, LastLevel
    <2>2. len = 1
      <3>1. ASSUME len >= 2 PROVE FALSE
        <4>1. 2 \in DOMAIN data_path_list
          BY <1>1, <3>1
        <4>2. data_path_list[2].depth < 0
          BY <1>3, <1>6, <2>1, <4>1
        <4> QED
          BY <1>1, <4>1, <4>2, Constants
      <3> QED
        BY <1>1, <3>1
    <2>3. data_path_list' = << >>
      BY <1>2, <1>4, <2>2
    <2> QED
      BY <2>1, <2>3 DEF PassInv
  <1>7. CASE ~last
    <2>1. pc' = "dir" /\ i' = i /\ (last' <=> len = 2)
      BY <1>7 DEF Remove
    <2>2. \A j \in DOMAIN data_path_list' : data_path_list'[j].depth =< i
      BY <1>2, <1>3
    <2>3. last' => \A j \in DOMAIN data_path_list' : ~(j >= 2)
      BY <1>2, <2>1
    <2>4. ~last' => Len(data_path_list') >= 2
      BY <1>1, <1>2, <1>3, <1>7, <2>1
    <2> QED
      BY <2>1, <2>2, <2>3, <2>4 DEF PassInv
  <1> QED
    BY <1>5, <1>6, <1>7

LEMMA PassNext == TypeOK /\ PassInv /\ [Next]_vars => PassInv'
  <1> SUFFICES ASSUME TypeOK, PassInv, [Next]_vars PROVE PassInv'
    OBVIOUS
  <1> USE DEF fsVars, cacheVars, loopVars, histVars
  <1>1. CASE Begin
    <2>1. /\ data_path_list' = <<[dir |-> Root, depth |-> Depth]>>
          /\ i' = Depth /\ pc' = "dir" /\ last' = TRUE
      BY <1>1 DEF Begin
    <2>2. DOMAIN data_path_list' = {1} /\ data_path_list'[1].depth = Depth
      BY <2>1
    <2> QED
      BY <2>1, <2>2, Constants DEF PassInv
  <1>2. CASE EmptyLevel
    BY <1>2 DEF EmptyLevel, PassInv, TypeOK
  <1>3. CASE OpenDir
    BY <1>3 DEF OpenDir, AtDir, PassInv
  <1>4. CASE SkipDir
    BY <1>4, RemovePass DEF SkipDir, AtDir
  <1>5. CASE CloseDir
    BY <1>5, RemovePass DEF CloseDir, TypeOK
  <1>6. CASE Sweep
    BY <1>6 DEF Sweep, PassInv
  <1>7. ASSUME NEW e \in entries, SubDir(e) PROVE PassInv'
    <2>1. /\ pc = "entries" /\ pc' = pc /\ i' = i /\ last' = last
          /\ 1 \in DOMAIN data_path_list
      BY <1>7, ListElems DEF SubDir, Read, TypeOK
    <2>2. CASE UNCHANGED data_path_list
      BY <2>1, <2>2 DEF PassInv
    <2>3. CASE /\ Len(data_path_list') = Len(data_path_list) + 1
               /\ DOMAIN data_path_list' = 1..(Len(data_path_list) + 1)
               /\ \A j \in DOMAIN data_path_list : data_path_list'[j] = data_path_list[j]
               /\ data_path_list'[Len(data_path_list) + 1] =
                    [dir |-> e, depth |-> Current.depth - 1]
      <3>1. Current.depth \in 0..Depth /\ Current.depth =< i /\ i \in 0..Depth
        BY <2>1, ListElems DEF Current, PassInv, TypeOK
      <3>2. data_path_list'[Len(data_path_list) + 1].depth < i
        BY <2>3, <3>1, Constants
      <3>3. DOMAIN data_path_list = 1..Len(data_path_list) /\ Len(data_path_list) \in Nat
        BY ListElems
      <3>4. \A j \in DOMAIN data_path_list' :
               j \in DOMAIN data_path_list \/ j = Len(data_path_list) + 1
        BY <2>3, <3>3
      <3>5. \A j \in DOMAIN data_path_list' : data_path_list'[j].depth =< i
        BY <2>1, <2>3, <3>1, <3>2, <3>4 DEF PassInv
      <3>6. last => \A j \in DOMAIN data_path_list' : j >= 2 => data_path_list'[j].depth < i
        BY <2>1, <2>3, <3>2, <3>4 DEF PassInv
      <3>7. ~last => Len(data_path_list') >= 2
        BY <2>1, <2>3, <3>3 DEF PassInv
      <3> QED
        BY <2>1, <3>5, <3>6, <3>7 DEF PassInv
    <2> QED
      BY <1>7, <2>2, <2>3, SubDirElems
  <1>8. ASSUME NEW e \in entries, CachedApk(e) \/ FoundManager(e) \/ OtherApk(e) PROVE PassInv'
    BY <1>8 DEF CachedApk, FoundManager, OtherApk, PassInv
  <1>9. CASE UNCHANGED vars \/ \E a \in Apks : Install(a) \/ Uninstall(a)
    BY <1>9 DEF Install, Uninstall, vars, PassInv
  <1> QED
    BY <1>1, <1>2, <1>3, <1>4, <1>5, <1>6, <1>7, <1>8, <1>9 DEF Next, SearchStep

\* When a search is over its work list is empty: the passes of the loop, of
\* which there are Depth + 1, are enough for every tree, and no element of the
\* list outlives the function that allocated it.
THEOREM WorkListDrained == Spec => []Drained
  <1>1. Init => PassInv
    BY DEF Init, PassInv
  <1>2. PassInv => Drained
    BY DEF PassInv, Drained
  <1> QED
    BY <1>1, <1>2, TypeInit, TypeNext, PassNext, PTL DEF Spec

-----------------------------------------------------------------------------
(* Where a search looks                                                     *)
(*                                                                          *)
(* A listed directory has the depth its place in the tree gives it, and the *)
(* way to it leads through no directory the search must not enter.          *)

Placed(d) ==
    \A a \in Apks : \A k \in DOMAIN Path[a] : Path[a][k] = d.dir =>
        /\ d.depth + k = Depth + 1
        /\ \A l \in 1..k : Path[a][l] \notin Staging
        /\ \A l \in 1..(k - 1) : Path[a][l] \notin Foreign

\* An entry lies on the way to some apk, behind the current directory.
Behind(e) == \E a \in Apks : \E k \in DOMAIN Path[a] : Path[a][k] = Current.dir /\ e = Entry(a, k)

WayInv ==
    /\ pc \in {"dir", "entries"} => \A j \in DOMAIN data_path_list : Placed(data_path_list[j])
    /\ pc = "entries" => Current.dir \notin Foreign /\ \A e \in entries : Behind(e)
    /\ seen \subseteq Visible

\* The root is where every way begins.
LEMMA RootPlaced == Placed([dir |-> Root, depth |-> Depth])
  <1> SUFFICES ASSUME NEW a \in Apks, NEW k \in DOMAIN Path[a], Path[a][k] = Root
               PROVE  k = 1 /\ Path[a][1] = Root
    BY Constants DEF Placed
  <1>1. Path[a][1] = Root /\ 1 \in DOMAIN Path[a]
    BY EntryType, TreeAssumption
  <1> QED
    BY <1>1, OnePlaceAssumption

\* A subdirectory of a placed directory that may be entered is placed as well.
LEMMA SubDirPlaced ==
    ASSUME TypeOK, WayInv, pc = "entries", NEW e \in entries, e \in Dirs \ Staging
    PROVE  Placed([dir |-> e, depth |-> Current.depth - 1])
  <1>c. 1 \in DOMAIN data_path_list /\ Current.depth \in 0..Depth
    BY ListElems DEF TypeOK, Current
  <1>1. Placed(Current) /\ Current.dir \notin Foreign
    BY <1>c DEF WayInv, Current
  <1>2. PICK b \in Apks : \E m \in DOMAIN Path[b] : Path[b][m] = Current.dir /\ e = Entry(b, m)
    BY DEF WayInv, Behind
  <1>3. PICK m \in DOMAIN Path[b] : Path[b][m] = Current.dir /\ e = Entry(b, m)
    BY <1>2
  <1>4. m < Len(Path[b]) /\ e = Path[b][m + 1] /\ m + 1 \in DOMAIN Path[b]
    BY <1>3, EntryType, Constants DEF Entry
  <1> SUFFICES ASSUME NEW a \in Apks, NEW k \in DOMAIN Path[a], Path[a][k] = e
               PROVE  /\ Current.depth - 1 + k = Depth + 1
                      /\ \A l \in 1..k : Path[a][l] \notin Staging
                      /\ \A l \in 1..(k - 1) : Path[a][l] \notin Foreign
    BY DEF Placed
  <1>5. k = m + 1 /\ Path[a][m] = Path[b][m] /\ m \in Nat /\ m >= 1
    <2>1. k = m + 1 /\ \A l \in 1..k : Path[a][l] = Path[b][l]
      BY <1>4, OnePlaceAssumption
    <2>2. m \in Nat /\ m >= 1
      BY EntryType
    <2> QED
      BY <2>1, <2>2
  <1>6. m \in DOMAIN Path[a]
    BY <1>5, EntryType
  <1>7. /\ Current.depth + m = Depth + 1
        /\ \A l \in 1..m : Path[a][l] \notin Staging
        /\ \A l \in 1..(m - 1) : Path[a][l] \notin Foreign
    BY <1>1, <1>3, <1>5, <1>6 DEF Placed
  <1>8. \A l \in 1..k : l \in 1..m \/ l = k
    BY <1>5
  <1>9. \A l \in 1..(k - 1) : l \in 1..(m - 1) \/ l = m
    BY <1>5
  <1>10. Path[a][m] \notin Foreign /\ Path[a][k] \notin Staging
    BY <1>1, <1>3, <1>5
  <1> QED
    BY <1>c, <1>5, <1>7, <1>8, <1>9, <1>10, Constants

\* An apk in a placed directory that was entered is one the search may look at.
LEMMA EntryVisible ==
    ASSUME TypeOK, WayInv, pc = "entries", NEW a \in entries, a \in Apks
    PROVE  a \in Visible
  <1>c. 1 \in DOMAIN data_path_list /\ Current.depth \in 0..Depth
    BY ListElems DEF TypeOK, Current
  <1>1. Placed(Current) /\ Current.dir \notin Foreign
    BY <1>c DEF WayInv, Current
  <1>2. PICK b \in Apks : \E m \in DOMAIN Path[b] : Path[b][m] = Current.dir /\ a = Entry(b, m)
    BY DEF WayInv, Behind
  <1>3. PICK m \in DOMAIN Path[b] : Path[b][m] = Current.dir /\ a = Entry(b, m)
    BY <1>2
  <1>4. m = Len(Path[b]) /\ a = b
    <2>1. ~(m < Len(Path[b]))
      <3> SUFFICES ASSUME m < Len(Path[b]) PROVE FALSE
        OBVIOUS
      <3>1. a = Path[b][m + 1] /\ m + 1 \in DOMAIN Path[b]
        BY <1>3, EntryType DEF Entry
      <3> QED
        BY <3>1, EntryType, Constants
    <2> QED
      BY <1>3, <2>1, EntryType DEF Entry
  <1>5. /\ Current.depth + m = Depth + 1
        /\ \A l \in 1..m : Path[a][l] \notin Staging
        /\ \A l \in 1..(m - 1) : Path[a][l] \notin Foreign
    BY <1>1, <1>3, <1>4 DEF Placed
  <1>6. DOMAIN Path[a] = 1..m /\ m \in Nat /\ m >= 1
    BY <1>4, EntryType
  <1>7. \A l \in 1..m : l \in 1..(m - 1) \/ l = m
    BY <1>6
  <1>8. Len(Path[a]) =< Depth + 1
    BY <1>c, <1>4, <1>5, <1>6, Constants
  <1>9. \A l \in DOMAIN Path[a] : Path[a][l] \notin Staging \cup Foreign
    BY <1>1, <1>3, <1>4, <1>5, <1>6, <1>7
  <1> QED
    BY <1>8, <1>9 DEF Visible

LEMMA WayNext == TypeOK /\ WayInv /\ [Next]_vars => WayInv'
  <1> SUFFICES ASSUME TypeOK, WayInv, [Next]_vars PROVE WayInv'
    OBVIOUS
  <1> USE DEF fsVars, cacheVars, loopVars, histVars
  <1>1. CASE Begin
    <2>1. /\ data_path_list' = <<[dir |-> Root, depth |-> Depth]>>
          /\ pc' = "dir" /\ seen' = {}
      BY <1>1 DEF Begin
    <2>2. DOMAIN data_path_list' = {1} /\ data_path_list'[1] = [dir |-> Root, depth |-> Depth]
      BY <2>1
    <2> QED
      BY <2>1, <2>2, RootPlaced DEF WayInv
  <1>2. CASE EmptyLevel
    BY <1>2 DEF EmptyLevel, WayInv
  <1>3. CASE OpenDir
    <2>1. /\ pc = "dir" /\ Current.dir \notin Foreign /\ entries' = EntriesOf(Current.dir)
          /\ UNCHANGED <<data_path_list, seen>>
      BY <1>3 DEF OpenDir, AtDir
    <2>2. \A e \in EntriesOf(Current.dir) : Behind(e)
      BY DEF EntriesOf, Behind, TypeOK
    <2> QED
      BY <2>1, <2>2 DEF WayInv, Current, Behind
  <1>4. CASE SkipDir \/ CloseDir
    <2>1. /\ Remove /\ data_path_list # << >> /\ pc \in {"dir", "entries"} /\ UNCHANGED seen
      BY <1>4 DEF SkipDir, CloseDir, AtDir, TypeOK
    <2>2. pc' \in {"dir", "sweep"}
      BY <2>1, RemoveType
    <2>3. \A j \in DOMAIN data_path_list' : Placed(data_path_list'[j])
      BY <2>1, RemoveElems DEF WayInv
    <2> QED
      BY <2>1, <2>2, <2>3 DEF WayInv
  <1>5. CASE Sweep
    BY <1>5 DEF Sweep, WayInv
  <1>6. ASSUME NEW e \in entries, SubDir(e) PROVE WayInv'
    <2>1. /\ pc = "entries" /\ pc' = pc /\ entries' = entries \ {e} /\ UNCHANGED seen
          /\ 1 \in DOMAIN data_path_list
      BY <1>6, ListElems DEF SubDir, Read, TypeOK
    <2>2. CASE UNCHANGED data_path_list
      BY <2>1, <2>2 DEF WayInv, Current, Behind
    <2>3. CASE /\ e \in Dirs \ Staging /\ Current.depth > 0
               /\ DOMAIN data_path_list' = 1..(Len(data_path_list) + 1)
               /\ \A j \in DOMAIN data_path_list : data_path_list'[j] = data_path_list[j]
               /\ data_path_list'[Len(data_path_list) + 1] =
                    [dir |-> e, depth |-> Current.depth - 1]
      <3>1. \A j \in DOMAIN data_path_list' :
               j \in DOMAIN data_path_list \/ j = Len(data_path_list) + 1
        BY <2>3, ListElems
      <3>2. Placed(data_path_list'[Len(data_path_list) + 1])
        BY <2>1, <2>3, SubDirPlaced
      <3>3. \A j \in DOMAIN data_path_list' : Placed(data_path_list'[j])
        BY <2>1, <2>3, <3>1, <3>2 DEF WayInv
      <3>4. Current' = Current
        BY <2>1, <2>3 DEF Current
      <3> QED
        BY <2>1, <3>3, <3>4 DEF WayInv, Behind
    <2> QED
      BY <1>6, <2>2, <2>3, SubDirElems
  <1>7. ASSUME NEW e \in entries, CachedApk(e) \/ FoundManager(e) \/ OtherApk(e) PROVE WayInv'
    <2>1. /\ pc = "entries" /\ pc' = pc /\ entries' = entries \ {e} /\ e \in Apks
          /\ seen' = seen \cup {e} /\ UNCHANGED data_path_list
      BY <1>7, Constants DEF CachedApk, FoundManager, OtherApk, Read
    <2>2. e \in Visible
      BY <2>1, EntryVisible
    <2> QED
      BY <2>1, <2>2 DEF WayInv, Current, Behind
  <1>8. CASE UNCHANGED vars \/ \E a \in Apks : Install(a) \/ Uninstall(a)
    BY <1>8 DEF Install, Uninstall, vars, WayInv, Current, Behind
  <1> QED
    BY <1>1, <1>2, <1>3, <1>4, <1>5, <1>6, <1>7, <1>8 DEF Next, SearchStep

-----------------------------------------------------------------------------
(* Nothing is missed                                                        *)
(*                                                                          *)
(* As long as nothing stopped or failed, the way to an apk that stays in    *)
(* place is never lost: one of its directories is still to be opened, or    *)
(* the next step on the way is still to be read.                            *)

Pending(a) ==
    \E k \in DOMAIN Path[a] :
        \/ \E j \in DOMAIN data_path_list :
              data_path_list[j].dir = Path[a][k] /\ (pc = "entries" => j # 1)
        \/ pc = "entries" /\ Current.dir = Path[a][k] /\ Entry(a, k) \in entries

PendInv ==
    pc # "idle" /\ ~stop /\ ~faulted =>
        \A a \in steady \cap Visible : a \in seen \/ Pending(a)

\* Reading a directory moves the way one step on.
LEMMA SubDirPending ==
    ASSUME TypeOK, WayInv, NEW e \in entries, SubDir(e), ~faulted',
           NEW a \in Visible, Pending(a)
    PROVE  Pending(a)'
  <1>1. /\ pc = "entries" /\ pc' = pc /\ entries' = entries \ {e} /\ e \in Dirs
        /\ 1 \in DOMAIN data_path_list /\ a \in Apks
    BY ListElems DEF SubDir, Read, TypeOK, Visible
  <1>2. /\ Len(data_path_list) \in Nat /\ DOMAIN data_path_list = 1..Len(data_path_list)
        /\ \A j \in DOMAIN data_path_list :
             j \in DOMAIN data_path_list' /\ data_path_list'[j] = data_path_list[j]
    <2>1. Len(data_path_list) \in Nat /\ DOMAIN data_path_list = 1..Len(data_path_list)
      BY ListElems
    <2>2. CASE UNCHANGED data_path_list
      BY <2>1, <2>2
    <2>3. CASE /\ DOMAIN data_path_list' = 1..(Len(data_path_list) + 1)
               /\ \A j \in DOMAIN data_path_list : data_path_list'[j] = data_path_list[j]
      BY <2>1, <2>3
    <2> QED
      BY <2>2, <2>3, SubDirElems
  <1>3. Current' = Current
    BY <1>1, <1>2 DEF Current
  <1>4. PICK k \in DOMAIN Path[a] :
           \/ \E j \in DOMAIN data_path_list : data_path_list[j].dir = Path[a][k] /\ j # 1
           \/ Current.dir = Path[a][k] /\ Entry(a, k) \in entries
    BY <1>1 DEF Pending
  <1>5. CASE \E j \in DOMAIN data_path_list : data_path_list[j].dir = Path[a][k] /\ j # 1
    BY <1>1, <1>2, <1>5 DEF Pending
  <1>6. CASE Current.dir = Path[a][k] /\ Entry(a, k) \in entries /\ Entry(a, k) # e
    BY <1>1, <1>3, <1>6 DEF Pending
  <1>7. CASE Current.dir = Path[a][k] /\ Entry(a, k) = e
    <2>1. k < Len(Path[a]) /\ e = Path[a][k + 1] /\ k + 1 \in DOMAIN Path[a] /\ k \in Nat
      BY <1>1, <1>7, EntryType, Constants DEF Entry
    <2>2. e \notin Staging /\ Len(Path[a]) =< Depth + 1 /\ Len(Path[a]) \in Nat
      BY <1>1, <2>1, EntryType DEF Visible
    <2>3. Current.depth + k = Depth + 1 /\ Current.depth \in 0..Depth
      BY <1>1, <1>7, ListElems DEF WayInv, Placed, Current
    <2>4. Current.depth > 0
      BY <2>1, <2>2, <2>3, Constants
    <2>5. data_path_list' = Append(data_path_list, [dir |-> e, depth |-> Current.depth - 1])
      BY <2>2, <2>4 DEF SubDir, DepthBelow
    <2>6. [dir |-> e, depth |-> Current.depth - 1] \in Elem
      <3>1. Current.depth - 1 \in 0..Depth
        BY <2>3, <2>4, Constants
      <3> QED
        BY <1>1, <3>1 DEF Elem
    <2>7. /\ Len(data_path_list) + 1 \in DOMAIN data_path_list'
          /\ data_path_list'[Len(data_path_list) + 1] = [dir |-> e, depth |-> Current.depth - 1]
      BY <2>5, <2>6, ListElems, AppendElems
    <2>8. data_path_list'[Len(data_path_list) + 1].dir = Path[a][k + 1]
      BY <2>1, <2>7
    <2>9. Len(data_path_list) + 1 # 1
      BY <1>1, <1>2
    <2> QED
      BY <2>1, <2>7, <2>8, <2>9 DEF Pending
  <1> QED
    BY <1>4, <1>5, <1>6, <1>7

LEMMA PendNext == TypeOK /\ PassInv /\ WayInv /\ PendInv /\ [Next]_vars => PendInv'
  <1> SUFFICES ASSUME TypeOK, PassInv, WayInv, PendInv, [Next]_vars PROVE PendInv'
    OBVIOUS
  <1> USE DEF fsVars, cacheVars, loopVars, histVars
  <1>1. CASE Begin
    <2>1. data_path_list' = <<[dir |-> Root, depth |-> Depth]>> /\ pc' = "dir"
      BY <1>1 DEF Begin
    <2>2. 1 \in DOMAIN data_path_list' /\ data_path_list'[1].dir = Root
      BY <2>1
    <2>3. \A a \in Visible : 1 \in DOMAIN Path[a] /\ Path[a][1] = Root
      BY EntryType, TreeAssumption DEF Visible
    <2>4. \A a \in Visible : Pending(a)'
      BY <2>1, <2>2, <2>3 DEF Pending
    <2> QED
      BY <2>4 DEF PendInv, Visible
  <1>2. CASE EmptyLevel
    BY <1>2 DEF EmptyLevel, PendInv, Pending
  <1>3. CASE OpenDir
    <2>1. /\ pc = "dir" /\ pc' = "entries" /\ entries' = EntriesOf(Current.dir)
          /\ UNCHANGED <<data_path_list, stop, steady, seen, faulted>>
          /\ Current' = Current
      BY <1>3 DEF OpenDir, AtDir, Current
    <2>2. ASSUME NEW a \in steady \cap Visible, Pending(a) PROVE Pending(a)'
      <3>1. PICK k \in DOMAIN Path[a] :
               \E j \in DOMAIN data_path_list : data_path_list[j].dir = Path[a][k]
        BY <2>1, <2>2 DEF Pending
      <3>2. PICK j \in DOMAIN data_path_list : data_path_list[j].dir = Path[a][k]
        BY <3>1
      <3>3. CASE j # 1
        BY <2>1, <3>2, <3>3 DEF Pending
      <3>4. CASE j = 1
        <4>1. a \in there /\ Path[a][k] = Current.dir
          BY <3>2, <3>4 DEF TypeOK, Current
        <4>2. Entry(a, k) \in EntriesOf(Current.dir)
          BY <4>1 DEF EntriesOf
        <4> QED
          BY <2>1, <4>1, <4>2 DEF Pending
      <3> QED
        BY <3>3, <3>4
    <2> QED
      BY <2>1, <2>2 DEF PendInv
  <1>4. CASE SkipDir \/ CloseDir
    <2> SUFFICES ASSUME ~stop', ~faulted', NEW a \in steady' \cap Visible
                 PROVE  a \in seen' \/ Pending(a)'
      BY DEF PendInv
    <2>1. /\ Remove /\ data_path_list # << >> /\ pc \in {"dir", "entries"}
          /\ UNCHANGED <<steady, seen, stop>> /\ ~faulted
      BY <1>4 DEF SkipDir, CloseDir, AtDir, TypeOK
    <2>2. pc' \in {"dir", "sweep"}
      BY <2>1, RemoveType
    <2>3. a \in seen \/ Pending(a)
      BY <2>1 DEF PendInv
    <2>4. ASSUME Pending(a) PROVE Pending(a)'
      <3>1. PICK k \in DOMAIN Path[a] :
               \/ \E j \in DOMAIN data_path_list :
                     data_path_list[j].dir = Path[a][k] /\ (pc = "entries" => j # 1)
               \/ pc = "entries" /\ Current.dir = Path[a][k] /\ Entry(a, k) \in entries
        BY <2>4 DEF Pending
      <3>2. CASE CloseDir
        <4>1. pc = "entries" /\ entries = {}
          BY <2>1, <3>2 DEF CloseDir
        <4>2. PICK j \in DOMAIN data_path_list : data_path_list[j].dir = Path[a][k] /\ j # 1
          BY <3>1, <4>1
        <4> QED
          BY <2>1, <2>2, <4>2, RemoveElems DEF Pending
      <3>3. CASE SkipDir
        <4>0. pc = "dir" /\ faulted' = (faulted \/ ~(stop \/ Current.dir \in Foreign))
          BY <3>3 DEF SkipDir, AtDir
        <4>1. pc = "dir" /\ Current.dir \in Foreign
          BY <2>1, <4>0, Zenon
        <4>2. PICK j \in DOMAIN data_path_list : data_path_list[j].dir = Path[a][k]
          BY <3>1, <4>1
        <4>3. j # 1
          BY <4>1, <4>2 DEF Visible, Current
        <4> QED
          BY <2>1, <2>2, <4>2, <4>3, RemoveElems DEF Pending
      <3> QED
        BY <1>4, <3>2, <3>3
    <2> QED
      BY <2>1, <2>3, <2>4
  <1>5. CASE Sweep
    BY <1>5 DEF Sweep, PendInv
  <1>6. ASSUME NEW e \in entries, SubDir(e) PROVE PendInv'
    <2>1. UNCHANGED <<pc, stop, steady, seen>> /\ (faulted => faulted') /\ pc = "entries"
      BY <1>6 DEF SubDir, Read
    <2> QED
      BY <1>6, <2>1, SubDirPending DEF PendInv
  <1>7. ASSUME NEW e \in entries, CachedApk(e) \/ OtherApk(e) PROVE PendInv'
    <2>1. /\ pc = "entries" /\ pc' = pc /\ entries' = entries \ {e} /\ e \in Apks
          /\ seen' = seen \cup {e} /\ UNCHANGED <<data_path_list, steady, stop, faulted>>
      BY <1>7 DEF CachedApk, OtherApk, Read
    <2>2. ASSUME NEW a \in Visible, Pending(a) PROVE a = e \/ Pending(a)'
      <3>1. PICK k \in DOMAIN Path[a] :
               \/ \E j \in DOMAIN data_path_list : data_path_list[j].dir = Path[a][k] /\ j # 1
               \/ Current.dir = Path[a][k] /\ Entry(a, k) \in entries
        BY <2>1, <2>2 DEF Pending
      <3>2. a \in Apks
        BY DEF Visible
      <3>3. Entry(a, k) = e => a = e
        <4>1. CASE k < Len(Path[a])
          <5>1. Entry(a, k) \in Dirs
            <6>1. Entry(a, k) = Path[a][k + 1] /\ k + 1 \in DOMAIN Path[a]
              BY <3>2, <4>1, EntryType DEF Entry
            <6> QED
              BY <3>2, <6>1, EntryType
          <5> QED
            BY <2>1, <5>1, Constants
        <4>2. CASE ~(k < Len(Path[a]))
          BY <4>2 DEF Entry
        <4> QED
          BY <4>1, <4>2
      <3> QED
        BY <2>1, <3>1, <3>3 DEF Pending, Current
    <2> QED
      BY <2>1, <2>2 DEF PendInv
  <1>8. ASSUME NEW e \in entries, FoundManager(e) PROVE PendInv'
    BY <1>8 DEF FoundManager, PendInv
  <1>9. CASE UNCHANGED vars \/ \E a \in Apks : Install(a) \/ Uninstall(a)
    <2>1. /\ UNCHANGED <<pc, data_path_list, entries, stop, seen, faulted>>
          /\ steady' \subseteq steady
      BY <1>9 DEF Install, Uninstall, vars
    <2> QED
      BY <2>1 DEF PendInv, Pending, Current
  <1> QED
    BY <1>1, <1>2, <1>3, <1>4, <1>5, <1>6, <1>7, <1>8, <1>9 DEF Next, SearchStep

\* A search that was not stopped and lost no directory to a failure has looked
\* at every apk that was in place all along, and never at one it must not look
\* at: for every tree, every depth, and whatever is installed and removed
\* meanwhile.
THEOREM SearchComplete == Spec => []Complete
  <1> DEFINE I == TypeOK /\ PassInv /\ WayInv /\ PendInv
  <1>1. Init => I
    BY TypeInit DEF Init, PassInv, WayInv, PendInv
  <1>2. I /\ [Next]_vars => I'
    BY TypeNext, PassNext, WayNext, PendNext
  <1>3. I => Complete
    <2> SUFFICES ASSUME I, pc = "sweep"
                 PROVE  seen \subseteq Visible /\ (~stop /\ ~faulted => steady \cap Visible \subseteq seen)
      BY DEF Complete
    <2>1. data_path_list = << >> /\ seen \subseteq Visible
      BY DEF PassInv, WayInv
    <2>2. \A a : ~Pending(a)
      BY <2>1 DEF Pending
    <2> QED
      BY <2>1, <2>2 DEF PendInv
  <1> QED
    BY <1>1, <1>2, <1>3, PTL DEF Spec

-----------------------------------------------------------------------------
(* The cache                                                                *)

\* Marks are for apks of this search.
MarkInv == pc # "idle" => exists \subseteq {Key(a) : a \in seen}

LEMMA MarkNext == TypeOK /\ MarkInv /\ [Next]_vars => MarkInv'
  <1> SUFFICES ASSUME TypeOK, MarkInv, [Next]_vars PROVE MarkInv'
    OBVIOUS
  <1> USE DEF fsVars, cacheVars, loopVars, histVars
  <1>1. CASE Begin
    BY <1>1 DEF Begin, Unmarked, MarkInv
  <1>2. CASE EmptyLevel \/ OpenDir \/ SkipDir \/ CloseDir
    BY <1>2 DEF EmptyLevel, OpenDir, SkipDir, CloseDir, AtDir, Remove, MarkInv
  <1>3. CASE Sweep
    BY <1>3 DEF Sweep, MarkInv
  <1>4. ASSUME NEW e \in entries, SubDir(e) PROVE MarkInv'
    BY <1>4 DEF SubDir, Read, MarkInv
  <1>5. ASSUME NEW e \in entries, CachedApk(e) \/ FoundManager(e) \/ OtherApk(e) PROVE MarkInv'
    BY <1>5 DEF CachedApk, FoundManager, OtherApk, Read, MarkInv
  <1>6. CASE UNCHANGED vars \/ \E a \in Apks : Install(a) \/ Uninstall(a)
    BY <1>6 DEF Install, Uninstall, vars, MarkInv
  <1> QED
    BY <1>1, <1>2, <1>3, <1>4, <1>5, <1>6 DEF Next, SearchStep

\* After a search the cache names only apks of that search: what was removed
\* is forgotten, so that the cache does not grow for ever.
THEOREM CacheIsSwept == Spec => CacheSwept
  <1>1. Init => MarkInv
    BY DEF Init, MarkInv
  <1>2. TypeOK /\ MarkInv /\ [Next]_vars =>
           (pc = "sweep" /\ pc' = "idle" => apk_path_hash_list' \subseteq {Key(a) : a \in seen})
    <2> SUFFICES ASSUME TypeOK, MarkInv, [Next]_vars, pc = "sweep", pc' = "idle"
                 PROVE  apk_path_hash_list' \subseteq {Key(a) : a \in seen}
      OBVIOUS
    <2>1. Sweep
      BY DEF Next, SearchStep, Begin, EmptyLevel, OpenDir, SkipDir, CloseDir, AtDir, SubDir,
         CachedApk, FoundManager, OtherApk, Read, Install, Uninstall, vars
    <2> QED
      BY <2>1 DEF Sweep, MarkInv
  <1> QED
    BY <1>1, <1>2, TypeInit, TypeNext, MarkNext, PTL DEF Spec, CacheSwept

\* No two paths have the same hash.
DistinctKeys == \A a, b \in Apks : Key(a) = Key(b) => a = b

\* The cache hides a manager's apk only when it was misjudged.
JudgeInv ==
    /\ \A h \in apk_path_hash_list : \E b \in (Apks \ Managers) \cup refused : h = Key(b)
    /\ pc # "idle" /\ ~stop => seen \cap Managers \subseteq refused

LEMMA JudgeNext == DistinctKeys /\ TypeOK /\ JudgeInv /\ [Next]_vars => JudgeInv'
  <1> SUFFICES ASSUME DistinctKeys, TypeOK, JudgeInv, [Next]_vars PROVE JudgeInv'
    OBVIOUS
  <1> USE DEF fsVars, cacheVars, loopVars, histVars
  <1>1. CASE Begin
    BY <1>1 DEF Begin, JudgeInv
  <1>2. CASE EmptyLevel \/ OpenDir \/ SkipDir \/ CloseDir
    <2>1. UNCHANGED <<apk_path_hash_list, stop, seen, refused>> /\ pc # "idle"
      BY <1>2 DEF EmptyLevel, OpenDir, SkipDir, CloseDir, AtDir
    <2> QED
      BY <2>1 DEF JudgeInv
  <1>3. CASE Sweep
    BY <1>3 DEF Sweep, JudgeInv
  <1>4. ASSUME NEW e \in entries, SubDir(e) PROVE JudgeInv'
    BY <1>4 DEF SubDir, JudgeInv
  <1>5. ASSUME NEW e \in entries, CachedApk(e) PROVE JudgeInv'
    <2>1. /\ e \in Apks /\ Key(e) \in apk_path_hash_list /\ seen' = seen \cup {e}
          /\ UNCHANGED <<apk_path_hash_list, pc, stop, refused>>
      BY <1>5 DEF CachedApk
    <2>2. e \in Managers => e \in refused
      BY <2>1, Constants DEF JudgeInv, DistinctKeys, TypeOK
    <2> QED
      BY <2>1, <2>2 DEF JudgeInv
  <1>6. ASSUME NEW e \in entries, FoundManager(e) PROVE JudgeInv'
    BY <1>6 DEF FoundManager, JudgeInv
  <1>7. ASSUME NEW e \in entries, OtherApk(e) PROVE JudgeInv'
    <2>1. /\ e \in Apks /\ seen' = seen \cup {e} /\ UNCHANGED <<pc, stop>>
          /\ refused' = refused \cup ({e} \cap Managers)
          /\ apk_path_hash_list' \subseteq apk_path_hash_list \cup {Key(e)}
      BY <1>7 DEF OtherApk, Read
    <2>2. e \in (Apks \ Managers) \cup refused'
      BY <2>1
    <2> QED
      BY <2>1, <2>2 DEF JudgeInv
  <1>8. CASE UNCHANGED vars \/ \E a \in Apks : Install(a) \/ Uninstall(a)
    BY <1>8 DEF Install, Uninstall, vars, JudgeInv
  <1> QED
    BY <1>1, <1>2, <1>3, <1>4, <1>5, <1>6, <1>7, <1>8 DEF Next, SearchStep

\* Where path hashes do not collide, a manager's apk that was in place all along
\* and was never misjudged stops the search, unless a directory was lost to a
\* failure: the cache of earlier searches hides no manager.
THEOREM ManagerIsFound == DistinctKeys => (Spec => []ManagerFound)
  <1> SUFFICES ASSUME DistinctKeys PROVE Spec => []ManagerFound
    OBVIOUS
  <1>1. Init => JudgeInv
    BY DEF Init, JudgeInv
  <1>2. Complete /\ JudgeInv => ManagerFound
    BY DEF Complete, JudgeInv, ManagerFound
  <1> QED
    BY <1>1, <1>2, TypeInit, TypeNext, JudgeNext, SearchComplete, PTL DEF Spec

=============================================================================
