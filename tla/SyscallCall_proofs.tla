------------------------- MODULE SyscallCall_proofs -------------------------
(* Proofs about the syscalls SyscallHook runs: no task calls through a null *)
(* original and no syscall is handled twice, in any build and with any      *)
(* failing patch; and the install magic never reboots the direct build.     *)
EXTENDS SyscallHook_proofs

-----------------------------------------------------------------------------
(* The invariant                                                            *)
(*                                                                          *)
(* A call is safe because of what was saved before the function it runs     *)
(* could be found anywhere: whatever holds the ksud hook of a slot has seen *)
(* ksud save the original, and whatever holds a hook has seen the copy.     *)

\* Slot n has been hooked by ksud, and its original is there to be called.
Saved(n) == n \in KsudSlots /\ ksud[n] # "idle" /\ ksud_old[n] # "NULL"

SavedTable == \A n \in Slots : ksu_syscall_table[n] = "ksud_hook" => Saved(n)

SavedList ==
    \A i \in DOMAIN hooked_entries :
        hooked_entries[i].orig = "ksud_hook" => Saved(hooked_entries[i].nr)

SavedInv ==
    /\ \A n \in KsudSlots : ksud[n] # "idle" => ksud_old[n] # "NULL"
    /\ SavedTable
    /\ SavedList
    /\ ksu_dispatcher_nr # NoSlot => resolved

\* A syscall before its handler has not been handled; after it, once, and it
\* is in a function of the kernel.
SafeCall(c) ==
    /\ c.at # "NULL"
    /\ c.at = "ksud_hook" => Saved(c.no)
    /\ c.at \in {"handler"} \cup Ours => resolved
    /\ c.at \in {"entry", "handler"} \cup Ours => c.handled = 0
    /\ c.handled =< 1

SafeCalls == \A t \in Tasks : SafeCall(task[t])

CallSafetyInv == TypeOK /\ HookInv /\ SavedInv /\ SafeCalls

-----------------------------------------------------------------------------
(* What the environment of a task does *)

\* What was saved stays saved, and the table stays found.
SavedForGood ==
    /\ resolved => resolved'
    /\ \A n \in KsudSlots : Saved(n) => Saved(n)'

\* A hook of a slot keeps the invariant, when the ksud hook goes only to a
\* slot whose original is saved by the same step.
LEMMA SavedHook ==
    ASSUME TypeOK, SavedInv, NEW n \in Slots, NEW fn \in Ours, TableHook(n, fn),
           ksu_dispatcher_nr' # NoSlot => resolved',
           \A m \in KsudSlots : ksud'[m] # "idle" => ksud_old'[m] # "NULL",
           \A m \in KsudSlots : Saved(m) => Saved(m)',
           fn = "ksud_hook" => Saved(n)'
    PROVE  SavedInv'
  <1>s. \A m : Saved(m) => Saved(m)'
    BY DEF Saved
  <1>1. SavedTable'
    <2>1. \A m \in Slots : \/ ksu_syscall_table'[m] = ksu_syscall_table[m]
                           \/ m = n /\ ksu_syscall_table'[m] = fn
      BY DEF TableHook, TypeOK, TableType
    <2> QED
      BY <1>s, <2>1 DEF SavedInv, SavedTable
  <1>2. SavedList'
    <2>1. CASE hooked_entries' = hooked_entries
      BY <1>s, <2>1 DEF SavedInv, SavedList
    <2>2. CASE hooked_entries' = Append(hooked_entries, [nr |-> n, orig |-> ksu_syscall_table[n]])
      <3> DEFINE e == [nr |-> n, orig |-> ksu_syscall_table[n]]
      <3>1. e \in EntryType /\ e.nr = n /\ e.orig = ksu_syscall_table[n]
        BY DEF TypeOK, TableType, EntryType
      <3>2. hooked_entries' = Append(hooked_entries, e)
        BY <2>2
      <3> HIDE DEF e
      <3>3. \A i \in DOMAIN hooked_entries' :
               \/ i \in DOMAIN hooked_entries /\ hooked_entries'[i] = hooked_entries[i]
               \/ hooked_entries'[i] = e
        BY <3>1, <3>2 DEF TypeOK, TableType
      <3>4. e.orig = "ksud_hook" => Saved(e.nr)
        BY <3>1 DEF SavedInv, SavedTable
      <3> QED
        BY <1>s, <3>3, <3>4 DEF SavedInv, SavedList
    <2> QED
      BY <2>1, <2>2 DEF TableHook, Track
  <1> QED
    BY <1>1, <1>2 DEF SavedInv

\* An unhook writes back a recorded original, and its record was saved.
LEMMA SavedUnhook ==
    ASSUME TypeOK, SavedInv, NEW n \in Slots, TableUnhook(n),
           UNCHANGED <<ksu_dispatcher_nr, resolved, ksud_old>>,
           \A m \in KsudSlots : ksud'[m] # "idle" <=> ksud[m] # "idle"
    PROVE  SavedInv'
  <1>1. \A m : Saved(m)' <=> Saved(m)
    BY DEF Saved
  <1>2. CASE UNCHANGED tableVars
    BY <1>1, <1>2 DEF SavedInv, SavedTable, SavedList, tableVars
  <1>3. ASSUME NEW i \in DOMAIN hooked_entries,
               hooked_entries[i].nr = n,
               hooked_entries' = RemoveEntry(hooked_entries, i),
               \/ ksu_syscall_table' = [ksu_syscall_table EXCEPT ![n] = hooked_entries[i].orig]
               \/ UNCHANGED ksu_syscall_table
        PROVE  SavedInv'
    <2>1. \A m \in Slots : \/ ksu_syscall_table'[m] = ksu_syscall_table[m]
                           \/ m = n /\ ksu_syscall_table'[m] = hooked_entries[i].orig
      BY <1>3 DEF TypeOK, TableType
    <2>2. SavedTable'
      BY <1>1, <1>3, <2>1 DEF SavedInv, SavedTable, SavedList
    <2>3. hooked_entries \in Seq(EntryType)
      BY DEF TypeOK, TableType
    <2>4. /\ Len(hooked_entries) \in Nat
          /\ DOMAIN hooked_entries = 1 .. Len(hooked_entries)
          /\ hooked_entries' \in Seq(EntryType)
          /\ Len(hooked_entries') = Len(hooked_entries) - 1
          /\ \A j \in 1 .. Len(hooked_entries) - 1 : hooked_entries'[j] =
               IF j = i THEN hooked_entries[Len(hooked_entries)] ELSE hooked_entries[j]
      BY <1>3, <2>3, RemoveEntryType
    <2>5. \A j \in DOMAIN hooked_entries' : \E k \in DOMAIN hooked_entries :
             hooked_entries'[j] = hooked_entries[k]
      BY <2>4
    <2>6. SavedList'
      BY <1>1, <2>5 DEF SavedInv, SavedList
    <2> QED
      BY <2>2, <2>6 DEF SavedInv
  <1> QED
    BY <1>2, <1>3 DEF TableUnhook

\* A step that leaves table, list and ksud alone.
LEMMA SavedQuiet ==
    ASSUME SavedInv, UNCHANGED <<ksu_syscall_table, ksudVars>>,
           hooked_entries' = hooked_entries \/ hooked_entries' = << >>,
           ksu_dispatcher_nr' # NoSlot => resolved'
    PROVE  SavedInv'
  BY DEF SavedInv, SavedTable, SavedList, Saved, ksudVars

\* kernelsu_init saves before it hooks.
LEMMA SavedMainStep ==
    ASSUME TypeOK, HookInv, SavedInv, MainStep
    PROVE  SavedInv' /\ SavedForGood
  <1>o. {"ksu_syscall_dispatcher", "ksu_direct_syscall_entry", "ksud_hook"} \subseteq Ours
    BY DEF Ours
  <1>1. CASE SyscallHookInit
    <2>1. UNCHANGED ksudVars /\ (resolved => resolved')
          /\ (ksu_dispatcher_nr' # NoSlot => resolved')
      BY <1>1 DEF SyscallHookInit, fixedVars, SavedInv
    <2>2. \A m \in KsudSlots : Saved(m) <=> Saved(m)'
      BY <2>1 DEF Saved, ksudVars
    <2>3. CASE UNCHANGED tableVars
      BY <2>1, <2>2, <2>3, SavedQuiet DEF SavedForGood, tableVars
    <2>4. CASE \E n \in NiSlots : TableHook(n, "ksu_syscall_dispatcher")
      <3> PICK n \in NiSlots : TableHook(n, "ksu_syscall_dispatcher")
        BY <2>4
      <3>1. n \in Slots
        BY SlotsAssumption
      <3>2. \A m \in KsudSlots : ksud'[m] # "idle" => ksud_old'[m] # "NULL"
        BY <2>1 DEF SavedInv, ksudVars
      <3> QED
        BY <1>o, <2>1, <2>2, <3>1, <3>2, SavedHook DEF SavedForGood
    <2> QED
      BY <1>1, <2>3, <2>4 DEF SyscallHookInit
  <1>2. CASE RegisterHooks \/ RegisterTracepoint \/ ScheduleStage2 \/ LateLoaded \/ KsudReady
    <2>1. UNCHANGED <<fixedVars, tableVars, ksudVars>>
      BY <1>2 DEF RegisterHooks, RegisterTracepoint, ScheduleStage2, LateLoaded, KsudReady
    <2> QED
      BY <2>1, SavedQuiet DEF SavedForGood, Saved, SavedInv, fixedVars, tableVars, ksudVars
  <1>3. CASE DirectPatchSyscalls
    <2>1. UNCHANGED <<fixedVars, ksudVars>>
      BY <1>3 DEF DirectPatchSyscalls
    <2>2. SavedForGood
      BY <2>1 DEF SavedForGood, Saved, fixedVars, ksudVars
    <2>3. CASE UNCHANGED tableVars
      BY <2>1, <2>2, <2>3, SavedQuiet DEF SavedInv, fixedVars, tableVars
    <2>4. CASE mi \in DOMAIN Stage1 /\ TableHook(Stage1[mi], "ksu_direct_syscall_entry")
      <3>1. Stage1[mi] \in Slots
        BY <2>4, StageSlots, SlotsAssumption
      <3>2. \A m \in KsudSlots : ksud'[m] # "idle" => ksud_old'[m] # "NULL"
        BY <2>1 DEF SavedInv, ksudVars
      <3>3. ksu_dispatcher_nr' # NoSlot => resolved'
        BY <2>1 DEF SavedInv, fixedVars
      <3> QED
        BY <1>o, <2>2, <2>4, <3>1, <3>2, <3>3, SavedHook DEF SavedForGood
    <2> QED
      BY <1>3, <2>3, <2>4 DEF DirectPatchSyscalls
  <1>4. CASE \E n \in KsudSlots : KsudHook(n)
    <2> PICK n \in KsudSlots : KsudHook(n)
      BY <1>4
    <2>1. /\ n \in Slots /\ ksu_syscall_table[n] # "NULL"
      BY SlotsAssumption DEF TypeOK, TableType, CanHold, Genuine, NiSyscall
    <2>2. /\ ksud'[n] # "idle" /\ ksud_old'[n] = ksu_syscall_table[n]
          /\ \A m \in KsudSlots : m # n => ksud'[m] = ksud[m] /\ ksud_old'[m] = ksud_old[m]
          /\ UNCHANGED fixedVars
      BY DEF KsudHook, TypeOK, EnvType
    <2>3. SavedForGood /\ Saved(n)'
      BY <2>1, <2>2 DEF SavedForGood, Saved, fixedVars
    <2>4. \A m \in KsudSlots : ksud'[m] # "idle" => ksud_old'[m] # "NULL"
      BY <2>1, <2>2 DEF SavedInv
    <2>5. TableHook(n, "ksud_hook") /\ (ksu_dispatcher_nr' # NoSlot => resolved')
      BY <2>2 DEF KsudHook, SavedInv, fixedVars
    <2> QED
      BY <1>o, <2>1, <2>3, <2>4, <2>5, SavedHook DEF SavedForGood
  <1> QED
    BY <1>1, <1>2, <1>3, <1>4 DEF MainStep

\* So do the worker, ksud when it unhooks, and the exit.
LEMMA SavedOtherStep ==
    ASSUME TypeOK, HookInv, SavedInv,
           \/ WorkerStep \/ OnBootCompleted \/ BeginExit \/ ExitStep
           \/ \E n \in KsudSlots : KsudUnhook(n)
    PROVE  SavedInv' /\ SavedForGood
  <1>o. {"ksu_syscall_dispatcher", "ksu_direct_syscall_entry", "ksud_hook"} \subseteq Ours
    BY DEF Ours
  <1>1. CASE WorkerFire \/ OnBootCompleted \/ BeginExit \/ ExitUnregister \/ ExitLock
    <2>1. UNCHANGED <<fixedVars, tableVars, ksudVars>>
      BY <1>1 DEF WorkerFire, OnBootCompleted, BeginExit, ExitUnregister, ExitLock
    <2> QED
      BY <2>1, SavedQuiet DEF SavedForGood, Saved, SavedInv, fixedVars, tableVars, ksudVars
  <1>2. CASE ExitUnlock \/ ExitClear
    <2>1. /\ UNCHANGED <<resolved, ksu_syscall_table, ksudVars>>
          /\ hooked_entries' = hooked_entries \/ hooked_entries' = << >>
          /\ ksu_dispatcher_nr' = ksu_dispatcher_nr \/ ksu_dispatcher_nr' = NoSlot
      BY <1>2 DEF ExitUnlock, ExitClear, fixedVars, tableVars
    <2> QED
      BY <2>1, SavedQuiet DEF SavedForGood, Saved, SavedInv, ksudVars
  <1>3. CASE ExitRestore
    <2> DEFINE e == hooked_entries[mi]
    <2>1. UNCHANGED <<fixedVars, ksudVars, hooked_entries>> /\ mi \in DOMAIN hooked_entries
      BY <1>3 DEF ExitRestore
    <2>2. \/ ksu_syscall_table' = [ksu_syscall_table EXCEPT ![e.nr] = e.orig]
          \/ UNCHANGED ksu_syscall_table
      BY <1>3 DEF ExitRestore
    <2>3. \A m \in Slots : \/ ksu_syscall_table'[m] = ksu_syscall_table[m]
                           \/ m = e.nr /\ ksu_syscall_table'[m] = e.orig
      BY <2>2 DEF TypeOK, TableType
    <2> QED
      BY <2>1, <2>3 DEF SavedForGood, Saved, SavedInv, SavedTable, SavedList, fixedVars, ksudVars
  <1>4. CASE WorkerPatch
    <2>1. UNCHANGED <<fixedVars, ksudVars>>
      BY <1>4 DEF WorkerPatch
    <2>2. SavedForGood
      BY <2>1 DEF SavedForGood, Saved, fixedVars, ksudVars
    <2>3. CASE UNCHANGED tableVars
      BY <2>1, <2>2, <2>3, SavedQuiet DEF SavedInv, fixedVars, tableVars
    <2>4. CASE wi \in DOMAIN Stage2 /\ TableHook(Stage2[wi], "ksu_direct_syscall_entry")
      <3>1. Stage2[wi] \in Slots
        BY <2>4, StageSlots, SlotsAssumption
      <3>2. \A m \in KsudSlots : ksud'[m] # "idle" => ksud_old'[m] # "NULL"
        BY <2>1 DEF SavedInv, ksudVars
      <3>3. ksu_dispatcher_nr' # NoSlot => resolved'
        BY <2>1 DEF SavedInv, fixedVars
      <3> QED
        BY <1>o, <2>2, <2>4, <3>1, <3>2, <3>3, SavedHook DEF SavedForGood
    <2> QED
      BY <1>4, <2>3, <2>4 DEF WorkerPatch, tableVars
  <1>5. CASE \E n \in KsudSlots : KsudUnhook(n)
    <2> PICK n \in KsudSlots : KsudUnhook(n)
      BY <1>5
    <2>1. /\ n \in Slots /\ TableUnhook(n)
          /\ UNCHANGED <<ksu_dispatcher_nr, resolved, ksud_old>>
          /\ \A m \in KsudSlots : ksud'[m] # "idle" <=> ksud[m] # "idle"
      BY SlotsAssumption DEF KsudUnhook, fixedVars, TypeOK, EnvType
    <2>2. SavedForGood
      BY <2>1 DEF SavedForGood, Saved
    <2> QED
      BY <2>1, <2>2, SavedUnhook
  <1> QED
    BY <1>1, <1>2, <1>3, <1>4, <1>5 DEF WorkerStep, ExitStep

-----------------------------------------------------------------------------
(* What a task does *)

\* A task that is not stepped stays safe.
LEMMA SafeKept ==
    ASSUME SafeCalls, SavedForGood, UNCHANGED task
    PROVE  SafeCalls'
  BY DEF SafeCalls, SafeCall, SavedForGood, Saved

\* Replacing one syscall by a safe one.
LEMMA SafeUpdate ==
    ASSUME TypeOK, SafeCalls, UNCHANGED envVars, NEW t \in Tasks, NEW d,
           task' = [task EXCEPT ![t] = d], SafeCall(d)
    PROVE  SafeCalls'
  <1>1. UNCHANGED <<resolved, ksud, ksud_old>>
    BY DEF envVars, fixedVars, ksudVars
  <1>2. \A u \in Tasks : task'[u] = IF u = t THEN d ELSE task[u]
    BY DEF TypeOK, TasksType
  <1>3. \A u \in Tasks : SafeCall(task'[u])
    BY <1>2 DEF SafeCalls
  <1> QED
    BY <1>1, <1>3 DEF SafeCalls, SafeCall, Saved

\* The functions of the kernel: what a handler lets the syscall through to.
LEMMA GenuineFunction ==
    ASSUME NEW n \in Slots
    PROVE  /\ Genuine(n) \in Slots \cup {NiSyscall}
           /\ Genuine(n) # "NULL"
           /\ Genuine(n) \notin {"entry", "handler"} \cup Ours
  BY SlotsAssumption DEF Genuine, NiSyscall, Ours

\* Each step of a running syscall leaves it safe.
LEMMA SafeTaskStep ==
    ASSUME TypeOK, HookInv, SavedInv, SafeCalls, NEW t \in Tasks, TaskStep(t)
    PROVE  SafeCalls'
  <1> DEFINE c == task[t]
  <1>t. TableType /\ EnvType /\ TasksType
    BY DEF TypeOK
  <1>e. UNCHANGED envVars
    BY DEF TaskStep, Fetch, RunGenuine, DirectSyscallEntry, SyscallDispatcher,
       DirectRebootEntry, PassThroughHandler, RunKsudHook
  <1>c. /\ c \in SyscallType /\ SafeCall(c)
        /\ c.at # "user" => InProgress(c) /\ c.nr \in Slots /\ c.no \in Slots
    BY <1>t DEF TasksType, SafeCalls, InProgress
  <1>u. ASSUME NEW d, task' = [task EXCEPT ![t] = d], SafeCall(d) PROVE SafeCalls'
    BY <1>e, <1>u, SafeUpdate
  <1>r. ASSUME NEW r, Return(t, r) PROVE SafeCalls'
    <2> DEFINE d == [c EXCEPT !.at = "user", !.ret = r]
    <2>1. d.at = "user" /\ d.handled = c.handled /\ d.no = c.no
      BY <1>c DEF SyscallType
    <2>2. task' = [task EXCEPT ![t] = d]
      BY <1>r, <1>t DEF Return, TasksType
    <2>3. SafeCall(d)
      BY <1>c, <2>1 DEF SafeCall, Ours
    <2> QED
      BY <2>2, <2>3, <1>u
  <1>f. ASSUME NEW f, task' = [task EXCEPT ![t].at = f],
               c.at # "user", f # "NULL", f # "entry",
               f = "ksud_hook" => Saved(c.no),
               f \in {"handler"} \cup Ours => resolved /\ c.handled = 0
        PROVE  SafeCalls'
    <2> DEFINE d == [c EXCEPT !.at = f]
    <2>1. d.at = f /\ d.handled = c.handled /\ d.no = c.no
      BY <1>c DEF SyscallType
    <2>2. task' = [task EXCEPT ![t] = d]
      BY <1>f, <1>t DEF TasksType
    <2>3. SafeCall(d)
      BY <1>c, <1>f, <2>1 DEF SafeCall
    <2> QED
      BY <2>2, <2>3, <1>u
  <1>4. CASE Fetch(t)
    <2> DEFINE f == ksu_syscall_table[c.no]
    <2>1. c.at = "entry" /\ task' = [task EXCEPT ![t].at = f] /\ c.no \in Slots
      BY <1>4, <1>c, SlotsAssumption DEF Fetch
    <2>2. f # "NULL" /\ f # "entry"
      BY <2>1, <1>t, SlotsAssumption DEF TableType, CanHold, Genuine, NiSyscall
    <2>3. f = "ksud_hook" => Saved(c.no)
      BY <2>1 DEF SavedInv, SavedTable
    <2>4. ~resolved => f = Genuine(c.no)
      BY <2>1 DEF HookInv, PristineInv
    <2>5. f # "handler"
      BY <2>1, <1>t, SlotsAssumption DEF TableType, CanHold, Genuine, NiSyscall
    <2>6. f \in Ours => resolved
      BY <2>1, <2>4, GenuineFunction
    <2>7. c.handled = 0
      BY <2>1, <1>c DEF SafeCall
    <2> QED
      BY <2>1, <2>2, <2>3, <2>5, <2>6, <2>7, <1>f
  <1>5. CASE RunGenuine(t)
    BY <1>5, <1>r DEF RunGenuine
  <1>6. CASE DirectSyscallEntry(t)
    <2>1. CASE c.no \in syscall_hooks
      <3>1. c.at \in Ours /\ task' = [task EXCEPT ![t].at = "handler"]
        BY <1>6, <2>1 DEF DirectSyscallEntry, Ours
      <3>2. resolved /\ c.handled = 0 /\ c.at # "user"
        BY <3>1, <1>c DEF SafeCall, Ours
      <3> DEFINE f == "handler"
      <3>3. f # "NULL" /\ f # "entry" /\ f # "ksud_hook" /\ task' = [task EXCEPT ![t].at = f]
        BY <3>1
      <3> HIDE DEF f
      <3> QED
        BY <3>2, <3>3, <1>f
    <2>2. CASE c.no \notin syscall_hooks
      BY <1>6, <2>2, <1>r DEF DirectSyscallEntry
    <2> QED
      BY <2>1, <2>2
  <1>7. CASE SyscallDispatcher(t)
    <2>0. c.at \in Ours /\ resolved /\ c.handled = 0
      BY <1>7, <1>c DEF SyscallDispatcher, SafeCall, Ours
    <2>1. CASE c.no # ksu_dispatcher_nr \/ c.no = c.nr
      BY <1>7, <2>1, <1>r DEF SyscallDispatcher
    <2>2. ASSUME ~(c.no # ksu_dispatcher_nr \/ c.no = c.nr), c.nr \in syscall_hooks
          PROVE  SafeCalls'
      <3> DEFINE d == [c EXCEPT !.at = "handler", !.no = c.nr]
      <3>1. task' = [task EXCEPT ![t] = d]
        BY <1>7, <2>2, <1>t DEF SyscallDispatcher, TasksType
      <3>2. d.at = "handler" /\ d.handled = c.handled
        BY <1>c DEF SyscallType
      <3>3. SafeCall(d)
        BY <2>0, <3>2 DEF SafeCall
      <3> QED
        BY <3>1, <3>3, <1>u
    <2>3. ASSUME ~(c.no # ksu_dispatcher_nr \/ c.no = c.nr), c.nr \notin syscall_hooks
          PROVE  SafeCalls'
      <3> DEFINE d == [c EXCEPT !.at = "user", !.no = c.nr, !.ret = "ENOSYS"]
      <3>1. task' = [task EXCEPT ![t] = d]
        BY <1>7, <2>3, <1>t DEF SyscallDispatcher, TasksType
      <3>2. d.at = "user" /\ d.handled = c.handled
        BY <1>c DEF SyscallType
      <3>3. SafeCall(d)
        BY <1>c, <3>2 DEF SafeCall, Ours
      <3> QED
        BY <3>1, <3>3, <1>u
    <2> QED
      BY <2>1, <2>2, <2>3
  <1>h. ASSUME c.at = "handler", NEW r,
               task' = [task EXCEPT ![t] = [c EXCEPT !.handled = c.handled + 1,
                                                     !.at = Original(c.nr), !.ret = r]]
        PROVE  SafeCalls'
    <2> DEFINE f == Original(c.nr)
               d == [c EXCEPT !.handled = c.handled + 1, !.at = f, !.ret = r]
    <2>1. resolved /\ c.handled = 0 /\ c.nr \in Slots
      BY <1>h, <1>c DEF SafeCall
    <2>2. f = Genuine(c.nr)
      BY <2>1 DEF HookInv, PristineInv, Original
    <2> HIDE DEF f
    <2>3. d.at = f /\ d.handled = 1
      <3>1. d.at = f /\ d.handled = c.handled + 1
        BY <1>c DEF SyscallType
      <3> QED
        BY <2>1, <3>1
    <2>4. f # "NULL" /\ f \notin {"entry", "handler"} \cup Ours
      BY <2>1, <2>2, GenuineFunction
    <2>5. SafeCall(d)
      BY <2>3, <2>4 DEF SafeCall, Ours
    <2> QED
      BY <1>h, <2>5, <1>u DEF f
  <1>8. CASE DirectRebootEntry(t)
    <2>0. c.at = "handler" /\ c.nr = "reboot"
      BY <1>8 DEF DirectRebootEntry
    <2>1. CASE c.magic
      <3> DEFINE d == [c EXCEPT !.handled = c.handled + 1, !.at = "user", !.ret = "fd queued"]
      <3>1. task' = [task EXCEPT ![t] = d]
        BY <1>8, <2>1, <1>t DEF DirectRebootEntry, TasksType
      <3>2. c.handled = 0 /\ d.at = "user" /\ d.handled = c.handled + 1
        BY <2>0, <1>c DEF SyscallType, SafeCall
      <3>3. SafeCall(d)
        BY <3>2 DEF SafeCall, Ours
      <3> QED
        BY <3>1, <3>3, <1>u
    <2>2. CASE ~c.magic
      <3>1. task' = [task EXCEPT ![t] = [c EXCEPT !.handled = c.handled + 1,
                                                  !.at = Original(c.nr), !.ret = c.ret]]
        BY <1>8, <2>0, <2>2, <1>t DEF DirectRebootEntry, TasksType
      <3> QED
        BY <2>0, <3>1, <1>h
    <2> QED
      BY <2>1, <2>2
  <1>9. CASE PassThroughHandler(t)
    <2>1. /\ c.at = "handler"
          /\ task' = [task EXCEPT ![t] = [c EXCEPT !.handled = c.handled + 1,
                                                   !.at = Original(c.nr), !.ret = c.ret]]
      BY <1>9, <1>c, <1>t DEF PassThroughHandler, TasksType, SyscallType
    <2> QED
      BY <2>1, <1>h
  <1>10. CASE RunKsudHook(t)
    <2> DEFINE f == ksud_old[c.no]
    <2>1. c.at = "ksud_hook" /\ task' = [task EXCEPT ![t].at = f]
      BY <1>10 DEF RunKsudHook
    <2>2. Saved(c.no) /\ resolved /\ c.handled = 0
      BY <2>1, <1>c DEF SafeCall, Ours
    <2>3. f # "NULL" /\ CanHold(c.no, f) /\ c.no \in Slots
      BY <2>2, <1>t, SlotsAssumption DEF Saved, EnvType
    <2>4. f # "entry"
      BY <2>3, SlotsAssumption DEF CanHold, Genuine, NiSyscall
    <2> QED
      BY <2>1, <2>2, <2>3, <2>4, <1>f
  <1> QED
    BY <1>4, <1>5, <1>6, <1>7, <1>8, <1>9, <1>10 DEF TaskStep

\* A new syscall is safe.
LEMMA SafeCallStep ==
    ASSUME TypeOK, SafeCalls, NEW t \in Tasks, NEW n \in Calls, NEW marked \in BOOLEAN,
           NEW magic \in BOOLEAN, Call(t, n, marked, magic)
    PROVE  SafeCalls'
  <1> DEFINE no == IF Redirects(n, marked) THEN ksu_dispatcher_nr ELSE n
             d == [Idle EXCEPT !.at = "entry", !.nr = n, !.magic = magic, !.no = no]
  <1>1. task' = [task EXCEPT ![t] = d] /\ UNCHANGED envVars
    BY DEF Call
  <1> HIDE DEF no
  <1>2. d.at = "entry" /\ d.handled = 0
    BY DEF Idle
  <1>3. SafeCall(d)
    BY <1>2 DEF SafeCall, Ours
  <1> QED
    BY <1>1, <1>3, SafeUpdate

\* Every step keeps the invariant.
LEMMA CallSafetyNext == CallSafetyInv /\ [Next]_vars => CallSafetyInv'
  <1> SUFFICES ASSUME CallSafetyInv, [Next]_vars PROVE SavedInv' /\ SafeCalls'
    BY TypeNext, HookNext DEF CallSafetyInv
  <1>i. TypeOK /\ HookInv /\ SavedInv /\ SafeCalls
    BY DEF CallSafetyInv
  <1>e. ASSUME UNCHANGED envVars PROVE SavedInv' /\ SavedForGood
    <2>1. UNCHANGED <<fixedVars, tableVars, ksudVars>>
      BY <1>e DEF envVars
    <2> QED
      BY <1>i, <2>1, SavedQuiet DEF SavedForGood, Saved, SavedInv, fixedVars, tableVars, ksudVars
  <1>1. CASE MainStep
    <2>1. UNCHANGED task
      BY <1>1 DEF MainStep, SyscallHookInit, RegisterHooks, RegisterTracepoint,
         DirectPatchSyscalls, ScheduleStage2, LateLoaded, KsudReady, KsudHook
    <2> QED
      BY <1>i, <1>1, <2>1, SavedMainStep, SafeKept
  <1>2. CASE \/ WorkerStep \/ OnBootCompleted \/ BeginExit \/ ExitStep
             \/ \E n \in KsudSlots : KsudUnhook(n)
    <2>1. UNCHANGED task
      BY <1>2 DEF WorkerStep, WorkerFire, WorkerPatch, OnBootCompleted, BeginExit, ExitStep,
         ExitUnregister, ExitLock, ExitRestore, ExitUnlock, ExitClear, KsudUnhook
    <2> QED
      BY <1>i, <1>2, <2>1, SavedOtherStep, SafeKept
  <1>3. CASE \E t \in Tasks : TaskStep(t)
    <2>1. UNCHANGED envVars
      BY <1>3 DEF TaskStep, Fetch, RunGenuine, DirectSyscallEntry, SyscallDispatcher,
         DirectRebootEntry, PassThroughHandler, RunKsudHook
    <2> QED
      BY <1>i, <1>e, <1>3, <2>1, SafeTaskStep
  <1>4. CASE \E t \in Tasks, n \in Calls, marked \in BOOLEAN, magic \in BOOLEAN :
               Call(t, n, marked, magic)
    <2>1. UNCHANGED envVars
      BY <1>4 DEF Call
    <2> QED
      BY <1>i, <1>e, <1>4, <2>1, SafeCallStep
  <1>5. CASE UNCHANGED vars
    <2>1. UNCHANGED envVars /\ UNCHANGED task
      BY <1>5 DEF vars, envVars
    <2> QED
      BY <1>i, <1>e, <2>1, SafeKept
  <1> QED
    BY <1>1, <1>2, <1>3, <1>4, <1>5 DEF Next

\* The initial state satisfies it.
LEMMA CallSafetyInit == Init => CallSafetyInv
  <1> SUFFICES ASSUME Init PROVE SavedInv /\ SafeCalls
    BY TypeInit, HookInit DEF CallSafetyInv
  <1>1. SavedTable
    BY SlotsAssumption DEF Init, SavedTable, Genuine, NiSyscall, Ours
  <1>2. SavedInv
    BY <1>1 DEF Init, SavedInv, SavedList
  <1>3. SafeCalls
    BY DEF Init, SafeCalls, SafeCall, Idle, Ours
  <1> QED
    BY <1>2, <1>3

\* However the stages, ksud and the unload interleave with any number of tasks,
\* and whichever patches fail, one syscall runs one handler once: what the
\* handler lets it through to is never a patched slot again.
THEOREM OneHandlerOnce == Spec => []HandledOnce
  <1>1. CallSafetyInv => HandledOnce
    BY DEF CallSafetyInv, SafeCalls, SafeCall, HandledOnce
  <1> QED
    BY CallSafetyInit, CallSafetyNext, <1>1, PTL DEF Spec

\* Nor does any of them call through a null original: the copy is taken before
\* the first hook can be found, and ksud's original before its own.
THEOREM NullNeverCalled == Spec => []NoNullCall
  <1>1. CallSafetyInv => NoNullCall
    BY DEF CallSafetyInv, SafeCalls, SafeCall, NoNullCall
  <1> QED
    BY CallSafetyInit, CallSafetyNext, <1>1, PTL DEF Spec

-----------------------------------------------------------------------------
(* The install magic in the direct build                                    *)
(*                                                                          *)
(* Built in, KernelSU patches the reboot slot before a process can enter    *)
(* it, and of those that hook and unhook afterwards none touches that slot. *)

\* ksu_direct_patch_syscalls has come past the reboot slot.
RebootPatched ==
    resolved /\ (mpc \in {"schedule", "late", "ksud", "run"} \/ (mpc = "stage1" /\ mi > 2))

MagicCall(c) ==
    /\ c.magic /\ c.at # "user" => c.no = "reboot" /\ c.nr = "reboot"
    /\ c.magic => c.at \in {"user", "entry", "ksu_direct_syscall_entry", "handler"}

MagicEnv ==
    /\ mpc \in InitPhases \cup {"run"}
    /\ ~tp
    /\ mpc \in {"hook_init", "register"} => mi = 1
    /\ mpc \notin {"hook_init", "register"} => "reboot" \in syscall_hooks
    /\ RebootPatched => ksu_syscall_table["reboot"] = "ksu_direct_syscall_entry"

MagicInv ==
    /\ TypeOK
    /\ MagicEnv
    /\ \A t \in Tasks : task[t].at # "user" => mpc = "run"
    /\ resolved => \A t \in Tasks : MagicCall(task[t])

DirectBuild == ~Loadable /\ ~Tracepoints /\ "hook" \notin PatchFaults

\* Nobody but stage 1 hooks or unhooks the reboot slot.
LEMMA RebootSlot ==
    /\ "reboot" \in Slots
    /\ "reboot" \notin NiSlots \cup KsudSlots \cup KsudUnhooks
    /\ \A i \in DOMAIN Stage2 : Stage2[i] # "reboot"
    /\ \A i \in DOMAIN Stage1 : i > 1 => Stage1[i] = "reboot"
    /\ DOMAIN Stage1 = 1 .. 2
  <1>1. "reboot" \in Registered
    BY DEF Registered
  <1>2. DOMAIN Stage1 = 1 .. 2 /\ Stage1[2] = "reboot"
    BY DEF Stage1
  <1>3. "reboot" \in Rng(Stage1)
    BY <1>2 DEF Rng
  <1>4. \A i \in DOMAIN Stage2 : Stage2[i] # "reboot"
    BY DEF Stage2
  <1> QED
    BY <1>1, <1>2, <1>3, <1>4, SlotsAssumption, DisjointAssumption

\* A step that leaves the reboot slot alone and passes no stage.
LEMMA MagicQuiet ==
    ASSUME MagicEnv, UNCHANGED <<mpc, mi, resolved, tp, syscall_hooks>>,
           ksu_syscall_table'["reboot"] = ksu_syscall_table["reboot"]
    PROVE  MagicEnv'
  BY DEF MagicEnv, RebootPatched

\* Patching or giving back another slot leaves the reboot slot alone.
LEMMA OtherSlot ==
    ASSUME TypeOK, NEW n \in Slots, n # "reboot", NEW fn, TableHook(n, fn) \/ TableUnhook(n)
    PROVE  ksu_syscall_table'["reboot"] = ksu_syscall_table["reboot"]
  BY RebootSlot DEF TableHook, TableUnhook, TypeOK, TableType, tableVars

\* kernelsu_init patches the reboot slot before it lets a process run.
LEMMA MagicMainStep ==
    ASSUME DirectBuild, TypeOK, MagicEnv, MainStep
    PROVE  MagicEnv' /\ (mpc = "run" => FALSE)
  <1>1. CASE SyscallHookInit
    BY <1>1 DEF SyscallHookInit, MagicEnv, RebootPatched, InitPhases
  <1>2. CASE RegisterHooks
    <2>1. "reboot" \in syscall_hooks'
      BY <1>2 DEF RegisterHooks, Registered
    <2>2. mpc = "register" /\ mpc' = "stage1" /\ mi' = 1 /\ ~tp'
      BY <1>2 DEF RegisterHooks, MagicEnv
    <2> QED
      BY <2>1, <2>2 DEF MagicEnv, RebootPatched, InitPhases
  <1>3. CASE RegisterTracepoint
    BY <1>3 DEF RegisterTracepoint, DirectBuild
  <1>4. CASE DirectPatchSyscalls
    <2>0. /\ mpc = "stage1" /\ mi \in Nat \ {0} /\ ~tp' /\ "reboot" \in syscall_hooks'
          /\ resolved' = resolved
      BY <1>4 DEF DirectPatchSyscalls, MagicEnv, fixedVars, TypeOK, EnvType
    <2>1. CASE resolved /\ mi \in DOMAIN Stage1
      <3>1. TableHook(Stage1[mi], "ksu_direct_syscall_entry") /\ mi' = mi + 1 /\ mpc' = "stage1"
        BY <1>4, <2>0, <2>1 DEF DirectPatchSyscalls
      <3>2. mi' > 2 => Stage1[mi] = "reboot"
        BY <2>0, <2>1, <3>1, RebootSlot
      <3>3. Stage1[mi] = "reboot" => ksu_syscall_table'["reboot"] = "ksu_direct_syscall_entry"
        BY <3>1, RebootSlot DEF TableHook, DirectBuild, TypeOK, TableType
      <3> QED
        BY <2>0, <3>1, <3>2, <3>3 DEF MagicEnv, RebootPatched, InitPhases
    <2>2. CASE ~(resolved /\ mi \in DOMAIN Stage1)
      <3>1. mpc' = "schedule" /\ ksu_syscall_table' = ksu_syscall_table
        BY <1>4, <2>2 DEF DirectPatchSyscalls, tableVars
      <3>2. resolved => mi > 2
        BY <2>0, <2>2, RebootSlot
      <3> QED
        BY <2>0, <3>1, <3>2 DEF MagicEnv, RebootPatched, InitPhases
    <2> QED
      BY <2>0, <2>1, <2>2
  <1>5. CASE ScheduleStage2 \/ LateLoaded \/ KsudReady
    <2>1. /\ UNCHANGED <<mi, resolved, tp, syscall_hooks, ksu_syscall_table>>
          /\ mpc \in {"schedule", "late", "ksud"} /\ mpc' \in {"late", "ksud", "run"}
      BY <1>5 DEF ScheduleStage2, LateLoaded, KsudReady, fixedVars, tableVars
    <2> QED
      BY <2>1 DEF MagicEnv, RebootPatched, InitPhases
  <1>6. CASE \E n \in KsudSlots : KsudHook(n)
    <2> PICK n \in KsudSlots : KsudHook(n)
      BY <1>6
    <2>1. n \in Slots /\ n # "reboot"
      BY RebootSlot, SlotsAssumption
    <2>2. /\ mpc = "ksud" /\ TableHook(n, "ksud_hook")
          /\ UNCHANGED <<mpc, mi, resolved, tp, syscall_hooks>>
      BY DEF KsudHook, mainVars, fixedVars
    <2> QED
      BY <2>1, <2>2, OtherSlot, MagicQuiet
  <1> QED
    BY <1>1, <1>2, <1>3, <1>4, <1>5, <1>6 DEF MainStep

\* Nothing that runs beside it touches the reboot slot, and nothing unloads.
LEMMA MagicOtherStep ==
    ASSUME DirectBuild, TypeOK, MagicEnv,
           \/ WorkerStep \/ OnBootCompleted \/ BeginExit \/ ExitStep
           \/ \E n \in KsudSlots : KsudUnhook(n)
    PROVE  MagicEnv' /\ UNCHANGED <<mpc, resolved>>
  <1>1. CASE BeginExit \/ ExitStep
    BY <1>1 DEF DirectBuild, MagicEnv, InitPhases, BeginExit, ExitStep, ExitUnregister,
       ExitLock, ExitRestore, ExitUnlock, ExitClear
  <1>2. CASE WorkerFire \/ OnBootCompleted
    <2>1. UNCHANGED <<mpc, mi, resolved, tp, syscall_hooks, ksu_syscall_table>>
      BY <1>2 DEF WorkerFire, OnBootCompleted, mainVars, fixedVars, tableVars
    <2> QED
      BY <2>1, MagicQuiet
  <1>3. CASE WorkerPatch
    <2>1. UNCHANGED <<mpc, mi, resolved, tp, syscall_hooks>>
      BY <1>3 DEF WorkerPatch, mainVars, fixedVars
    <2>2. CASE wi \in DOMAIN Stage2
      <3>1. Stage2[wi] \in Slots /\ Stage2[wi] # "reboot"
        BY <2>2, StageSlots, SlotsAssumption, RebootSlot
      <3>2. TableHook(Stage2[wi], "ksu_direct_syscall_entry")
        BY <1>3, <2>2 DEF WorkerPatch
      <3> QED
        BY <2>1, <3>1, <3>2, OtherSlot, MagicQuiet
    <2>3. CASE wi \notin DOMAIN Stage2
      <3>1. UNCHANGED ksu_syscall_table
        BY <1>3, <2>3 DEF WorkerPatch, tableVars
      <3> QED
        BY <2>1, <3>1, MagicQuiet
    <2> QED
      BY <2>2, <2>3
  <1>4. CASE \E n \in KsudSlots : KsudUnhook(n)
    <2> PICK n \in KsudSlots : KsudUnhook(n)
      BY <1>4
    <2>1. n \in Slots /\ n # "reboot" /\ TableUnhook(n)
      BY RebootSlot, SlotsAssumption DEF KsudUnhook
    <2>2. UNCHANGED <<mpc, mi, resolved, tp, syscall_hooks>>
      BY DEF KsudUnhook, mainVars, fixedVars
    <2> QED
      BY <2>1, <2>2, OtherSlot, MagicQuiet
  <1> QED
    BY <1>1, <1>2, <1>3, <1>4 DEF WorkerStep

\* A call with the magic goes from the entry to the handler, and back to user space.
LEMMA MagicTaskStep ==
    ASSUME DirectBuild, MagicInv, NEW t \in Tasks, TaskStep(t), resolved
    PROVE  /\ mpc = "run"
           /\ MagicCall(task[t])'
  <1> DEFINE c == task[t]
  <1>t. TableType /\ EnvType /\ TasksType /\ MagicCall(c)
    BY DEF MagicInv, TypeOK
  <1>a. c.at # "user" /\ c \in SyscallType
    BY <1>t, SlotsAssumption DEF TaskStep, Fetch, RunGenuine, DirectSyscallEntry,
       SyscallDispatcher, DirectRebootEntry, PassThroughHandler, RunKsudHook, NiSyscall, TasksType
  <1>b. mpc = "run"
    BY <1>a DEF MagicInv
  <1>c. c.magic => /\ c.no = "reboot" /\ c.nr = "reboot"
                   /\ c.at \in {"entry", "ksu_direct_syscall_entry", "handler"}
    BY <1>a, <1>t DEF MagicCall
  <1>d. /\ ksu_syscall_table["reboot"] = "ksu_direct_syscall_entry"
        /\ "reboot" \in syscall_hooks
    BY <1>b DEF MagicInv, MagicEnv, RebootPatched
  <1>u. ASSUME NEW d, task' = [task EXCEPT ![t] = d], d.magic = c.magic,
               c.magic => d.at = "user" \/ /\ d.no = "reboot" /\ d.nr = "reboot"
                                           /\ d.at \in {"ksu_direct_syscall_entry", "handler"}
        PROVE  MagicCall(task[t])'
    <2>1. task'[t] = d
      BY <1>u, <1>t DEF TasksType
    <2> QED
      BY <1>u, <2>1 DEF MagicCall
  <1>1. CASE ~c.magic
    <2>1. task'[t].magic = c.magic
      <3>t. c \in SyscallType /\ task \in [Tasks -> SyscallType]
        BY <1>a, <1>t DEF TasksType
      <3>r. ASSUME NEW r, Return(t, r) PROVE task'[t].magic = c.magic
        BY <3>r, <3>t DEF Return, SyscallType
      <3>f. ASSUME NEW f, task' = [task EXCEPT ![t].at = f] PROVE task'[t].magic = c.magic
        BY <3>f, <3>t DEF SyscallType
      <3>1. CASE Fetch(t)
        BY <3>1, <3>f DEF Fetch
      <3>2. CASE RunGenuine(t)
        BY <3>2, <3>r DEF RunGenuine
      <3>3. CASE DirectSyscallEntry(t)
        BY <3>3, <3>f, <3>r DEF DirectSyscallEntry
      <3>4. CASE SyscallDispatcher(t)
        <4>1. CASE c.no # ksu_dispatcher_nr \/ c.no = c.nr
          BY <3>4, <4>1, <3>r DEF SyscallDispatcher
        <4>2. CASE ~(c.no # ksu_dispatcher_nr \/ c.no = c.nr)
          <5>1. \/ task' = [task EXCEPT ![t] = [c EXCEPT !.at = "handler", !.no = c.nr]]
                \/ task' = [task EXCEPT ![t] = [c EXCEPT !.at = "user", !.no = c.nr, !.ret = "ENOSYS"]]
            BY <3>4, <4>2, <3>t DEF SyscallDispatcher
          <5> QED
            BY <5>1, <3>t DEF SyscallType
        <4> QED
          BY <4>1, <4>2
      <3>5. CASE DirectRebootEntry(t)
        BY <3>5, <3>t DEF DirectRebootEntry, SyscallType
      <3>6. CASE PassThroughHandler(t)
        BY <3>6, <3>t DEF PassThroughHandler, SyscallType
      <3>7. CASE RunKsudHook(t)
        BY <3>7, <3>f DEF RunKsudHook
      <3> QED
        BY <3>1, <3>2, <3>3, <3>4, <3>5, <3>6, <3>7 DEF TaskStep
    <2> QED
      BY <1>1, <1>b, <2>1 DEF MagicCall
  <1>2. CASE c.magic /\ c.at = "entry"
    <2> DEFINE d == [c EXCEPT !.at = "ksu_direct_syscall_entry"]
    <2>1. Fetch(t)
      BY <1>2, SlotsAssumption DEF TaskStep, Fetch, RunGenuine, DirectSyscallEntry,
         SyscallDispatcher, DirectRebootEntry, PassThroughHandler, RunKsudHook, NiSyscall
    <2>2. task' = [task EXCEPT ![t] = d]
      BY <1>2, <1>c, <1>d, <1>t, <2>1 DEF Fetch, TasksType
    <2>3. /\ d.magic = c.magic /\ d.no = c.no /\ d.nr = c.nr
          /\ d.at = "ksu_direct_syscall_entry"
      BY <1>a DEF SyscallType
    <2> QED
      BY <1>b, <1>2, <1>c, <2>2, <2>3, <1>u
  <1>3. CASE c.magic /\ c.at = "ksu_direct_syscall_entry"
    <2> DEFINE d == [c EXCEPT !.at = "handler"]
    <2>1. DirectSyscallEntry(t)
      BY <1>3, SlotsAssumption DEF TaskStep, Fetch, RunGenuine, DirectSyscallEntry,
         SyscallDispatcher, DirectRebootEntry, PassThroughHandler, RunKsudHook, NiSyscall, Ours
    <2>2. task' = [task EXCEPT ![t] = d]
      BY <1>3, <1>c, <1>d, <1>t, <2>1 DEF DirectSyscallEntry, TasksType
    <2>3. d.magic = c.magic /\ d.no = c.no /\ d.nr = c.nr /\ d.at = "handler"
      BY <1>a DEF SyscallType
    <2> QED
      BY <1>b, <1>3, <1>c, <2>2, <2>3, <1>u
  <1>4. CASE c.magic /\ c.at = "handler"
    <2> DEFINE d == [c EXCEPT !.handled = c.handled + 1, !.at = "user", !.ret = "fd queued"]
    <2>1. DirectRebootEntry(t)
      BY <1>4, <1>c, SlotsAssumption DEF TaskStep, Fetch, RunGenuine, DirectSyscallEntry,
         SyscallDispatcher, DirectRebootEntry, PassThroughHandler, RunKsudHook, NiSyscall
    <2>2. task' = [task EXCEPT ![t] = d]
      BY <1>4, <1>t, <2>1 DEF DirectRebootEntry, TasksType
    <2>3. d.magic = c.magic /\ d.at = "user"
      BY <1>a DEF SyscallType
    <2> QED
      BY <1>b, <1>4, <2>2, <2>3, <1>u
  <1> QED
    BY <1>b, <1>c, <1>1, <1>2, <1>3, <1>4

\* Every step keeps the invariant.
LEMMA MagicNext == DirectBuild /\ MagicInv /\ [Next]_vars => MagicInv'
  <1> SUFFICES ASSUME DirectBuild, MagicInv, [Next]_vars
               PROVE  /\ MagicEnv'
                      /\ (\A t \in Tasks : task[t].at # "user" => mpc = "run")'
                      /\ (resolved => \A t \in Tasks : MagicCall(task[t]))'
    BY TypeNext DEF MagicInv
  <1>i. TypeOK /\ MagicEnv
    BY DEF MagicInv
  <1>e. ASSUME UNCHANGED envVars PROVE MagicEnv' /\ UNCHANGED <<mpc, resolved>>
    <2>1. UNCHANGED <<mpc, mi, resolved, tp, syscall_hooks, ksu_syscall_table>>
      BY <1>e DEF envVars, mainVars, fixedVars, tableVars
    <2> QED
      BY <1>i, <2>1, MagicQuiet
  <1>q. ASSUME UNCHANGED task, MagicEnv', UNCHANGED <<mpc, resolved>>
        PROVE  /\ (\A t \in Tasks : task[t].at # "user" => mpc = "run")'
               /\ (resolved => \A t \in Tasks : MagicCall(task[t]))'
    BY <1>q DEF MagicInv, MagicCall
  <1>1. CASE MainStep
    <2>1. MagicEnv' /\ mpc # "run"
      BY <1>i, <1>1, MagicMainStep
    <2>2. UNCHANGED task
      BY <1>1 DEF MainStep, SyscallHookInit, RegisterHooks, RegisterTracepoint,
         DirectPatchSyscalls, ScheduleStage2, LateLoaded, KsudReady, KsudHook
    <2>3. \A t \in Tasks : task[t].at = "user"
      BY <2>1 DEF MagicInv
    <2> QED
      BY <2>1, <2>2, <2>3 DEF MagicCall
  <1>2. CASE \/ WorkerStep \/ OnBootCompleted \/ BeginExit \/ ExitStep
             \/ \E n \in KsudSlots : KsudUnhook(n)
    <2>1. UNCHANGED task
      BY <1>2 DEF WorkerStep, WorkerFire, WorkerPatch, OnBootCompleted, BeginExit, ExitStep,
         ExitUnregister, ExitLock, ExitRestore, ExitUnlock, ExitClear, KsudUnhook
    <2> QED
      BY <1>i, <1>2, <1>q, <2>1, MagicOtherStep
  <1>3. CASE \E t \in Tasks : TaskStep(t)
    <2> PICK t \in Tasks : TaskStep(t)
      BY <1>3
    <2>1. UNCHANGED envVars
      BY DEF TaskStep, Fetch, RunGenuine, DirectSyscallEntry, SyscallDispatcher,
         DirectRebootEntry, PassThroughHandler, RunKsudHook
    <2>2. task[t].at # "user"
      BY SlotsAssumption DEF TaskStep, Fetch, RunGenuine, DirectSyscallEntry,
         SyscallDispatcher, DirectRebootEntry, PassThroughHandler, RunKsudHook, NiSyscall
    <2>3. mpc = "run"
      BY <2>2 DEF MagicInv
    <2>4. \A u \in Tasks : u # t => task'[u] = task[u]
      BY <1>i DEF TaskStep, Fetch, RunGenuine, DirectSyscallEntry, SyscallDispatcher,
         DirectRebootEntry, PassThroughHandler, RunKsudHook, Return, TypeOK, TasksType
    <2>5. resolved => MagicCall(task[t])'
      BY MagicTaskStep
    <2> QED
      BY <1>e, <2>1, <2>3, <2>4, <2>5 DEF MagicInv, MagicCall
  <1>4. CASE \E t \in Tasks, n \in Calls, marked \in BOOLEAN, magic \in BOOLEAN :
               Call(t, n, marked, magic)
    <2> PICK t \in Tasks, n \in Calls, marked \in BOOLEAN, magic \in BOOLEAN :
             Call(t, n, marked, magic)
      BY <1>4
    <2> DEFINE d == [Idle EXCEPT !.at = "entry", !.nr = n, !.magic = magic, !.no = n]
    <2>1. UNCHANGED envVars /\ mpc = "run" /\ (magic => n = "reboot")
      BY DEF Call, Userspace, DirectBuild
    <2>2. task' = [task EXCEPT ![t] = d]
      BY <1>i DEF Call, Redirects, MagicEnv
    <2>3. d.at = "entry" /\ d.nr = n /\ d.no = n /\ d.magic = magic
      BY DEF Idle
    <2> HIDE DEF d
    <2>4. \A u \in Tasks : task'[u] = IF u = t THEN d ELSE task[u]
      BY <1>i, <2>2 DEF TypeOK, TasksType
    <2> QED
      BY <1>e, <2>1, <2>3, <2>4 DEF MagicInv, MagicCall
  <1>5. CASE UNCHANGED vars
    <2>1. UNCHANGED envVars /\ UNCHANGED task
      BY <1>5 DEF vars, envVars
    <2> QED
      BY <1>e, <1>q, <2>1
  <1> QED
    BY <1>1, <1>2, <1>3, <1>4, <1>5 DEF Next

\* In a built-in KernelSU without syscall tracepoints whose stage-1 patches land,
\* a reboot call with the install magic never reaches the kernel's reboot,
\* whenever the caller enters and whatever stage 2 and ksud patch meanwhile.
THEOREM MagicServed == DirectBuild => (Spec => []MagicNeverReboots)
  <1> SUFFICES ASSUME DirectBuild PROVE Spec => []MagicNeverReboots
    OBVIOUS
  <1>1. Init => MagicInv
    <2> SUFFICES ASSUME Init PROVE MagicInv
      OBVIOUS
    <2>1. MagicEnv
      BY DEF Init, MagicEnv, RebootPatched, InitPhases
    <2>2. \A t \in Tasks : task[t].at = "user"
      BY DEF Init, Idle
    <2> QED
      BY <2>1, <2>2, TypeInit DEF Init, MagicInv
  <1>2. MagicInv /\ [Next]_vars => MagicInv'
    BY MagicNext
  <1>3. MagicInv => MagicNeverReboots
    BY DEF MagicInv, MagicCall, MagicNeverReboots
  <1> QED
    BY <1>1, <1>2, <1>3, PTL DEF Spec

=============================================================================
