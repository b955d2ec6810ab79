# A TLA+ verification of the dandelion KernelSU kernel changes

The repository ports KernelSU to an MTK 4.19 kernel for the Redmi 9A. Its own
logic is the C code under `patches/final-kernel-patches/`: hooks in the syscall
table, and the search for the manager app. Around it stand a tuning script
(`modules/perftune`), scripts that repack and flash boot images, and build
scripts. This directory holds TLA+ models of that logic, TLC configurations
that check them on small instances, and TLAPS proofs for all instances.

Paths below without a directory are under `src/patches/final-kernel-patches/`.

## 1. The system

| Component | State | Operations | Hard behaviour |
|---|---|---|---|
| Syscall table hooks `hook/arm64/syscall_hook.c` | `ksu_syscall_table`, its pristine copy, `hooked_entries[16]` and its mutex, `syscall_hooks`, `ksu_dispatcher_nr` | hook, unhook, register, unregister, two patching stages, init, exit; dispatcher and direct entry run in every task | any `ksu_patch_text` may fail; tasks run through the table while it changes |
| Hook manager `hook/syscall_hook_manager.c` | the 90 s delayed work, the sys_enter tracepoint, two kretprobes with a count of registrations | init, exit, sys_enter handler, worker | the work is never cancelled; handlers go before slots are restored; other tracers come and go |
| Supercalls `supercall/supercall.c` | a task work per request | reboot handler with a magic, descriptor installation | allocation and copy failures after success was promised; other threads use the descriptor table between the steps |
| Life cycle `core/init.c` | `ksu_late_loaded` | `kernelsu_init`, `kernelsu_exit` | order of start and teardown against running work |
| Boot events `runtime/boot_event.c` | `ksu_boot_completed`, the `done` flag | `on_post_fs_data`, `on_boot_completed` | arrive at any time, or (post-fs-data) never |
| Throne tracker `manager/throne_tracker.c` | `ksu_manager_appid`, load flag, retry count, delayed work, apk cache | `track_throne` (from four threads), the work, `search_manager`, `crown_manager` | no lock; lists and flags go stale between steps |
| perftune `modules/perftune/service.sh` | snapshot, rollback marker, the tuned values | wait, rollback, snapshot, apply | reboot between two steps |
| Boot images `scripts/pack/*.py` | one file | repack, change the command line | section arithmetic |
| Flash and recovery `flash/`, `scripts/recover_boot.ps1` | the device's | straight-line host commands | device modes |
| Build scripts, Kconfig patches, `patches/ksu43_kernelsu.patch` | none | | |

The hooks call nothing back; tasks, the stage-2 worker, ksud and the init and
exit threads meet in the table, in the registration table and in
`hooked_entries_lock`. The callers of `track_throne` meet in the appid, the load
flag and the allowlist. The two meet only in `core/init.c` and
`ksu_boot_completed`, so they are modelled apart.

What makes each part correct:

- *hooks*: a patched slot can always be restored to the kernel's own function;
  a syscall is handled at most once and never lost; su redirection is installed
  eventually; unloading gives the table back and terminates;
- *marking*: while KernelSU's probe is registered its own processes enter through
  the tracepoint; the others do only while somebody else traces. Both depend on
  kretprobes that may fail to register; section 2.5 says how far each holds then;
- *supercalls*: the number a process is told is that of a driver descriptor of
  its own; no number and no descriptor is left behind by a failure, and no other
  file is closed;
- *tracker*: an installed manager is found; the saved grants are in force before
  anybody can act on them; no caller's old list takes a grant away;
- *search*: it ends with an empty work list, looks at every apk it should, and
  what its cache remembers of earlier searches hides no manager;
- *perftune*: the snapshot holds stock values and a rollback leads back to them,
  whenever the device crashes.

## 2. Modules

| Module | What it is |
|---|---|
| `SyscallHook` | table, entries, registration, both stages, tracepoint, ksud's boot hooks, exit, and the syscalls of tasks |
| `MCSyscallHook` | constants of its runs |
| `SyscallHook_proofs` | TLAPS proofs about `SyscallHook`: the table and its entries, lost syscalls, the late worker |
| `SyscallCall_proofs` | TLAPS proofs about the syscalls it runs: handlers, originals, the install magic |
| `ThroneTracker` | `track_throne` and its callers, with the allowlist and the package manager around it |
| `MCThroneTracker` | constants of its runs |
| `ThroneTracker_proofs` | TLAPS proofs about `ThroneTracker` |
| `PatchTable` | the abstract table that `hook/syscall_hook.h` promises, implemented by `SyscallHook` |
| `PatchTable_proofs` | the proof of that |
| `TpMarker` | the kretprobes that mark processes, and the kernel's tracepoints under them |
| `TpMarker_proofs` | TLAPS proofs about `TpMarker` |
| `FdInstall` | the request, task work and reply of a driver descriptor |
| `FdInstall_proofs` | TLAPS proofs about `FdInstall` |
| `ApkSearch` | `search_manager`, `my_actor` and the apk cache |
| `MCApkSearch` | a small tree for its run |
| `ApkSearch_proofs` | TLAPS proofs about `ApkSearch` |
| `ThroneUnload` | `ThroneTracker` composed with the teardown of `kernelsu_exit` |
| `MCThroneUnload` | constants of its run |
| `Perftune` | `modules/perftune/service.sh` |
| `Perftune_proofs` | TLAPS proofs about `Perftune` |

Definitions whose comment begins "Faulty variant" are not part of a
specification: each is a definition with a plausible bug, which TLC finds with
the property listed for it under `mutants` in `PROJECT.json`.

### 2.1 SyscallHook

A syscall number is named by its syscall, and the kernel's own function of slot
`n` is the value `n`; a slot can also hold the dispatcher, the direct entry, a
ksud hook or `sys_ni_syscall`. So a function in the wrong slot is visible.

| Code | Model |
|---|---|
| `kernelsu_init` / `kernelsu_exit` | `mpc`, `mi`: one thread that runs `SyscallHookInit`, `RegisterHooks`, `RegisterTracepoint` or `DirectPatchSyscalls`, `ScheduleStage2`, then `LateLoaded` or the ksud hooks, and in a module build `BeginExit` to `ExitClear` |
| `ksu_syscall_table_hook`, `_unhook` | `TableHook`, `TableUnhook`: one step each, because the mutex is held throughout and a task sees none of it but the patch; `old` is `ksud_old`, saved before the patch and so in the same step |
| the exit's restoring loop | one step per entry with the mutex held (`hooked_entries_lock`), so that the worker and ksud wait for it and tasks run between entries |
| the delayed work | `dw`, `wi`: `WorkerFire`, then one slot per `WorkerPatch` |
| sys_enter and the dispatcher | `Call` stores the original number in `nr` (x8) and the number to run in `no` (`syscallno`); `Fetch` reads the slot; `SyscallDispatcher` and `DirectSyscallEntry` look the handler up at a later step |
| a handler | `DirectRebootEntry`, or `PassThroughHandler` for the five handlers outside this repository, which end in the pristine copy |
| a patch that fails | the alternatives guarded by `PatchFaults`; `stuck` remembers the slots whose *restoring* patch failed |

Abstractions: range checks on numbers (`nr >= __NR_syscalls`) are not modelled,
since every caller passes a constant or a checked number; compat tasks never
reach the code; whether a task is marked for the tracepoint is arbitrary;
registering all six handlers is one step, as nothing can look one up before the
tracepoint or stage 1. ksud hooks `KsudSlots` during init and unhooks
`KsudUnhooks` at any time later (`hook/syscall_hook.h:41-47`).
The header says that a handler calls `ksu_syscall_table[orig_nr]`
(`syscall_hook.h:19`); the code that exists calls the pristine copy, and the
variant `OriginalLive` shows what the header's way would do: a handler comes
back into itself.

### 2.2 ThroneTracker

| Code | Model |
|---|---|
| a call of `track_throne` | `th[c]`: where it stands, the `uid_list` it read, `prune_only` |
| reading `packages.list` | `OpenList`: the file is replaced by renaming, so a call reads what it opened; an allocation failure ends the call, a failed read or parse cuts the list short |
| `static bool ksu_allowlist_loaded` | `CheckLoaded`, `Load`, `SetLoaded`: three steps, as in the code |
| existence check, validity check, search, prune | a step each |
| the delayed work | `dw`, `ksu_track_throne_retries`: `WorkerFire`, the call, `WorkerReturn` |
| `on_boot_completed`, the observer, `kernelsu_init` | the callers `boot`, `observer`, `init` |
| `ksu_load_allow_list`, `ksu_prune_allowlist`, profiles set by the manager | `LoadAllowList` (merges the file), inside `Prune` (drops and, if it dropped any, saves), `Grant`, `Revoke`: external, sequentially consistent |

An install is a package with its uid, and a second install of the manager is
another element of `Managers`. The history variable `owed` holds the grants
that the tracker must not lose: those of listed apps in the file at boot, and
those granted when every list in flight named the app. An app that was listed
and granted while an older list was in flight can be pruned by it, and so can
the apps in the unread rest of a list cut short; `owed` leaves exactly those
out. The search is one step here: the manager's apk is found if it is there.
`ApkSearch` says under which conditions that is so (2.3). Testing the appid and
invalidating it is one step.

`ThroneUnload` adds `kernelsu_exit`. The boot events arrive through a descriptor
whose file pins the module (`supercall/supercall.c:38`), so none is under way at
an unload (`NoPin`); `ksu_observer_exit` is taken to wait for its callback; the
delayed work has neither.

### 2.3 ApkSearch

| Code | Model |
|---|---|
| `data_path_list` | a sequence, the directory being searched first; new ones are appended while it is read |
| `for (i = depth; i >= 0; i--)` with `list_for_each_entry_safe` | `i` and `last`: the macro knows the next element before the body runs, so a pass is over at the element that had no successor *then* (`Remove`), and what it appended is the next pass's |
| `skip_iterate` | `SkipDir`: after a stop, on another file system, or not opened |
| `iterate_dir` | `OpenDir` takes the entries, `SubDir`, `CachedApk`, `FoundManager`, `OtherApk` one each in any order, `CloseDir`; the directory is locked meanwhile (`Locked`) |
| `apk_path_hash_list`, `exists` | the set of cached hashes and of those marked; `Begin` unmarks, `Sweep` drops |
| failures | `Faults`: a directory not opened, no memory, a signature not read |

Assumptions: one search at a time (two at once change an unlocked list, which
has no meaning to give); the path of a removed apk never comes back, because it
carries random parts; `/data/app` itself is not a staging or foreign directory.
Over-long paths are left out.

### 2.4 FdInstall

One step per call that other threads can come between: `GetUnusedFd`, `GetFile`
(with `put_unused_fd`), `FdInstall`, `Reply` (with `ksu_close_fd`). `Request` may
queue nothing and returns 0 all the same. `fdt` is the shared table; the threads
also open files and close what they opened, or a driver descriptor one of them
was told of. A thread has one request without an answer at a time. What a thread
closes without having been told the number is outside the model: it could have
another file closed by a failed reply (`supercall.c:75`).

### 2.5 TpMarker

`Attach` and `Detach` are the kernel's: `syscall_regfunc` runs for the first probe
of each of `sys_enter` and `sys_exit` and marks everybody when it is the first of
both. `handler` is the kretprobe handler that follows with `tracepoints_mutex`
still held, so no other attach comes between. `ArmProbes` covers builds without
kretprobes and each way of failing to register them; that the probe itself is not
registered is in `SyscallHook` (`RegisterTracepoint`) and leaves nothing to mark
for. A tracer that was there
before KernelSU loaded is not modelled. A second tracer of `sys_enter` causes no
`syscall_regfunc` and so sees only what KernelSU does; `OthersServed` is about
`sys_exit` for that reason.

What holds while KernelSU's probe is registered depends on which kretprobes are:

| Kretprobes | KernelSU's processes (`OursServed`) | The others, with nobody on `sys_exit` (`OnlyOursMarked`) |
|---|---|---|
| both registered | marked | not marked, once the handler has run |
| not built in | marked | not marked, once the manager has marked its own |
| of `syscall_regfunc` only | marked | all marked after a tracer of `sys_exit` has come and left |
| of `syscall_unregfunc` only | marked until a tracer of `sys_exit` leaves | marked until then |
| built in, none registered | marked | all marked (`UnarmedMarksAll`) |

The last row is the code's: `#ifndef CONFIG_KRETPROBES`
(`hook/syscall_hook_manager.c:157`) asks what is built in and not what was
registered, so nobody takes back that the kernel marks every process for a first
probe. The properties are stated for the rows where they hold, `CountInStep` and
`OthersServed` for the first one. A process that is marked needlessly takes the
tracepoint's slower path, and loses nothing else.

### 2.6 Perftune

`pc` is the section of the script, `k` the line or value at hand. `files` is what
the script sees, `disk` what a crash is sure to leave; `Left` is all a crash may
leave of the snapshot: any prefix written since, with or without a torn line. A
boot sets every value to the kernel's default, which is taken as constant. Where
the snapshot cannot be created, `Test` goes on to the next part, as the shell does;
a disk that fills up while it is written is not modelled. A knob whose file is
missing or not writable is one that keeps its value, and left out.

### 2.7 PatchTable

A table and the set of slots to be given back: `Hook`, `Unhook` gives a slot back
the function it had before KernelSU came, an unload restores slots one by one and
forgets them together, when all are restored. `SyscallHook` maps its table and the
numbers in `hooked_entries` to it (`Table`, `ImplementsPatchTable`).

## 3. What is checked

Every property of a passing run is broken by the faulty variant named for it.

| Run | Instance | Shows |
|---|---|---|
| `HookDirect` | built in, no ftrace (the shipped build); ksud hooks execve, read, fstat; two unimplemented slots; fair | `TypeOK`, `NoLostSyscall`, `HandledOnce`, `NoNullCall`, `MagicNeverReboots`, `Stage2Installed` |
| `HookTrace` | module, tracepoint; two unimplemented slots | `NoLostSyscall`, `HandledOnce`, `NoNullCall` where both ways of hooking overlap, and through an unload; `ImplementsPatchTable` |
| `HookFaults` | module, any patch may fail, no task, fair | `TrackedOrigPristine`, `PatchedTracked`, `RestoredByExit`, `ExitCompletes`, `WorkerCompletes` |
| `ThroneRaces` | init, work and boot event; manager installed twice over; all failures | `TypeOK`, `LoadedBeforeCrown`, `GrantsKept`, `GrantsInForce` |
| `ThroneLive` | work and observer, fair | `ManagerCrowned` |
| `ApkSearch` | tree of `MCApkSearch`, depth 2, all failures, fair | `TypeOK`, `Complete`, `ManagerFound`, `Drained`, `CacheSwept`, `SearchEnds` |
| `FdInstall` | three threads, three numbers, all failures | `TypeOK`, `NoReservedLeak`, `NoOrphan`, `ReplyIsTrue`, `OwnFilesStay` |
| `TpMarker` | four processes, both tracepoints, kretprobes may fail | `TypeOK`, `CountInStep`, `OursServed`, `OthersServed`, `OnlyOursMarked` |
| `Perftune` | three values, four boots, fair | `TypeOK`, `SnapshotGenuine`, `RollbackGenuine`, `RollbackServed` |

Runs that expect a violation, one statement of the repository each; `PROJECT.json`
quotes the statement under `findings`:

| Run | Statement | What TLC shows |
|---|---|---|
| `VLateWorker` | exit stops all hooks and restores the table | the stage-2 work patches afterwards |
| `VThroneInvalidate` | invalidated because uninstalled | crowned between another call's two checks |
| `VThroneUnload` | it is safe to release after phase 1 | the tracker's work runs in `track_throne` when its data is freed |

More statements of the repository disagree with the code, visibly in the models
and without a run of their own:

- stage 2 "runs after boot_completed" (`hook/arm64/syscall_hook.c:228-229`): a
  timer starts it, before the event on a slow boot;
- in-flight syscalls "see valid state" while slots are restored
  (`syscall_hook.c:294-295`): five handlers are unregistered before;
- a redirected syscall reaches the dispatcher (`hook/syscall_hook.h:24-25`): its
  patch may have failed, its number is published all the same;
- no dispatch happens after the clearing (`syscall_hook.c:311-313`): a task that
  had fetched the dispatcher runs it;
- an unhook removes a *restored* entry (`hook/syscall_hook.h:44-46`): it goes
  although its restoring patch failed;
- the allowlist is loaded by "a single call" (`manager/throne_tracker.c:312-313`):
  two callers can both load it, harmlessly;
- the manager is scanned for "every 30s until found" (`docs/KERNELS.md:56-57`):
  eleven times;
- crowning is left to the tracker's own loop (`patches/PATCH_README.md:32-33`):
  `on_boot_completed` runs a whole `track_throne`, which may crown or depose;
- the descriptor "will be installed when the task_work runs"
  (`supercall/supercall.c:139`): not when none could be queued, and the caller is
  told success;
- the stock defaults are snapshotted "before any knobs are applied"
  (`modules/perftune/README.md:37-38`): where the file cannot be created the values
  are tuned without one, and a rollback leaves them as the reboot set them;
- "just our tracepoint left" (`hook/syscall_hook_manager.c:84`): one is left, not
  necessarily ours.

### Bounds

- Slots: the six registered ones, `read` and `fstat` for ksud, one or two
  unimplemented ones. The code treats the slots of one role alike, and every
  overlap of roles occurs (execve is ksud's and stage 2's).
- One task: tasks only read the shared state and never each other, so two tasks
  add no behaviour of one.
- `MaxEntries` is the code's 16. More than the ten entries that the callers can
  name never occur; `CapacityAssumption` states it.
- `HookFaults` has no task: its properties do not mention one. Without a task
  the system stops, hence its `CHECK_DEADLOCK FALSE`.
- `MaxRetries` is 0, 1 or 2 instead of 10: the run after the last retry is
  reached, and nothing depends on the number but the comparison.
- Two or three of the four callers at a time: any race of the flag, the appid or
  a list is between two.
- One ordinary app: grants of different apps do not interact.
- `MCApkSearch` has one apk per case of the code: found at the last level, an
  ordinary one beside it, on another file system, staged, and too deep. The depth
  is the code's 2; the theorems hold for any.
- `FdInstall`: three threads on three numbers fill the table, so that the limit,
  and a number taken by another thread between two steps, occur.
- `MaxCount` lets `reg_count` drift by three when one kretprobe is missing; with
  both it never leaves 0 to 2, and the code compares it with 0 and 1 only.
- `MaxBoots` is 4: a torn snapshot, a boot that uses it, a rollback and a crash in
  it need three.

### Fairness

`FairSpec` of `SyscallHook`: the init and exit threads, the timer and its worker
make progress whenever they can (a kernel thread that can run is scheduled; a
scheduled delayed work fires). Weak fairness is enough although the worker waits
for the mutex: the exit takes it once, and every other holder is one step. No
task has to call, and nobody has to unload.

`FairSpec` of `ThroneTracker`: a thread inside `track_throne` goes on and the
timer fires. That `/data` is mounted, an event of the boot delivered or an app
installed is never assumed.

`ApkSearch`: a search under way goes on; nobody has to start one, and installs
never have to stop (a directory is locked while it is read). `Perftune`: the
script runs on for as long as the device does, and may always be cut off by a
reboot until `MaxBoots`.

## 4. What is proved

TLAPS checks the eight `_proofs` modules completely. The assumptions are the named
`ASSUME`s of the specifications, which every run also evaluates; a theorem that
needs more says so in its statement. Every safety invariant, action property and
refinement that a passing run checks is stated by a theorem.

*SyscallHook* (any slots, tasks, faults and builds):

- `TypeCorrect`: `TypeOK`.
- `HookInvariant`: the inductive invariant `HookInv`, in four parts. `ListInv`:
  the tracked slots are distinct, are slots some caller names, and so never
  exceed the array. `RecordInv`: a tracked original is pristine unless its slot is
  stuck. `PristineInv`: a slot that differs from the pristine copy is tracked or
  stuck. `ExitInv`: the entries the exit loop has passed are restored. None of
  them is inductive alone: a new entry records what the slot holds, which is
  pristine because an untracked slot is; and an untracked slot is pristine
  because removing an entry writes back a pristine record.
- `OriginalsPristine`, `Restorable`, `ExitRestores`: `TrackedOrigPristine`,
  `PatchedTracked`, `RestoredByExit` follow from it.
- `NoSyscallLost`: `NoLostSyscall` for every build whose hooking patches
  succeed. Its invariant orders init and tasks: while the handlers are not all
  registered no slot holds the direct entry, no tracepoint redirects and the
  worker is idle (`Routed`); afterwards, until an unload begins, every slot that
  leads to the direct entry or the dispatcher, and every call under way to one
  (`CallsRouted`), has a handler. Both conditions are needed: an unload and a
  failed dispatcher patch do lose syscalls (section 3).
- `LateWorkerConfined` bounds what `VLateWorker` finds: after an unload only
  stage-2 slots, and those a failed patch left behind, can differ from the
  pristine copy. `LateInv` says that once the exit has dropped its entries only
  the worker adds any; `HookInvariant` says that a patched slot has an entry.
- `Stage2Stays` is the safety half of `Stage2Installed`: from the worker's end
  until an unload begins every stage-2 slot holds the direct entry. It assumes
  that hooking patches land and that ksud keeps the stage-2 slots it hooked
  (`Stage2Owned`); an unhook of execve after stage 2 does take the redirection
  out. The rest of it is that the worker hooks last, because both init and ksud's
  hooks are over when it can fire (`StageInv`).
- `OneHandlerOnce`, `NullNeverCalled`: `HandledOnce` and `NoNullCall`, in every
  build and whichever patches fail. A call is safe because of what was saved
  before the function it runs could be found, so the invariant has two parts:
  `SavedInv`, that whatever holds the ksud hook of a slot (the table, or a
  recorded original) has seen ksud save its original, and whatever leads to a
  handler has seen the pristine copy; and `SafeCalls`, that a task before its
  handler has not been handled and after it is in a function of the kernel.
  Neither is inductive without `HookInv`: an unhook puts a recorded original back
  into the table.
- `MagicServed`: `MagicNeverReboots` where KernelSU is built in, there are no
  syscall tracepoints and hooking patches land (`DirectBuild`), which is the shipped
  build but for failing patches. `MagicInv` says that the reboot slot is patched
  when the first process can enter, and that neither ksud nor stage 2 names it.
  Without one of the three a process can call before a module has patched the
  slot or after it has restored it, or while it is not marked, or the slot is
  never patched at all.

*PatchTable*: `PatchTableImplemented`: every step of `SyscallHook` is a step of
`PatchTable` or a stutter, for any slots and tasks, if no patch fails. It rests on
`HookInvariant` and on no slot being stuck: a recorded original is then the
pristine function, which is what makes an unhook an `Unhook` and the last step of
the exit's loop a `Forget`.

*ThroneTracker* (any apps, callers and retry limit):

- `TypeCorrect`: `TypeOK`.
- `CrownedAfterLoad`: `LoadedBeforeCrown`, from `LoadInv`: the places past the
  check, and a crown, are behind the flag, and the flag is behind a load.
- `GrantsSurvive`, `GrantsStayInForce`: `GrantsKept` and `GrantsInForce`, from
  `GrantInv`: what is owed is listed, saved, in every list in flight, and in
  memory once loaded.

*ApkSearch* (any tree, depth, hashes and failures):

- `TypeCorrect`: `TypeOK`.
- `WorkListDrained`: `Drained`. `PassInv` says that in the pass with index `i` every
  directory on the list has a depth of at most `i`, and below `i` those behind the
  last one of the pass; so what is left after a pass fits the next, and after
  the last nothing is left.
- `SearchComplete`: `Complete`. `WayInv` says that every directory on the list has
  the depth of its level in the tree, behind no staging or foreign directory, and
  `PendInv` says of each steady visible apk that it has been seen, or is an entry
  still to be read, or that a directory on its path is
  on the list. When the list is empty only the first is left.
- `CacheIsSwept`: `CacheSwept`, from `MarkInv`: what is marked was seen.
- `ManagerIsFound`: `ManagerFound`, from `SearchComplete` and `JudgeInv`: what is
  cached or seen without a stop is no manager, or a refused one. It assumes that
  path hashes do not collide (`DistinctKeys`); with a collision it is false.

*FdInstall* (any threads, limit and failures): `TypeCorrect`, `NoNumberLeaks`,
`NoDescriptorOrphaned`, `RepliesTrue`, `OwnFilesKept`, from `HolderInvariant`: the
table names the holder of a number from its reservation to the end of the task
work, and of an announced one until it is closed (`Held`), a reserved number has
one holder (`ReservedOnce`), and a thread being served has no answer yet
(`OneAnswer`). `NoReservedLeak` and `NoOrphan` are conjuncts of it: alone they do
not exclude that one thread frees another's number.

*TpMarker* (any processes, tracers, bound and kretprobe failures): `MarkerTyped`,
`MarkerCounts`, `MarkerServesOurs`, `MarkerServesOthers`, `MarkerOnlyOurs` and
`UnarmedMarksAll`, each for the rows of the table in 2.5 that it names, from
`MarkerInv`. `CountInv` says that `reg_count` is behind the kernel's count by exactly
the handler still to run, which is what makes a handler see "the first" or "the
last" when it is; `FlagInv` says what the flags are between a tracer's step and its
handler's. `BoundInv` is about the model's bound alone: it shows that a handler
that is to run always has room to count.

*Perftune* (any number of values, boots and crashes): `PerftuneTyped`, `SnapshotSafe`
and `RollbackSafe`, from `PerfInv`: every file, also what a crash leaves of it, is a
sequence of stock lines, because the script reads the values only in the parts
before the one that tunes, and in those a boot has just made them stock
(`ScriptInv`).

Only model-checked: the six liveness properties `Stage2Installed`, `ExitCompletes`,
`WorkerCompletes`, `ManagerCrowned`, `SearchEnds` and `RollbackServed`. They rest on
`ENABLED` under weak fairness, which TLAPS cannot reason about here. Also the three
runs that expect a violation: their counterexamples are TLC's.

## 5. What is not modelled, and the plan

Not modelled: the boot image and flashing scripts (run by hand on a host, one
after the other); build scripts, Kconfig patches and the older patch form of the same
changes (no behaviour of their own); wording of logs; x86; the kprobe build; the
code of upstream KernelSU that is not in the repository, except through the calls
made here.

Next, in this order:

1. `BootImage`: section offsets and the command line of `scripts/pack/*.py` as
   operators against a reference layout.
2. `ThroneTracker`'s search step as a refinement by `ApkSearch`; today the two are
   related by the text of 2.2 and 2.3 only.
