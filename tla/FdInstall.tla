----------------------------- MODULE FdInstall -----------------------------
(* How a process gets a descriptor for the KernelSU driver                  *)
(* (supercall/supercall.c): the reboot handler queues a task work, which    *)
(* runs when the calling thread returns to user space, installs the         *)
(* descriptor and copies its number out.  The threads of the process share  *)
(* the descriptor table and open and close files of their own meanwhile.    *)
EXTENDS Integers, FiniteSets

CONSTANTS
    Threads,   \* the threads of one process
    MaxFd,     \* the highest descriptor number its limit allows
    Faults     \* what may fail: "alloc", "queue", "file", "copy"

ASSUME FdAssumption ==
    /\ MaxFd \in Nat
    /\ Faults \subseteq {"alloc", "queue", "file", "copy"}

Fds == 0..MaxFd

\* -EMFILE and -ENFILE, and no number at all.
Error == -1
NoFd == -2

\* An entry of the table, and whose it is.
Entry(kind, t) == [kind |-> kind, of |-> t]
Free == Entry("free", NoFd)
Reserved == Entry("reserved", NoFd)

VARIABLES
    fdt,    \* the descriptor table
    pc,     \* per thread: "user", "work", "file", "install", "reply"
    fd,     \* per thread: fd of ksu_install_fd
    outp    \* per thread: the answer in its memory

vars == <<fdt, pc, fd, outp>>

Init ==
    /\ fdt = [f \in Fds |-> Free]
    /\ pc = [t \in Threads |-> "user"]
    /\ fd = [t \in Threads |-> NoFd]
    /\ outp = [t \in Threads |-> NoFd]

Lowest == CHOOSE f \in Fds : fdt[f] = Free /\ \A g \in Fds : fdt[g] = Free => f =< g

Full == \A f \in Fds : fdt[f] # Free

Goto(t, from, to) == pc[t] = from /\ pc' = [pc EXCEPT ![t] = to]

-----------------------------------------------------------------------------
(* ksu_direct_reboot_entry and the task work *)

\* The magic call returns 0 whether or not a work was queued.
Request(t) ==
    /\ outp[t] = NoFd
    /\ \/ Goto(t, "user", "work")
       \/ Goto(t, "user", "user") /\ Faults \cap {"alloc", "queue"} # {}
    /\ UNCHANGED <<fdt, fd, outp>>

\* Faulty variant: the error of get_unused_fd_flags is not looked at.
GetUnusedFdUnchecked(t) ==
    /\ Goto(t, "work", "file")
    /\ IF Full
       THEN fd' = [fd EXCEPT ![t] = Error] /\ UNCHANGED fdt
       ELSE /\ fd' = [fd EXCEPT ![t] = Lowest]
            /\ fdt' = [fdt EXCEPT ![Lowest] = Reserved]
    /\ UNCHANGED outp

\* The lowest free number is reserved, unless the table is full.
GetUnusedFd(t) ==
    /\ \/ /\ ~Full
          /\ Goto(t, "work", "file")
          /\ fd' = [fd EXCEPT ![t] = Lowest]
          /\ fdt' = [fdt EXCEPT ![Lowest] = Reserved]
       \/ /\ Full
          /\ Goto(t, "work", "reply")
          /\ fd' = [fd EXCEPT ![t] = Error]
          /\ UNCHANGED fdt
    /\ UNCHANGED outp

\* Faulty variants: the failure gives up the number but returns it, and the
\* number is not given up.
GetFileReturnsNumber(t) ==
    /\ \/ Goto(t, "file", "install") /\ UNCHANGED <<fdt, fd>>
       \/ /\ "file" \in Faults
          /\ Goto(t, "file", "reply")
          /\ fdt' = [fdt EXCEPT ![fd[t]] = Free]
          /\ UNCHANGED fd
    /\ UNCHANGED outp
GetFileKeepsNumber(t) ==
    /\ \/ Goto(t, "file", "install") /\ UNCHANGED <<fdt, fd>>
       \/ /\ "file" \in Faults
          /\ Goto(t, "file", "reply")
          /\ fd' = [fd EXCEPT ![t] = Error]
          /\ UNCHANGED fdt
    /\ UNCHANGED outp

\* anon_inode_getfile; put_unused_fd gives the number up again.
GetFile(t) ==
    /\ \/ Goto(t, "file", "install") /\ UNCHANGED <<fdt, fd>>
       \/ /\ "file" \in Faults
          /\ Goto(t, "file", "reply")
          /\ fdt' = [fdt EXCEPT ![fd[t]] = Free]
          /\ fd' = [fd EXCEPT ![t] = Error]
    /\ UNCHANGED outp

FdInstall(t) ==
    /\ Goto(t, "install", "reply")
    /\ fdt' = [fdt EXCEPT ![fd[t]] = Entry("ksu", t)]
    /\ UNCHANGED <<fd, outp>>

\* Faulty variant: the descriptor is left where nobody was told of it.
ReplyNoClose(t) ==
    /\ Goto(t, "reply", "user")
    /\ \/ outp' = [outp EXCEPT ![t] = fd[t]]
       \/ "copy" \in Faults /\ UNCHANGED outp
    /\ fd' = [fd EXCEPT ![t] = NoFd]
    /\ UNCHANGED fdt

\* copy_to_user; when it fails ksu_close_fd takes a good number back, by which
\* time the table may hold something else under it.
Reply(t) ==
    /\ Goto(t, "reply", "user")
    /\ \/ outp' = [outp EXCEPT ![t] = fd[t]] /\ UNCHANGED fdt
       \/ /\ "copy" \in Faults
          /\ fdt' = IF fd[t] \in Fds THEN [fdt EXCEPT ![fd[t]] = Free] ELSE fdt
          /\ UNCHANGED outp
    /\ fd' = [fd EXCEPT ![t] = NoFd]

-----------------------------------------------------------------------------
(* What the threads do with their descriptors.  A thread closes files it    *)
(* opened, and the ksu descriptors some thread was told of.                 *)

Open(t) ==
    /\ pc[t] = "user"
    /\ ~Full
    /\ fdt' = [fdt EXCEPT ![Lowest] = Entry("own", t)]
    /\ UNCHANGED <<pc, fd, outp>>

CloseOwn(t, f) ==
    /\ pc[t] = "user"
    /\ fdt[f] = Entry("own", t)
    /\ fdt' = [fdt EXCEPT ![f] = Free]
    /\ UNCHANGED <<pc, fd, outp>>

CloseKsu(t, u) ==
    /\ pc[t] = "user"
    /\ outp[u] \in Fds
    /\ fdt' = [fdt EXCEPT ![outp[u]] = Free]
    /\ outp' = [outp EXCEPT ![u] = NoFd]
    /\ UNCHANGED <<pc, fd>>

\* The caller looks at an error and may try again.
SeeError(t) ==
    /\ pc[t] = "user"
    /\ outp[t] = Error
    /\ outp' = [outp EXCEPT ![t] = NoFd]
    /\ UNCHANGED <<fdt, pc, fd>>

-----------------------------------------------------------------------------
TaskWork(t) == GetUnusedFd(t) \/ GetFile(t) \/ FdInstall(t) \/ Reply(t)

Next ==
    \E t \in Threads :
        \/ Request(t) \/ TaskWork(t) \/ Open(t) \/ SeeError(t)
        \/ \E f \in Fds : CloseOwn(t, f)
        \/ \E u \in Threads : CloseKsu(t, u)

Spec == Init /\ [][Next]_vars

-----------------------------------------------------------------------------
(* Properties *)

\* Every variable has its type, and only a good number is installed.
TypeOK ==
    /\ fdt \in [Fds -> {Free, Reserved} \cup {Entry(k, t) : k \in {"ksu", "own"}, t \in Threads}]
    /\ pc \in [Threads -> {"user", "work", "file", "install", "reply"}]
    /\ fd \in [Threads -> Fds \cup {Error, NoFd}]
    /\ outp \in [Threads -> Fds \cup {Error, NoFd}]
    /\ \A t \in Threads : fd[t] = NoFd <=> pc[t] \in {"user", "work"}
    /\ \A t \in Threads : pc[t] \in {"file", "install"} => fd[t] \in Fds

\* A number stays reserved only for a thread that is about to install it:
\* descriptors do not leak out of the limit of the process.
NoReservedLeak ==
    \A f \in Fds : fdt[f] = Reserved =>
        \E t \in Threads : pc[t] \in {"file", "install"} /\ fd[t] = f

\* Nobody is left with a driver descriptor he was not told of: one in the table
\* was announced to its thread, or that thread has yet to copy its number out
\* or to close it (supercall.c:70-76).
NoOrphan ==
    \A f \in Fds, t \in Threads : fdt[f] = Entry("ksu", t) =>
        outp[t] = f \/ (pc[t] = "reply" /\ fd[t] = f)

\* The number a thread is told is that of its own driver file, however the
\* other threads use the table between the reservation and the copy.
ReplyIsTrue ==
    \A t \in Threads : outp[t] \in Fds => fdt[outp[t]] = Entry("ksu", t)

\* Taking a descriptor back after a failed copy never closes a file that a
\* thread opened for itself.
OwnFilesStay ==
    [][\A t, u \in Threads, f \in Fds :
         pc[t] = "reply" /\ pc'[t] # "reply" /\ fdt[f] = Entry("own", u)
             => fdt'[f] = fdt[f]]_vars

=============================================================================
