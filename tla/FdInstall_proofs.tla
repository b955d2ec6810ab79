-------------------------- MODULE FdInstall_proofs --------------------------
(* Proofs about FdInstall, for any number of threads, any limit of the      *)
(* descriptor table and any faults.                                         *)
EXTENDS FdInstall, WellFoundedInduction, TLAPS

Pcs == {"user", "work", "file", "install", "reply"}
Entries == {Free, Reserved} \cup {Entry(k, t) : k \in {"ksu", "own"}, t \in Threads}

\* The kinds of entries are told apart, and a number from the two that are none.
LEMMA EntryDistinct ==
    /\ \A k, j, t, u : Entry(k, t) = Entry(j, u) <=> k = j /\ t = u
    /\ Free # Reserved
    /\ \A t : Entry("ksu", t) \notin {Free, Reserved} /\ Entry("own", t) \notin {Free, Reserved}
    /\ Error \notin Fds /\ NoFd \notin Fds /\ Error # NoFd
  BY FdAssumption DEF Entry, Free, Reserved, Error, NoFd, Fds

\* A table that is not full has a lowest free number.
LEMMA LowestFree ==
    ASSUME ~Full
    PROVE  Lowest \in Fds /\ fdt[Lowest] = Free
  <1> DEFINE R == OpToRel(<, Nat)
             T == {f \in Fds : fdt[f] = Free}
  <1>1. T \subseteq Nat /\ T # {}
    BY FdAssumption DEF Full, Fds
  <1>2. IsWellFoundedOn(R, Nat)
    BY NatLessThanWellFounded
  <1>3. \A x, y \in Nat : y < x => <<y, x>> \in R
    BY DEF OpToRel
  <1> HIDE DEF R, T
  <1>4. PICK x \in T : \A y \in T : ~(<<y, x>> \in R)
    BY <1>1, <1>2, WFMin
  <1>5. ASSUME NEW y \in T PROVE x =< y
    <2>1. x \in Nat /\ y \in Nat
      BY <1>1
    <2>2. ~(y < x)
      BY <1>3, <1>4, <2>1
    <2> QED
      BY <2>1, <2>2
  <1>6. x \in Fds /\ fdt[x] = Free /\ \A g \in Fds : fdt[g] = Free => x =< g
    BY <1>5 DEF T
  <1> QED
    BY <1>6 DEF Lowest

-----------------------------------------------------------------------------
(* Type correctness                                                         *)

FdType ==
    /\ fdt \in [Fds -> Entries]
    /\ pc \in [Threads -> Pcs]
    /\ fd \in [Threads -> Fds \cup {Error, NoFd}]
    /\ outp \in [Threads -> Fds \cup {Error, NoFd}]
    /\ \A t \in Threads : fd[t] = NoFd <=> pc[t] \in {"user", "work"}
    /\ \A t \in Threads : pc[t] \in {"file", "install"} => fd[t] \in Fds

LEMMA SameType == TypeOK <=> FdType
  BY DEF TypeOK, FdType, Entries, Pcs

\* Every step keeps the types.
LEMMA TypeNext == FdType /\ [Next]_vars => FdType'
  <1> SUFFICES ASSUME FdType, [Next]_vars PROVE FdType'
    OBVIOUS
  <1>e. /\ Free \in Entries /\ Reserved \in Entries
        /\ \A t \in Threads : Entry("ksu", t) \in Entries /\ Entry("own", t) \in Entries
    BY DEF Entries
  <1>1. ASSUME NEW t \in Threads, Request(t) PROVE FdType'
    BY <1>1 DEF Request, Goto, FdType, Pcs
  <1>2. ASSUME NEW t \in Threads, GetUnusedFd(t) PROVE FdType'
    <2>1. CASE ~Full
      BY <1>2, <1>e, <2>1, LowestFree, EntryDistinct DEF GetUnusedFd, Goto, FdType, Pcs
    <2>2. CASE Full
      BY <1>2, <2>2, EntryDistinct DEF GetUnusedFd, Goto, FdType, Pcs
    <2> QED
      BY <2>1, <2>2
  <1>3. ASSUME NEW t \in Threads, GetFile(t) PROVE FdType'
    BY <1>3, <1>e, EntryDistinct DEF GetFile, Goto, FdType, Pcs
  <1>4. ASSUME NEW t \in Threads, FdInstall(t) PROVE FdType'
    BY <1>4, <1>e DEF FdInstall, Goto, FdType, Pcs
  <1>5. ASSUME NEW t \in Threads, Reply(t) PROVE FdType'
    BY <1>5, <1>e DEF Reply, Goto, FdType, Pcs
  <1>6. ASSUME NEW t \in Threads, Open(t) PROVE FdType'
    BY <1>6, <1>e, LowestFree DEF Open, FdType
  <1>7. ASSUME NEW t \in Threads, NEW f \in Fds, CloseOwn(t, f) PROVE FdType'
    BY <1>7, <1>e DEF CloseOwn, FdType
  <1>8. ASSUME NEW t \in Threads, NEW u \in Threads, CloseKsu(t, u) PROVE FdType'
    BY <1>8, <1>e DEF CloseKsu, FdType
  <1>9. ASSUME NEW t \in Threads, SeeError(t) PROVE FdType'
    BY <1>9 DEF SeeError, FdType
  <1>10. CASE UNCHANGED vars
    BY <1>10 DEF vars, FdType
  <1> QED
    BY <1>1, <1>2, <1>3, <1>4, <1>5, <1>6, <1>7, <1>8, <1>9, <1>10 DEF Next, TaskWork

\* In every reachable state every variable has its type (TypeOK): a thread is
\* about to install, or to give up, only a number it was given.
THEOREM TypeCorrect == Spec => []TypeOK
  <1>1. Init => FdType
    BY EntryDistinct DEF Init, FdType, Entries, Pcs
  <1> QED
    BY <1>1, TypeNext, SameType, PTL DEF Spec

-----------------------------------------------------------------------------
(* Who holds which number.                                                  *)
(*                                                                          *)
(* A thread holds a number from its reservation to the end of its task      *)
(* work, and an announced one until somebody closes it.  The table names    *)
(* its holder in all that time, so that no two threads hold the same        *)
(* number, and nobody else's step can take it away.                         *)

\* The entry the number of thread t must have, by where t stands.
Held ==
    \A t \in Threads :
        /\ pc[t] \in {"file", "install"} => fdt[fd[t]] = Reserved
        /\ pc[t] = "reply" /\ fd[t] \in Fds => fdt[fd[t]] = Entry("ksu", t)
        /\ outp[t] \in Fds => fdt[outp[t]] = Entry("ksu", t)

\* A reserved number has one holder.
ReservedOnce ==
    \A t, u \in Threads :
        /\ pc[t] \in {"file", "install"} /\ pc[u] \in {"file", "install"}
        /\ fd[t] = fd[u]
        => t = u

\* A thread that is being served waits for one answer only.
OneAnswer == \A t \in Threads : pc[t] # "user" => outp[t] = NoFd

FdInv == Held /\ ReservedOnce /\ OneAnswer /\ NoReservedLeak /\ NoOrphan

\* A thread takes a free number, or gives up.
LEMMA GetUnusedFdInv ==
    ASSUME FdType, FdInv, NEW t \in Threads, GetUnusedFd(t)
    PROVE  FdInv'
  <1>1. CASE ~Full
    <2>1. /\ Lowest \in Fds /\ fdt[Lowest] = Free
          /\ pc[t] = "work" /\ pc' = [pc EXCEPT ![t] = "file"]
          /\ fd' = [fd EXCEPT ![t] = Lowest]
          /\ fdt' = [fdt EXCEPT ![Lowest] = Reserved]
          /\ UNCHANGED outp
      BY <1>1, LowestFree DEF GetUnusedFd, Goto
    <2> QED
      BY <2>1, EntryDistinct
      DEF FdType, FdInv, Held, ReservedOnce, OneAnswer, NoReservedLeak, NoOrphan
  <1>2. CASE Full
    BY <1>2, EntryDistinct
    DEF GetUnusedFd, Goto, FdType, FdInv, Held, ReservedOnce, OneAnswer, NoReservedLeak, NoOrphan
  <1> QED
    BY <1>1, <1>2

\* A step that changes one entry of the table keeps the invariant where it was
\* nobody's, or the holder lets go of it in the same step.
LEMMA FdNext == FdType /\ FdInv /\ [Next]_vars => FdInv'
  <1> SUFFICES ASSUME FdType, FdInv, [Next]_vars PROVE FdInv'
    OBVIOUS
  <1> USE EntryDistinct
      DEF Goto, FdType, FdInv, Held, ReservedOnce, OneAnswer, NoReservedLeak, NoOrphan
  <1>1. ASSUME NEW t \in Threads, Request(t) PROVE FdInv'
    BY <1>1 DEF Request
  <1>2. ASSUME NEW t \in Threads, GetUnusedFd(t) PROVE FdInv'
    BY <1>2, GetUnusedFdInv
  <1>3. ASSUME NEW t \in Threads, GetFile(t) PROVE FdInv'
    BY <1>3 DEF GetFile
  <1>4. ASSUME NEW t \in Threads, FdInstall(t) PROVE FdInv'
    BY <1>4 DEF FdInstall
  <1>5. ASSUME NEW t \in Threads, Reply(t) PROVE FdInv'
    BY <1>5 DEF Reply
  <1>6. ASSUME NEW t \in Threads, Open(t) PROVE FdInv'
    BY <1>6, LowestFree DEF Open
  <1>7. ASSUME NEW t \in Threads, NEW f \in Fds, CloseOwn(t, f) PROVE FdInv'
    BY <1>7 DEF CloseOwn
  <1>8. ASSUME NEW t \in Threads, NEW u \in Threads, CloseKsu(t, u) PROVE FdInv'
    BY <1>8 DEF CloseKsu
  <1>9. ASSUME NEW t \in Threads, SeeError(t) PROVE FdInv'
    BY <1>9 DEF SeeError
  <1>10. CASE UNCHANGED vars
    BY <1>10 DEF vars
  <1> QED
    BY <1>1, <1>2, <1>3, <1>4, <1>5, <1>6, <1>7, <1>8, <1>9, <1>10 DEF Next, TaskWork

\* The invariant holds in every reachable state.
THEOREM HolderInvariant == Spec => [](FdType /\ FdInv)
  <1>1. Init => FdType /\ FdInv
    BY EntryDistinct DEF Init, FdType, Entries, Pcs, FdInv, Held, ReservedOnce, OneAnswer,
       NoReservedLeak, NoOrphan
  <1> QED
    BY <1>1, TypeNext, FdNext, PTL DEF Spec

\* No number stays reserved without a thread that will install it or give it up,
\* for any number of threads and whatever fails (the error path of
\* ksu_install_fd).
THEOREM NoNumberLeaks == Spec => []NoReservedLeak
  BY HolderInvariant, PTL DEF FdInv

\* No driver descriptor is left in the table without its thread knowing the
\* number, whatever fails (the close after a failed copy_to_user).
THEOREM NoDescriptorOrphaned == Spec => []NoOrphan
  BY HolderInvariant, PTL DEF FdInv

\* The number a thread was told is that of its own driver file.
THEOREM RepliesTrue == Spec => []ReplyIsTrue
  <1>1. FdInv => ReplyIsTrue
    BY DEF FdInv, Held, ReplyIsTrue
  <1> QED
    BY <1>1, HolderInvariant, PTL

\* Taking a descriptor back never closes a file some thread opened for itself.
THEOREM OwnFilesKept == Spec => OwnFilesStay
  <1>1. ASSUME FdType, FdInv, [Next]_vars, NEW t \in Threads, NEW u \in Threads, NEW f \in Fds,
               pc[t] = "reply", pc'[t] # "reply", fdt[f] = Entry("own", u)
        PROVE  fdt'[f] = fdt[f]
    <2>1. Reply(t)
      BY <1>1 DEF Next, TaskWork, Request, GetUnusedFd, GetFile, FdInstall, Reply, Open,
         CloseOwn, CloseKsu, SeeError, Goto, vars, FdType
    <2>2. fd[t] \in Fds => fd[t] # f
      BY <1>1, EntryDistinct DEF FdInv, Held
    <2> QED
      BY <1>1, <2>1, <2>2 DEF Reply, FdType
  <1>2. FdType /\ FdInv /\ [Next]_vars =>
            \A t, u \in Threads, f \in Fds :
                pc[t] = "reply" /\ pc'[t] # "reply" /\ fdt[f] = Entry("own", u)
                    => fdt'[f] = fdt[f]
    BY <1>1
  <1> QED
    BY <1>2, HolderInvariant, PTL DEF Spec, OwnFilesStay

=============================================================================
