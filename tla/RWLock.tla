------------------------------- MODULE RWLock -------------------------------
(***************************************************************************)
(* The reader-writer spinlock of rwlock.h, which protects the handle table *)
(* and the module list.  Every read or atomic update of write and read is  *)
(* a step of its own: readers announce themselves, look again, and step    *)
(* back when a writer came in between.                                     *)
(***************************************************************************)
EXTENDS Integers, FiniteSets

CONSTANT Locker    \* threads that use the lock

ASSUME LockAssumption == IsFiniteSet(Locker)

VARIABLES
    write,    \* lock->write
    read,     \* lock->read
    lpc       \* where each thread is

lockVars == <<write, read, lpc>>

LockInit == write = FALSE /\ read = 0 /\ lpc = [t \in Locker |-> "out"]

LockGoto(t, from, to) == lpc[t] = from /\ lpc' = [lpc EXCEPT ![t] = to]

(* rwlock_rlock, its inner loop left: write was 0. *)
RSeesFree(t) == /\ ~write /\ LockGoto(t, "out", "announce") /\ UNCHANGED <<write, read>>
RAnnounce(t) == /\ LockGoto(t, "announce", "look") /\ read' = read + 1 /\ UNCHANGED write

(* Mutant of REnter: the reader does not look at write again. *)
REnterBlind(t) == /\ LockGoto(t, "look", "reading") /\ UNCHANGED <<write, read>>

REnter(t) == /\ ~write /\ LockGoto(t, "look", "reading") /\ UNCHANGED <<write, read>>

RStepBack(t) == /\ write /\ LockGoto(t, "look", "retreat") /\ UNCHANGED <<write, read>>

(* Mutant of RRetreat: the reader stays announced. *)
RRetreatKeeps(t) == /\ LockGoto(t, "retreat", "out") /\ UNCHANGED <<write, read>>

RRetreat(t) == /\ LockGoto(t, "retreat", "out") /\ read' = read - 1 /\ UNCHANGED write

(* rwlock_runlock *)
RUnlock(t) == /\ LockGoto(t, "reading", "out") /\ read' = read - 1 /\ UNCHANGED write

(* rwlock_wlock: test and set, then wait for the readers. *)
WClaim(t) == /\ ~write /\ LockGoto(t, "out", "drain") /\ write' = TRUE /\ UNCHANGED read
WEnter(t) == /\ read = 0 /\ LockGoto(t, "drain", "writing") /\ UNCHANGED <<write, read>>

(* rwlock_wunlock *)
WUnlock(t) == /\ LockGoto(t, "writing", "out") /\ write' = FALSE /\ UNCHANGED read

(* The steps of a thread that asked for the lock; out, it may stay out. *)
LockStep(t) ==
    \/ RAnnounce(t) \/ REnter(t) \/ RStepBack(t) \/ RRetreat(t) \/ RUnlock(t)
    \/ WEnter(t) \/ WUnlock(t)

LockNext == \E t \in Locker : RSeesFree(t) \/ WClaim(t) \/ LockStep(t)

LockSpec == LockInit /\ [][LockNext]_lockVars

LockFairness == \A t \in Locker : WF_lockVars(LockStep(t))

-----------------------------------------------------------------------------
(* Every variable has its type; the count of readers never goes below 0. *)
LockTypeOK ==
    /\ write \in BOOLEAN /\ read \in Nat
    /\ lpc \in [Locker -> {"out", "announce", "look", "retreat", "reading", "drain", "writing"}]

(* rwlock_wlock excludes every reader and every other writer. *)
LockExclusion ==
    \A t, u \in Locker : lpc[t] = "writing" /\ t # u => lpc[u] \notin {"reading", "writing"}

(* The writer that set the flag gets in, however many readers keep coming:  *)
(* they are turned away, and those who announced themselves step back.      *)
WriterEnters == \A t \in Locker : lpc[t] = "drain" ~> lpc[t] = "writing"

-----------------------------------------------------------------------------
Announced == {t \in Locker : lpc[t] \in {"look", "retreat", "reading"}}

(* What makes LockExclusion inductive: read counts the readers that are     *)
(* announced, write is set by the one writer, and nobody reads while it     *)
(* writes.                                                                  *)
LockInv ==
    /\ LockTypeOK
    /\ read = Cardinality(Announced)
    /\ write <=> \E t \in Locker : lpc[t] \in {"drain", "writing"}
    /\ \A t, u \in Locker : lpc[t] \in {"drain", "writing"} /\ lpc[u] \in {"drain", "writing"} => t = u
    /\ \A t, u \in Locker : lpc[t] = "writing" => lpc[u] # "reading"
=============================================================================
