---------------------------- MODULE SkynetQueue ----------------------------
(***************************************************************************)
(* skynet.queue: the critical section that serialises the coroutines of    *)
(* one service.  skynet.queue() returns a function cs(f); a coroutine that *)
(* calls cs(f) while another one is inside waits in a FIFO, and the one    *)
(* that leaves hands the section over.  The room manager enters rooms      *)
(* under one such section and the hongbao room takes bets under another.   *)
(*                                                                         *)
(* Coroutines of a service interleave only where one yields: inside f      *)
(* (every skynet.call, HTTP or database call yields), at skynet.wait, and  *)
(* between skynet.wakeup and the moment the woken coroutine is resumed.    *)
(***************************************************************************)
EXTENDS Naturals, Sequences, FiniteSets

CONSTANTS
    Thread,     \* the coroutines of the service
    None,       \* Lua's nil
    MaxDepth    \* bound: how deep one coroutine nests cs inside cs

ASSUME QueueAssumption ==
    /\ None \notin Thread
    /\ MaxDepth \in Nat \ {0}

VARIABLES
    current_thread,  \* the owner of the section, or None
    ref,             \* how many times the owner has entered
    thread_queue,    \* the coroutines waiting, first come first
    pc,              \* where each coroutine is: "out", "waiting", "woken", "in"
    depth            \* nesting depth of the coroutine's own call stack of cs

vars == <<current_thread, ref, thread_queue, pc, depth>>

Init ==
    /\ current_thread = None
    /\ ref = 0
    /\ thread_queue = << >>
    /\ pc = [t \in Thread |-> "out"]
    /\ depth = [t \in Thread |-> 0]

(* `current_thread = thread; ref = ref + 1`, then f runs. *)
Enter(t) ==
    /\ current_thread' = t
    /\ ref' = ref + 1
    /\ pc' = [pc EXCEPT ![t] = "in"]
    /\ depth' = [depth EXCEPT ![t] = @ + 1]

(* The call finds the section taken by another coroutine and waits. *)
CallWait(t) ==
    /\ pc[t] = "out"
    /\ current_thread # None /\ current_thread # t
    /\ thread_queue' = Append(thread_queue, t)
    /\ pc' = [pc EXCEPT ![t] = "waiting"]
    /\ UNCHANGED <<current_thread, ref, depth>>

(* The call finds the section free, or already its own (a nested call). *)
CallEnter(t) ==
    /\ pc[t] \in {"out", "in"} /\ depth[t] < MaxDepth
    /\ current_thread \in {None, t}
    /\ Enter(t)
    /\ UNCHANGED thread_queue

(* A coroutine woken from skynet.wait is resumed by the scheduler.         *)
(* The source asserts ref == 0 here; NoAssertFailure is that assertion.    *)
Resume(t) ==
    /\ pc[t] = "woken"
    /\ Enter(t)
    /\ UNCHANGED thread_queue

(* What xpcall_ret does on the last exit, given the owner it installs and  *)
(* the waiter it wakes; the mutants below differ from it in those two.     *)
LastExit(t, owner, woken, rest) ==
    /\ pc[t] = "in" /\ ref = 1
    /\ ref' = 0
    /\ depth' = [depth EXCEPT ![t] = 0]
    /\ current_thread' = owner
    /\ thread_queue' = rest
    /\ pc' = [u \in Thread |-> IF u = t THEN "out"
                              ELSE IF u = woken THEN "woken" ELSE pc[u]]

(* Mutant of Return: the owner leaves without looking at the queue. *)
ReturnForgetsQueue(t) == LastExit(t, None, None, thread_queue)

(* Mutant of Return: table.remove without the index takes the last waiter. *)
ReturnTakesLast(t) ==
    LET n == Len(thread_queue) IN
    IF n = 0 THEN LastExit(t, None, None, << >>)
    ELSE LastExit(t, thread_queue[n], thread_queue[n], SubSeq(thread_queue, 1, n - 1))

(* xpcall_ret: f returned or raised; the last exit hands the section over. *)
Return(t) ==
    /\ pc[t] = "in"
    /\ ref' = ref - 1
    /\ depth' = [depth EXCEPT ![t] = @ - 1]
    /\ IF ref' # 0
         THEN UNCHANGED <<current_thread, thread_queue, pc>>
         ELSE IF thread_queue = << >>
           THEN /\ current_thread' = None
                /\ pc' = [pc EXCEPT ![t] = "out"]
                /\ UNCHANGED thread_queue
           ELSE /\ current_thread' = Head(thread_queue)
                /\ thread_queue' = Tail(thread_queue)
                /\ pc' = [pc EXCEPT ![t] = "out", ![Head(thread_queue)] = "woken"]

Next == \E t \in Thread : CallWait(t) \/ CallEnter(t) \/ Resume(t) \/ Return(t)

Spec == Init /\ [][Next]_vars

(* The scheduler resumes every woken coroutine, and the body f of every    *)
(* outermost call ends: no caller of cs loops on a nested cs, and the calls *)
(* it makes are answered or raise.                                         *)
Fairness ==
    \A t \in Thread : /\ WF_vars(Resume(t))
                      /\ WF_vars(Return(t))
                      /\ SF_vars(ref = 1 /\ Return(t))

FairSpec == Spec /\ Fairness

-----------------------------------------------------------------------------
(* Types of the state kept by skynet.queue and of the coroutines' position. *)
TypeOK ==
    /\ current_thread \in Thread \cup {None}
    /\ ref \in Nat
    /\ thread_queue \in Seq(Thread)
    /\ pc \in [Thread -> {"out", "waiting", "woken", "in"}]
    /\ depth \in [Thread -> Nat]

(* At most one coroutine is inside the section, from its outermost entry to *)
(* the end of its outermost call, however often it yields in between and    *)
(* however often it nests (queue.lua:25-34).                                *)
MutualExclusion == \A s, t \in Thread : pc[s] = "in" /\ pc[t] = "in" => s = t

(* The source's `assert(ref == 0)` after skynet.wait never fails, although  *)
(* other coroutines run between the wakeup and the resumption               *)
(* (queue.lua:29).                                                          *)
NoAssertFailure == \A t \in Thread : pc[t] = "woken" => ref = 0 /\ current_thread = t

(* No wakeup is lost: while somebody waits, somebody else owns the section  *)
(* and will hand it over (queue.lua:13-19).                                 *)
NoLostWakeup ==
    \A t \in Thread : pc[t] = "waiting" =>
        \E s \in Thread : s = current_thread /\ pc[s] \in {"in", "woken"}

(* The section is exclusive, hands itself over as the source asserts, and   *)
(* forgets nobody (queue.lua:13-34).                                        *)
SectionSafe == MutualExclusion /\ NoAssertFailure /\ NoLostWakeup

(* skynet.queue implements a FIFO lock: owner first, then the waiters in    *)
(* the order of their calls (queue.lua:24-34).                              *)
Line == (IF current_thread = None THEN << >> ELSE <<current_thread>>) \o thread_queue
Lock == INSTANCE FifoLock WITH Client <- Thread, line <- Line
ImplementsFifoLock == Lock!Spec

(* Everybody who waits is let in (queue.lua:15-18).                         *)
WaiterEnters == \A t \in Thread : pc[t] = "waiting" ~> pc[t] = "in"
=============================================================================
