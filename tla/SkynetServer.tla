---------------------------- MODULE SkynetServer ----------------------------
(***************************************************************************)
(* The scheduler of skynet (skynet_server.c, skynet_mq.c, skynet_start.c): *)
(* contexts with reference counts, their message queues, the global queue  *)
(* and the worker threads.  Threads interleave between two critical        *)
(* sections; what a spinlock or an atomic instruction protects is one      *)
(* action.  A thread calls the functions of the kernel one after another;  *)
(* th[t].stack holds the labels at which it goes on.                       *)
(***************************************************************************)
EXTENDS Integers, Sequences, FiniteSets

CONSTANTS
    Service,    \* contexts that may exist, one handle each
    Booted,     \* those that run when the threads start (skynet_start, bootstrap)
    Worker,     \* worker threads
    Outside,    \* timer, socket and monitor thread, which serve no queue
    Weight,     \* weight of each worker: -1, or by how much the length is shifted
    Monitor,    \* G_NODE.monitor_exit, or NULL
    Message,    \* bound: messages the callbacks and the outside threads send
    Kills,      \* bound: kills and aborts by callbacks
    NULL

Threads == Worker \cup Outside

ASSUME ServerAssumption ==
    /\ NULL \notin Service /\ Booted \subseteq Service /\ IsFiniteSet(Service)
    /\ Worker \cap Outside = {} /\ IsFiniteSet(Threads)
    /\ Monitor \in Service \cup {NULL}
    /\ Weight \in [Worker -> -1..3]
    /\ NULL \notin Message /\ Kills \in Nat

VARIABLES
    ctx,      \* of each service: "none", "alive" or "freed"
    refs,      \* its reference count
    slot,     \* services in the handle table
    inited,   \* contexts whose init flag is set
    mq,       \* of each service, its queue: messages, in_global, release, freed
    Q,        \* the global queue
    total,    \* G_NODE.total
    quit,     \* m->quit
    th,       \* of each thread: label, stack and locals
    fate,     \* of each message: where it is, or how it ended
    kills     \* kills so far

kernel == <<ctx, refs, slot, inited, mq, Q, total>>
serverVars == <<ctx, refs, slot, inited, mq, Q, total, quit, th, fate, kills>>

(* The locals of a thread.  A local that names a context is set while the   *)
(* thread owns a reference to it, one that names a queue while the queue is *)
(* in the thread's hands: ctx, q, nq (message_dispatch), n and first its    *)
(* loop; new, queue (context_new); tgt, dst, msg (skynet_send); kill (the   *)
(* handle to retire); dq (mq_release); victim (delete_context).             *)
Idle == [pc |-> "idle", stack |-> << >>, ctx |-> NULL, q |-> NULL, nq |-> NULL,
         n |-> 0, first |-> FALSE, new |-> NULL, queue |-> NULL, tgt |-> NULL,
         dst |-> NULL, msg |-> NULL, kill |-> NULL, dq |-> NULL, victim |-> NULL]

(* The services that skynet_start launched before the threads: their queues *)
(* are in the global queue.                                                 *)
ServerInit ==
    /\ ctx = [s \in Service |-> IF s \in Booted THEN "alive" ELSE "none"]
    /\ refs = [s \in Service |-> IF s \in Booted THEN 1 ELSE 0]
    /\ slot = Booted /\ inited = Booted
    /\ mq = [s \in Service |-> [msgs |-> << >>, in_global |-> s \in Booted, release |-> FALSE,
                                freed |-> s \notin Booted]]
    /\ Q \in [1..Cardinality(Booted) -> Booted] /\ \A s \in Booted : \E i \in DOMAIN Q : Q[i] = s
    /\ total = Cardinality(Booted) /\ quit = FALSE
    /\ th = [t \in Threads |-> IF t \in Worker THEN Idle ELSE [Idle EXCEPT !.pc = "cb"]]
    /\ fate = [m \in Message |-> "unsent"]
    /\ kills = 0

At(t, pc) == th[t].pc = pc
Goto(t, r) == th' = [th EXCEPT ![t] = r]
Jump(t, pc) == Goto(t, [th[t] EXCEPT !.pc = pc])
(* Call a function; go on at label back when it returns. *)
Call(t, r, pc, back) == Goto(t, [r EXCEPT !.pc = pc, !.stack = <<back>> \o @])
(* Locals r after the function returned. *)
Returned(r) == [r EXCEPT !.pc = Head(r.stack), !.stack = Tail(r.stack)]

(* The service whose init, or whose callback, a thread runs. *)
Self(t) == IF th[t].new # NULL THEN th[t].new ELSE th[t].ctx

(* What becomes of a message; error replies and exit notices are not followed. *)
Becomes(m, f) == fate' = IF m.id = NULL THEN fate ELSE [fate EXCEPT ![m.id] = f]

-----------------------------------------------------------------------------
(* skynet_context_release: the last reference deletes the context.         *)

(* Threads t drops a reference to s and goes on with the locals r. *)
Release(t, s, r) ==
    /\ refs' = [refs EXCEPT ![s] = @ - 1]
    /\ IF refs[s] = 1 THEN Call(t, [r EXCEPT !.victim = s], "delete", r.pc) ELSE Goto(t, r)

(* Mutant of Delete: a released queue is never handed to the workers. *)
DeleteForgets(t) ==
    /\ At(t, "delete")
    /\ LET s == th[t].victim IN
         /\ mq' = [mq EXCEPT ![s].release = TRUE]
         /\ ctx' = [ctx EXCEPT ![s] = "freed"]
    /\ total' = total - 1
    /\ Goto(t, Returned([th[t] EXCEPT !.victim = NULL]))
    /\ UNCHANGED <<refs, slot, inited, Q, quit, fate, kills>>

(* delete_context, skynet_mq_mark_release: a queue that is in nobody's     *)
(* hands goes to the global queue once more, so that a worker drops it.    *)
Delete(t) ==
    /\ At(t, "delete")
    /\ LET s == th[t].victim IN
         /\ mq' = [mq EXCEPT ![s].release = TRUE]
         /\ Q' = IF mq[s].in_global THEN Q ELSE Append(Q, s)
         /\ ctx' = [ctx EXCEPT ![s] = "freed"]
    /\ total' = total - 1
    /\ Goto(t, Returned([th[t] EXCEPT !.victim = NULL]))
    /\ UNCHANGED <<refs, slot, inited, quit, fate, kills>>

-----------------------------------------------------------------------------
(* skynet_send, skynet_context_push: grab, push, release.                  *)

(* Mutant of SendGrab: the context is used without a reference of one's own. *)
SendGrabNoRef(t) ==
    /\ At(t, "send")
    /\ LET d == th[t].dst IN
         \/ /\ d \in slot
            /\ Goto(t, [th[t] EXCEPT !.pc = "push", !.tgt = d])
            /\ UNCHANGED fate
         \/ /\ d \notin slot
            /\ Becomes(th[t].msg, "refused")
            /\ Goto(t, Returned([th[t] EXCEPT !.dst = NULL, !.msg = NULL]))
    /\ UNCHANGED <<kernel, quit, kills>>

(* skynet_handle_grab; a handle that is not in the table makes skynet_send *)
(* free the message.                                                       *)
SendGrab(t) ==
    /\ At(t, "send")
    /\ LET d == th[t].dst IN
         \/ /\ d \in slot
            /\ refs' = [refs EXCEPT ![d] = @ + 1]
            /\ Goto(t, [th[t] EXCEPT !.pc = "push", !.tgt = d])
            /\ UNCHANGED fate
         \/ /\ d \notin slot
            /\ Becomes(th[t].msg, "refused")
            /\ Goto(t, Returned([th[t] EXCEPT !.dst = NULL, !.msg = NULL]))
            /\ UNCHANGED refs
    /\ UNCHANGED <<ctx, slot, inited, mq, Q, total, quit, kills>>

(* skynet_mq_push *)
SendPush(t) ==
    /\ At(t, "push")
    /\ LET d == th[t].tgt IN
         /\ mq' = [mq EXCEPT ![d].msgs = Append(@, th[t].msg), ![d].in_global = TRUE]
         /\ Q' = IF mq[d].in_global THEN Q ELSE Append(Q, d)
    /\ Becomes(th[t].msg, "queued")
    /\ Jump(t, "pushed")
    /\ UNCHANGED <<ctx, refs, slot, inited, total, quit, kills>>

SendRelease(t) ==
    /\ At(t, "pushed")
    /\ Release(t, th[t].tgt, Returned([th[t] EXCEPT !.tgt = NULL, !.dst = NULL, !.msg = NULL]))
    /\ UNCHANGED <<ctx, slot, inited, mq, Q, total, quit, fate, kills>>

(* skynet_monitor_check, skynet_context_endless: the monitor thread holds  *)
(* the context of a callback that does not end while it marks it.          *)
Endless(t, s) ==
    /\ At(t, "cb") /\ t \in Outside /\ ~quit
    /\ s \in slot
    /\ refs' = [refs EXCEPT ![s] = @ + 1]
    /\ Call(t, [th[t] EXCEPT !.tgt = s], "pushed", "cb")
    /\ UNCHANGED <<ctx, slot, inited, mq, Q, total, quit, fate, kills>>

-----------------------------------------------------------------------------
(* What a callback, an init function and the outside threads may do.       *)

(* Send a message: from the service that runs, or, by the timer and the    *)
(* socket thread, with source 0.                                           *)
Send(t, d, m) ==
    /\ th[t].pc \in {"cb", "init"} /\ fate[m] = "unsent"
    /\ t \in Outside => ~quit
    /\ Call(t, [th[t] EXCEPT !.dst = d, !.msg = [src |-> Self(t), id |-> m]], "send", th[t].pc)
    /\ fate' = [fate EXCEPT ![m] = "sending"]
    /\ UNCHANGED <<kernel, quit, kills>>

(* cmd_exit, cmd_kill, handle_exit: tell the monitor, then retire. *)
Kill(t, s) ==
    /\ At(t, "cb") /\ t \in Worker /\ kills < Kills
    /\ kills' = kills + 1
    /\ LET r == [th[t] EXCEPT !.kill = s, !.stack = <<"cb">> \o @]
       IN  IF Monitor = NULL
             THEN Goto(t, [r EXCEPT !.pc = "retire"])
             ELSE Call(t, [r EXCEPT !.dst = Monitor, !.msg = [src |-> s, id |-> NULL]], "send", "retire")
    /\ UNCHANGED <<kernel, quit, fate>>

(* skynet_handle_retire: the table's reference is dropped after the lock.  *)
Retire(t) ==
    /\ At(t, "retire")
    /\ LET s == th[t].kill IN
         \/ /\ s \in slot
            /\ slot' = slot \ {s}
            /\ Release(t, s, Returned([th[t] EXCEPT !.kill = NULL]))
         \/ /\ s \notin slot
            /\ Goto(t, Returned([th[t] EXCEPT !.kill = NULL]))
            /\ UNCHANGED <<slot, refs>>
    /\ UNCHANGED <<ctx, inited, mq, Q, total, quit, fate, kills>>

(* cmd_abort, skynet_handle_retireall: retire what is found until a whole  *)
(* pass finds nothing.                                                     *)
Abort(t) ==
    /\ At(t, "cb") /\ t \in Worker /\ kills < Kills
    /\ kills' = kills + 1
    /\ Call(t, th[t], "abort", "cb")
    /\ UNCHANGED <<kernel, quit, fate>>

RetireAll(t) ==
    /\ At(t, "abort")
    /\ \/ \E s \in slot : Call(t, [th[t] EXCEPT !.kill = s], "retire", "abort")
       \/ slot = {} /\ Goto(t, Returned(th[t]))
    /\ UNCHANGED <<kernel, quit, fate, kills>>

(* cmd_launch, skynet_context_new up to the init function: one reference   *)
(* for the table and one for the launching thread; in_global is set, so    *)
(* that no sender hands the queue out.                                     *)
Launch(t, s) ==
    /\ At(t, "cb") /\ t \in Worker /\ ctx[s] = "none"
    /\ ctx' = [ctx EXCEPT ![s] = "alive"]
    /\ refs' = [refs EXCEPT ![s] = 2]
    /\ slot' = slot \cup {s}
    /\ mq' = [mq EXCEPT ![s] = [msgs |-> << >>, in_global |-> TRUE, release |-> FALSE, freed |-> FALSE]]
    /\ total' = total + 1
    /\ Call(t, [th[t] EXCEPT !.new = s, !.queue = s], "init", "cb")
    /\ UNCHANGED <<inited, Q, quit, fate, kills>>

(* The init function returns 0: the launching thread's reference goes. *)
InitOk(t) ==
    /\ At(t, "init")
    /\ Release(t, th[t].new, [th[t] EXCEPT !.pc = "launched", !.new = NULL])
    /\ UNCHANGED <<ctx, slot, inited, mq, Q, total, quit, fate, kills>>

(* Set init unless the context is gone, and hand the queue out all the same. *)
Launched(t) ==
    /\ At(t, "launched")
    /\ inited' = IF ctx[th[t].queue] = "alive" THEN inited \cup {th[t].queue} ELSE inited
    /\ Q' = Append(Q, th[t].queue)
    /\ Goto(t, Returned([th[t] EXCEPT !.queue = NULL]))
    /\ UNCHANGED <<ctx, refs, slot, mq, total, quit, fate, kills>>

(* The init function fails: release, retire, then release the queue. *)
InitFail(t) ==
    /\ At(t, "init")
    /\ Release(t, th[t].new, [th[t] EXCEPT !.pc = "retire", !.kill = th[t].new, !.new = NULL,
                                           !.stack = <<"failed">> \o @])
    /\ UNCHANGED <<ctx, slot, inited, mq, Q, total, quit, fate, kills>>

InitFailed(t) ==
    /\ At(t, "failed")
    /\ Goto(t, [th[t] EXCEPT !.pc = "mq_release", !.dq = th[t].queue, !.queue = NULL])
    /\ UNCHANGED <<kernel, quit, fate, kills>>

-----------------------------------------------------------------------------
(* skynet_mq_release: drop the queue of a deleted context, or hand it out  *)
(* again while somebody still holds the context.                           *)

MqRelease(t) ==
    /\ At(t, "mq_release")
    /\ LET s == th[t].dq IN
         \/ /\ mq[s].release
            /\ Jump(t, "drop")
            /\ UNCHANGED Q
         \/ /\ ~mq[s].release
            /\ Q' = Append(Q, s)
            /\ Goto(t, Returned([th[t] EXCEPT !.dq = NULL]))
    /\ UNCHANGED <<ctx, refs, slot, inited, mq, total, quit, fate, kills>>

(* _drop_queue, drop_message: every message is answered by an error to its *)
(* source; then the queue is freed.                                        *)
Drop(t) ==
    /\ At(t, "drop")
    /\ LET s == th[t].dq
           ms == mq[s].msgs
       IN  \/ /\ ms = << >>
              /\ mq' = [mq EXCEPT ![s].freed = TRUE, ![s].in_global = FALSE]
              /\ Goto(t, Returned([th[t] EXCEPT !.dq = NULL]))
              /\ UNCHANGED fate
           \/ /\ ms # << >>
              /\ mq' = [mq EXCEPT ![s].msgs = Tail(ms)]
              /\ Becomes(Head(ms), "dropped")
              /\ IF Head(ms).src = NULL
                   THEN UNCHANGED th
                   ELSE Call(t, [th[t] EXCEPT !.dst = Head(ms).src, !.msg = [src |-> s, id |-> NULL]],
                             "send", "drop")
    /\ UNCHANGED <<ctx, refs, slot, inited, Q, total, quit, kills>>

-----------------------------------------------------------------------------
(* thread_worker and skynet_context_message_dispatch                       *)

(* skynet_globalmq_pop: at the head of message_dispatch, when the worker    *)
(* has no queue ("idle"), or in its return statement ("repop").             *)
WorkerPop(w) ==
    /\ th[w].q = NULL
    /\ (At(w, "idle") /\ ~quit) \/ At(w, "repop")
    /\ \/ /\ Q # << >>
          /\ Q' = Tail(Q)
          /\ Goto(w, [th[w] EXCEPT !.q = Head(Q), !.pc = IF @ = "idle" THEN "grab" ELSE "idle"])
       \/ /\ Q = << >>
          /\ Jump(w, "tired")
          /\ UNCHANGED Q
    /\ UNCHANGED <<ctx, refs, slot, inited, mq, total, quit, fate, kills>>

WorkerAgain(w) ==
    /\ At(w, "idle") /\ ~quit /\ th[w].q # NULL
    /\ Jump(w, "grab")
    /\ UNCHANGED <<kernel, quit, fate, kills>>

WorkerExit(w) ==
    /\ At(w, "idle") /\ quit
    /\ Jump(w, "exit")
    /\ UNCHANGED <<kernel, quit, fate, kills>>

(* A worker that found no queue waits for the condition, unless m->quit. *)
Sleep(w) ==
    /\ At(w, "tired")
    /\ Jump(w, IF quit THEN "idle" ELSE "asleep")
    /\ UNCHANGED <<kernel, quit, fate, kills>>

(* Mutant of Wakeup: only while another worker is busy. *)
WakeupBusy(w) ==
    /\ At(w, "asleep") /\ ~quit
    /\ \E v \in Worker : ~At(v, "asleep")
    /\ Jump(w, "idle")
    /\ UNCHANGED <<kernel, quit, fate, kills>>

(* wakeup by the timer thread (whenever one sleeps) or by the socket thread *)
(* (when all sleep), or a spurious one; none after the timer thread ended.  *)
Wakeup(w) ==
    /\ At(w, "asleep") /\ ~quit
    /\ Jump(w, "idle")
    /\ UNCHANGED <<kernel, quit, fate, kills>>

(* thread_timer, CHECK_ABORT: without a context the node shuts down. *)
Shutdown ==
    /\ total = 0 /\ ~quit
    /\ quit' = TRUE
    /\ th' = [t \in Threads |-> IF At(t, "asleep") THEN [th[t] EXCEPT !.pc = "idle"] ELSE th[t]]
    /\ UNCHANGED <<kernel, fate, kills>>

DispatchGrab(w) ==
    /\ At(w, "grab")
    /\ LET s == th[w].q IN
         \/ /\ s \in slot
            /\ refs' = [refs EXCEPT ![s] = @ + 1]
            /\ Goto(w, [th[w] EXCEPT !.pc = "pop", !.ctx = s, !.n = 1, !.first = TRUE])
         \/ /\ s \notin slot
            /\ Call(w, [th[w] EXCEPT !.dq = s, !.q = NULL], "mq_release", "repop")
            /\ UNCHANGED refs
    /\ UNCHANGED <<ctx, slot, inited, mq, Q, total, quit, fate, kills>>

(* The next message of the batch, of size known after the first pop. *)
Dispatched(w, ms) ==
    /\ Becomes(Head(ms), "dispatched")
    /\ Goto(w, [th[w] EXCEPT !.pc = IF th[w].first /\ Weight[w] >= 0 THEN "length" ELSE "cb",
                             !.first = FALSE, !.n = @ - 1])

(* skynet_mq_pop: an empty queue is in nobody's hands from now on. *)
DispatchPop(w) ==
    /\ At(w, "pop")
    /\ LET s == th[w].q
           ms == mq[s].msgs
       IN  \/ /\ ms = << >>
              /\ mq' = [mq EXCEPT ![s].in_global = FALSE]
              /\ Goto(w, [th[w] EXCEPT !.pc = "empty", !.q = NULL, !.n = 0, !.first = FALSE])
              /\ UNCHANGED fate
           \/ /\ ms # << >>
              /\ mq' = [mq EXCEPT ![s].msgs = Tail(ms)]
              /\ Dispatched(w, ms)
    /\ UNCHANGED <<ctx, refs, slot, inited, Q, total, quit, kills>>

(* n >> k, for the weights of skynet_start.c. *)
ShiftRight(n, k) == n \div <<1, 2, 4, 8>>[k + 1]

(* Mutant of DispatchLength: the shift that leaves 0 is not looked at. *)
DispatchLengthBelow(w) ==
    /\ At(w, "length")
    /\ Goto(w, [th[w] EXCEPT !.pc = "cb", !.n = ShiftRight(Len(mq[th[w].q].msgs), Weight[w]) - 1])
    /\ UNCHANGED <<kernel, quit, fate, kills>>

(* n = skynet_mq_length(q) >> weight, of which one is dispatched already. *)
DispatchLength(w) ==
    /\ At(w, "length")
    /\ LET n == ShiftRight(Len(mq[th[w].q].msgs), Weight[w])
       IN  Goto(w, [th[w] EXCEPT !.pc = "cb", !.n = IF n = 0 THEN 0 ELSE n - 1])
    /\ UNCHANGED <<kernel, quit, fate, kills>>

DispatchEmpty(w) ==
    /\ At(w, "empty")
    /\ Release(w, th[w].ctx, [th[w] EXCEPT !.pc = "repop", !.ctx = NULL])
    /\ UNCHANGED <<ctx, slot, inited, mq, Q, total, quit, fate, kills>>

(* The callback returns. *)
CallbackReturn(w) ==
    /\ At(w, "cb") /\ w \in Worker
    /\ Jump(w, IF th[w].n > 0 THEN "pop" ELSE "next")
    /\ UNCHANGED <<kernel, quit, fate, kills>>

(* Enough dispatched: take the next queue, or keep this one. *)
DispatchNext(w) ==
    /\ At(w, "next")
    /\ \/ /\ Q # << >>
          /\ Q' = Tail(Q)
          /\ Goto(w, [th[w] EXCEPT !.pc = "push_back", !.nq = Head(Q)])
       \/ /\ Q = << >>
          /\ Jump(w, "done")
          /\ UNCHANGED Q
    /\ UNCHANGED <<ctx, refs, slot, inited, mq, total, quit, fate, kills>>

(* skynet_globalmq_push(q); q = nq; the context is still grabbed. *)
DispatchPushBack(w) ==
    /\ At(w, "push_back")
    /\ Q' = Append(Q, th[w].q)
    /\ Goto(w, [th[w] EXCEPT !.pc = "done", !.q = th[w].nq, !.nq = NULL])
    /\ UNCHANGED <<ctx, refs, slot, inited, mq, total, quit, fate, kills>>

DispatchDone(w) ==
    /\ At(w, "done")
    /\ Release(w, th[w].ctx, [th[w] EXCEPT !.pc = "idle", !.ctx = NULL])
    /\ UNCHANGED <<ctx, slot, inited, mq, Q, total, quit, fate, kills>>

-----------------------------------------------------------------------------
(* What a thread does by itself once it is in the kernel. *)
Steps(t) ==
    \/ Delete(t) \/ SendGrab(t) \/ SendPush(t) \/ SendRelease(t) \/ Retire(t) \/ RetireAll(t)
    \/ Launched(t) \/ InitFailed(t) \/ MqRelease(t) \/ Drop(t)

WorkerSteps(w) ==
    \/ WorkerPop(w) \/ WorkerAgain(w) \/ WorkerExit(w) \/ Sleep(w)
    \/ DispatchGrab(w) \/ DispatchPop(w) \/ DispatchLength(w) \/ DispatchEmpty(w)
    \/ CallbackReturn(w) \/ DispatchNext(w) \/ DispatchPushBack(w) \/ DispatchDone(w)

(* The process ends when its threads have ended. *)
Finished == quit /\ UNCHANGED serverVars

ServerNext ==
    \/ \E t \in Threads : Steps(t)
    \/ \E w \in Worker : WorkerSteps(w) \/ Wakeup(w) \/ InitOk(w) \/ InitFail(w) \/ Abort(w)
    \/ \E t \in Threads, d \in Service, m \in Message : Send(t, d, m)
    \/ \E t \in Threads, s \in Service : Kill(t, s) \/ Launch(t, s) \/ Endless(t, s)
    \/ Shutdown
    \/ Finished

ServerSpec == ServerInit /\ [][ServerNext]_serverVars

(* A thread that can go on does; callbacks and init functions return; the   *)
(* timer thread wakes one sleeper every tick and ends when no context is    *)
(* left.                                                                    *)
ServerFairness ==
    /\ \A t \in Threads : WF_serverVars(Steps(t))
    /\ \A w \in Worker : WF_serverVars(WorkerSteps(w)) /\ WF_serverVars(InitOk(w) \/ InitFail(w))
    /\ WF_serverVars(\E w \in Worker : Wakeup(w))
    /\ WF_serverVars(Shutdown)

ServerFairSpec == ServerSpec /\ ServerFairness

-----------------------------------------------------------------------------
Labels == {"idle", "repop", "tired", "asleep", "exit", "grab", "pop", "length", "cb", "empty",
           "next", "push_back", "done", "send", "push", "pushed", "retire", "abort", "init",
           "launched", "failed", "mq_release", "drop", "delete"}
Opt == Service \cup {NULL}
Msg == [src : Opt, id : Message \cup {NULL}]
Locals == [pc : Labels, stack : Seq(Labels), ctx : Opt, q : Opt, nq : Opt, n : Nat, first : BOOLEAN,
           new : Opt, queue : Opt, tgt : Opt, dst : Opt, msg : Msg \cup {NULL}, kill : Opt, dq : Opt,
           victim : Opt]

(* Every variable has its type. *)
ServerTypeOK ==
    /\ ctx \in [Service -> {"none", "alive", "freed"}]
    /\ refs \in [Service -> Nat]
    /\ slot \subseteq Service /\ inited \subseteq Service
    /\ mq \in [Service -> [msgs : Seq(Msg), in_global : BOOLEAN, release : BOOLEAN, freed : BOOLEAN]]
    /\ Q \in Seq(Service)
    /\ total \in Int /\ quit \in BOOLEAN
    /\ th \in [Threads -> Locals]
    /\ fate \in [Message -> {"unsent", "sending", "queued", "dispatched", "dropped", "refused"}]
    /\ kills \in Nat

(* The references to s that threads own. *)
Holders(s) == {h \in Threads \X {"ctx", "new", "tgt"} : th[h[1]][h[2]] = s}

(* skynet_context_grab and _release: the count of a context is the number   *)
(* of references that threads own and the one of the handle table; so no    *)
(* thread touches a context that was freed, and none is kept for ever.      *)
RefCount ==
    \A s \in Service :
        /\ refs[s] = Cardinality(Holders(s)) + (IF s \in slot THEN 1 ELSE 0)
        /\ refs[s] > 0 => ctx[s] = "alive"
        /\ ctx[s] = "alive" /\ refs[s] = 0 => \E t \in Threads : At(t, "delete") /\ th[t].victim = s

(* The places where the queue of s is: a position of the global queue, or a *)
(* local of a thread.                                                       *)
Places(s) == {<<"Q", i>> : i \in {j \in 1..Len(Q) : Q[j] = s}}
             \cup {h \in Threads \X {"q", "nq", "queue", "dq"} : th[h[1]][h[2]] = s}

(* A message queue is in the global queue, or in the hands of one thread,   *)
(* and in no two places at once: two workers never run the same service.    *)
OneWorkerPerQueue == \A s \in Service : \A p1, p2 \in Places(s) : p1 = p2

(* skynet_mq_push, _pop and _mark_release: a queue with messages, or whose  *)
(* context was deleted, is somewhere a worker will find it, until it is     *)
(* freed; and a queue that was freed is nowhere.                            *)
NoQueueLost ==
    \A s \in Service :
        /\ ~mq[s].freed /\ (mq[s].msgs # << >> \/ mq[s].release) => Places(s) # {}
        /\ mq[s].freed => Places(s) = {} /\ mq[s].msgs = << >> /\ ctx[s] # "alive"

(* dispatch_message's assertion: no callback runs before init is set. *)
DispatchedAfterInit ==
    \A w \in Worker : At(w, "cb") => th[w].ctx \in inited

(* From its init to its end a service's queue is run by one worker at a     *)
(* time, and it is never lost.                                              *)
QueueSafe == OneWorkerPerQueue /\ NoQueueLost /\ DispatchedAfterInit

(* A message in a queue is dispatched or dropped, unless the node ends. *)
QueuedIsHandled == \A m \in Message : fate[m] = "queued" ~> (fate[m] # "queued" \/ quit)

(* When the last context is gone every worker leaves its loop. *)
WorkersLeave == total = 0 ~> \A w \in Worker : At(w, "exit")

(* A service that was killed is deleted at last. *)
RetiredIsDeleted ==
    \A s \in Service : ctx[s] = "alive" /\ s \notin slot ~> ctx[s] = "freed"

(* Whatever the threads do, the node gets on: messages are handled, killed  *)
(* services deleted, and in the end the workers leave.                      *)
ServerLive == QueuedIsHandled /\ RetiredIsDeleted /\ WorkersLeave
=============================================================================
