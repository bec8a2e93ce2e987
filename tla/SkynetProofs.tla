---------------------------- MODULE SkynetProofs ----------------------------
(***************************************************************************)
(* The proofs about a skynet node, in two parts.                           *)
(*   - SkynetServer: the scheduler keeps the types of its variables, counts*)
(*     the references to a context right and never loses or doubles a      *)
(*     message queue, for any number of services, threads and messages.    *)
(*   - SkynetLua: in a Lua service with any number of coroutines, sessions *)
(*     and requests, no coroutine that waits is forgotten, no queue is     *)
(*     left unserved between messages, and no request is answered twice or *)
(*     left to an exit.                                                    *)
(***************************************************************************)
EXTENDS SkynetServer, SkynetLua, FiniteSetTheorems, TLAPS

-----------------------------------------------------------------------------
(* The scheduler (SkynetServer).                                           *)

(* The stacks a thread can have: what it goes on with when a function of   *)
(* the kernel returns.  At the bottom is the callback, or the loop of the  *)
(* worker that dispatches.                                                 *)
StCb == <<"cb">>
StIdle == <<"idle">>
StRepop == <<"repop">>
StInit == <<"init">> \o StCb
StLaunched == <<"launched">> \o StCb
StFailed == <<"failed">> \o StCb
StAbort == <<"abort">> \o StCb
StRetire == <<"retire">> \o StCb
StFailedRetire == <<"retire">> \o StFailed
StDrop == <<"drop">> \o StCb
StRepopDrop == <<"drop">> \o StRepop

(* Labels of thread_worker and message_dispatch, below which nothing is. *)
Bottom == {"idle", "repop", "tired", "asleep", "exit", "grab", "pop", "length", "cb", "empty",
           "next", "push_back", "done"}

(* Where a function can have been called from. *)
Shape(pc, st) ==
    /\ pc \in Bottom => st = << >>
    /\ pc \in {"init", "launched", "failed", "abort"} => st = StCb
    /\ pc = "retire" => st \in {StCb, StAbort, StFailed}
    /\ pc \in {"mq_release", "drop"} => st \in {StCb, StRepop}
    /\ pc \in {"send", "push", "pushed"} => st \in {StCb, StRetire, StInit, StDrop, StRepopDrop}
    /\ pc = "delete" => st \in {StCb, StRetire, StInit, StDrop, StRepopDrop, StIdle, StRepop,
                                StLaunched, StFailed, StFailedRetire, StAbort}

(* The thread is at a label, or in what was called there. *)
InCb(pc, st) == pc = "cb" \/ st \in {StCb, StInit, StLaunched, StFailed, StAbort, StRetire,
                                     StFailedRetire, StDrop}
InRepop(pc, st) == pc = "repop" \/ st \in {StRepop, StRepopDrop}
InInit(pc, st) == pc = "init" \/ st = StInit
InLaunched(pc, st) == pc = "launched" \/ st = StLaunched
InFailed(pc, st) == pc = "failed" \/ st \in {StFailed, StFailedRetire}
InRetire(pc, st) == pc = "retire" \/ st \in {StRetire, StFailedRetire}
InDrop(pc, st) == pc = "drop" \/ st \in {StDrop, StRepopDrop}

(* Which locals name something, and when: those that own a reference, and  *)
(* those that hold a queue, are set where the thread is to give it back.   *)
CalleeSet(r) ==
    /\ r.nq # NULL <=> r.pc = "push_back"
    /\ r.new # NULL <=> InInit(r.pc, r.stack)
    /\ r.queue # NULL <=> \/ InInit(r.pc, r.stack) \/ InLaunched(r.pc, r.stack)
                          \/ InFailed(r.pc, r.stack)
    /\ r.new # NULL => r.new = r.queue
    /\ r.tgt # NULL <=> r.pc \in {"push", "pushed"}
    /\ r.pc \in {"send", "push"} => r.dst # NULL /\ r.msg \in Msg
    /\ r.kill # NULL <=> InRetire(r.pc, r.stack)
    /\ r.kill # NULL /\ InFailed(r.pc, r.stack) => r.kill = r.queue
    /\ r.dq # NULL <=> r.pc = "mq_release" \/ InDrop(r.pc, r.stack)
    /\ r.victim # NULL <=> r.pc = "delete"
    /\ r.pc = "pop" => r.n > 0

(* A worker owns the context and holds the queue it dispatches for; the    *)
(* other threads have none.                                                *)
LoopSet(t, r) ==
    LET inCb == InCb(r.pc, r.stack) IN
    /\ t \in Worker =>
         /\ r.ctx # NULL <=> inCb \/ r.pc \in {"pop", "length", "empty", "next", "push_back", "done"}
         /\ inCb \/ r.pc \in {"pop", "length", "next", "push_back"} => r.q = r.ctx
         /\ r.pc \in {"grab", "done"} => r.q # NULL
         /\ r.pc = "length" => Weight[t] >= 0
         /\ InRepop(r.pc, r.stack) \/ r.pc \in {"tired", "asleep", "empty"} => r.q = NULL
    /\ t \notin Worker => inCb /\ r.ctx = NULL /\ r.q = NULL

ThreadOK(t, r) == Shape(r.pc, r.stack) /\ CalleeSet(r) /\ LoopSet(t, r)
ThreadsOK == \A t \in Threads : ThreadOK(t, th[t])

(* RefCount, with the thread that deletes a context named by its local; a   *)
(* context that a thread is about to delete has no other reference, and no  *)
(* other thread deletes it.                                                 *)
RefInv ==
    /\ \A s \in Service :
          /\ refs[s] = Cardinality(Holders(s)) + (IF s \in slot THEN 1 ELSE 0)
          /\ refs[s] > 0 => ctx[s] = "alive"
          /\ ctx[s] = "alive" /\ refs[s] = 0 => \E t \in Threads : th[t].victim = s
    /\ \A t \in Threads : th[t].victim # NULL =>
          refs[th[t].victim] = 0 /\ ctx[th[t].victim] = "alive"
    /\ \A t, u \in Threads : th[t].victim = th[u].victim /\ th[t].victim # NULL => t = u

(* What the threads hold, of the queues. *)
HandNames == {"q", "nq", "queue", "dq"}
Hands == Threads \X HandNames
hand == [h \in Hands |-> th[h[1]][h[2]]]

(* No two positions of the global queue g and hands h have the same queue. *)
Apart(g, h) ==
    /\ \A i, j \in 1..Len(g) : g[i] = g[j] => i = j
    /\ \A a, b \in DOMAIN h : h[a] = h[b] /\ h[a] # NULL => a = b
    /\ \A i \in 1..Len(g), a \in DOMAIN h : h[a] # g[i]

(* The queue of s is in the global queue g or in one of the hands h. *)
Found(s, g, h) == (\E i \in 1..Len(g) : g[i] = s) \/ (\E a \in DOMAIN h : h[a] = s)

(* The flags of a queue tell whether it is somewhere. *)
QueueFlags ==
    \A s \in Service :
        /\ mq[s].release <=> ctx[s] = "freed"
        /\ ctx[s] = "none" => mq[s].freed
        /\ mq[s].freed => ctx[s] # "alive" /\ mq[s].msgs = << >> /\ ~Found(s, Q, hand)
        /\ ~mq[s].freed /\ (mq[s].in_global \/ mq[s].release) => Found(s, Q, hand)
        /\ Found(s, Q, hand) => mq[s].in_global \/ mq[s].release
        /\ mq[s].msgs # << >> => mq[s].in_global \/ mq[s].release

(* A queue is only dropped when its context is gone; mq_release is only    *)
(* called for a handle that was retired.                                   *)
DropsRetired ==
    \A t \in Threads :
        /\ InDrop(th[t].pc, th[t].stack) => mq[th[t].dq].release
        /\ th[t].dq # NULL => th[t].dq \notin slot
        /\ InFailed(th[t].pc, th[t].stack) /\ th[t].kill = NULL => th[t].queue \notin slot

(* A queue that workers can find belongs to a context whose init is set,   *)
(* unless its handle was retired; and so does the context a thread runs,   *)
(* and a queue that was emptied.                                           *)
FoundInited ==
    /\ \A s \in slot : ~mq[s].in_global => s \in inited
    /\ \A i \in 1..Len(Q) : Q[i] \in slot => Q[i] \in inited
    /\ \A t \in Threads : /\ th[t].q \in slot => th[t].q \in inited
                          /\ th[t].nq \in slot => th[t].nq \in inited
                          /\ th[t].ctx # NULL => th[t].ctx \in inited

QueueInv == Apart(Q, hand) /\ QueueFlags /\ DropsRetired /\ FoundInited

ServerInv == ServerTypeOK /\ ThreadsOK /\ RefInv /\ QueueInv

(* ------------------------------------------------------------------------ *)
(* Calls and returns.                                                       *)

LEMMA PushPop ==
    ASSUME NEW l \in Labels, NEW s \in Seq(Labels)
    PROVE  /\ <<l>> \o s \in Seq(Labels) /\ <<l>> \o s # << >>
           /\ Head(<<l>> \o s) = l /\ Tail(<<l>> \o s) = s
  OBVIOUS

(* The stacks, told apart by their heads and tails. *)
StackFacts ==
    /\ << >> \in Seq(Labels)
    /\ StCb \in Seq(Labels) /\ StCb # << >> /\ Head(StCb) = "cb" /\ Tail(StCb) = << >>
    /\ StIdle \in Seq(Labels) /\ StIdle # << >> /\ Head(StIdle) = "idle" /\ Tail(StIdle) = << >>
    /\ StRepop \in Seq(Labels) /\ StRepop # << >> /\ Head(StRepop) = "repop" /\ Tail(StRepop) = << >>
    /\ StInit \in Seq(Labels) /\ StInit # << >> /\ Head(StInit) = "init" /\ Tail(StInit) = StCb
    /\ StLaunched \in Seq(Labels) /\ StLaunched # << >>
    /\ Head(StLaunched) = "launched" /\ Tail(StLaunched) = StCb
    /\ StFailed \in Seq(Labels) /\ StFailed # << >> /\ Head(StFailed) = "failed" /\ Tail(StFailed) = StCb
    /\ StAbort \in Seq(Labels) /\ StAbort # << >> /\ Head(StAbort) = "abort" /\ Tail(StAbort) = StCb
    /\ StRetire \in Seq(Labels) /\ StRetire # << >> /\ Head(StRetire) = "retire" /\ Tail(StRetire) = StCb
    /\ StFailedRetire \in Seq(Labels) /\ StFailedRetire # << >>
    /\ Head(StFailedRetire) = "retire" /\ Tail(StFailedRetire) = StFailed
    /\ StDrop \in Seq(Labels) /\ StDrop # << >> /\ Head(StDrop) = "drop" /\ Tail(StDrop) = StCb
    /\ StRepopDrop \in Seq(Labels) /\ StRepopDrop # << >>
    /\ Head(StRepopDrop) = "drop" /\ Tail(StRepopDrop) = StRepop

LEMMA Stacks == StackFacts
<1> /\ << >> \in Seq(Labels) /\ "cb" \in Labels /\ "idle" \in Labels /\ "repop" \in Labels
    /\ "init" \in Labels /\ "launched" \in Labels /\ "failed" \in Labels /\ "abort" \in Labels
    /\ "retire" \in Labels /\ "drop" \in Labels
  BY DEF Labels
<1>1. StCb \in Seq(Labels) /\ StCb # << >> /\ Head(StCb) = "cb" /\ Tail(StCb) = << >>
  BY DEF StCb
<1>2. StIdle \in Seq(Labels) /\ StIdle # << >> /\ Head(StIdle) = "idle" /\ Tail(StIdle) = << >>
  BY DEF StIdle
<1>3. StRepop \in Seq(Labels) /\ StRepop # << >> /\ Head(StRepop) = "repop" /\ Tail(StRepop) = << >>
  BY DEF StRepop
<1>4. StInit \in Seq(Labels) /\ StInit # << >> /\ Head(StInit) = "init" /\ Tail(StInit) = StCb
  BY <1>1, PushPop DEF StInit
<1>5. /\ StLaunched \in Seq(Labels) /\ StLaunched # << >>
      /\ Head(StLaunched) = "launched" /\ Tail(StLaunched) = StCb
  BY <1>1, PushPop DEF StLaunched
<1>6. StFailed \in Seq(Labels) /\ StFailed # << >> /\ Head(StFailed) = "failed" /\ Tail(StFailed) = StCb
  BY <1>1, PushPop DEF StFailed
<1>7. StAbort \in Seq(Labels) /\ StAbort # << >> /\ Head(StAbort) = "abort" /\ Tail(StAbort) = StCb
  BY <1>1, PushPop DEF StAbort
<1>8. StRetire \in Seq(Labels) /\ StRetire # << >> /\ Head(StRetire) = "retire" /\ Tail(StRetire) = StCb
  BY <1>1, PushPop DEF StRetire
<1>9. StDrop \in Seq(Labels) /\ StDrop # << >> /\ Head(StDrop) = "drop" /\ Tail(StDrop) = StCb
  BY <1>1, PushPop DEF StDrop
<1>10. /\ StFailedRetire \in Seq(Labels) /\ StFailedRetire # << >>
       /\ Head(StFailedRetire) = "retire" /\ Tail(StFailedRetire) = StFailed
  BY <1>6, PushPop DEF StFailedRetire
<1>11. /\ StRepopDrop \in Seq(Labels) /\ StRepopDrop # << >>
       /\ Head(StRepopDrop) = "drop" /\ Tail(StRepopDrop) = StRepop
  BY <1>3, PushPop DEF StRepopDrop
<1> QED
  BY <1>1, <1>2, <1>3, <1>4, <1>5, <1>6, <1>7, <1>8, <1>9, <1>10, <1>11 DEF StackFacts

(* No two of them are equal. *)
StacksDiffer ==
    /\ << >> \notin {StCb, StIdle, StRepop, StInit, StLaunched, StFailed, StAbort, StRetire,
                     StFailedRetire, StDrop, StRepopDrop}
    /\ StCb \notin {StIdle, StRepop, StInit, StLaunched, StFailed, StAbort, StRetire,
                    StFailedRetire, StDrop, StRepopDrop}
    /\ StIdle \notin {StRepop, StInit, StLaunched, StFailed, StAbort, StRetire, StFailedRetire,
                      StDrop, StRepopDrop}
    /\ StRepop \notin {StInit, StLaunched, StFailed, StAbort, StRetire, StFailedRetire, StDrop,
                       StRepopDrop}
    /\ StInit \notin {StLaunched, StFailed, StAbort, StRetire, StFailedRetire, StDrop, StRepopDrop}
    /\ StLaunched \notin {StFailed, StAbort, StRetire, StFailedRetire, StDrop, StRepopDrop}
    /\ StFailed \notin {StAbort, StRetire, StFailedRetire, StDrop, StRepopDrop}
    /\ StAbort \notin {StRetire, StFailedRetire, StDrop, StRepopDrop}
    /\ StRetire \notin {StFailedRetire, StDrop, StRepopDrop}
    /\ StFailedRetire \notin {StDrop, StRepopDrop}
    /\ StDrop \notin {StRepopDrop}

LEMMA Differ == StacksDiffer
  BY Stacks DEF StackFacts, StacksDiffer

(* A label at which a function of the kernel can return. *)
Callers == {"cb", "idle", "repop", "init", "launched", "failed", "abort", "retire", "drop"}

(* A return: the thread is where it was, without the function that ends. *)
LEMMA PopFrame ==
    ASSUME NEW pc \in Labels, NEW st \in Seq(Labels), Shape(pc, st), st # << >>
    PROVE  /\ Shape(Head(st), Tail(st)) /\ Head(st) \in Callers
           /\ InCb(Head(st), Tail(st)) <=> InCb(pc, st)
           /\ InRepop(Head(st), Tail(st)) <=> InRepop(pc, st)
           /\ InInit(Head(st), Tail(st)) <=> InInit(pc, st) /\ pc # "init"
           /\ InLaunched(Head(st), Tail(st)) <=> InLaunched(pc, st) /\ pc # "launched"
           /\ InFailed(Head(st), Tail(st)) <=> InFailed(pc, st) /\ pc # "failed"
           /\ InRetire(Head(st), Tail(st)) <=> InRetire(pc, st) /\ pc # "retire"
           /\ InDrop(Head(st), Tail(st)) <=> InDrop(pc, st) /\ pc # "drop"
<1> DEFINE h == Head(st)
           d == Tail(st)
<1>1. \/ pc \in {"init", "launched", "failed", "abort"} /\ st = StCb
      \/ pc = "retire" /\ st \in {StCb, StAbort, StFailed}
      \/ pc \in {"mq_release", "drop"} /\ st \in {StCb, StRepop}
      \/ pc \in {"send", "push", "pushed"} /\ st \in {StCb, StRetire, StInit, StDrop, StRepopDrop}
      \/ pc = "delete" /\ st \in {StCb, StRetire, StInit, StDrop, StRepopDrop, StIdle, StRepop,
                                  StLaunched, StFailed, StFailedRetire, StAbort}
  BY DEF Shape, Labels, Bottom
<1>2. /\ st = StCb => h = "cb" /\ d = << >>
      /\ st = StIdle => h = "idle" /\ d = << >>
      /\ st = StRepop => h = "repop" /\ d = << >>
      /\ st = StInit => h = "init" /\ d = StCb
      /\ st = StLaunched => h = "launched" /\ d = StCb
      /\ st = StFailed => h = "failed" /\ d = StCb
      /\ st = StAbort => h = "abort" /\ d = StCb
      /\ st = StRetire => h = "retire" /\ d = StCb
      /\ st = StFailedRetire => h = "retire" /\ d = StFailed
      /\ st = StDrop => h = "drop" /\ d = StCb
      /\ st = StRepopDrop => h = "drop" /\ d = StRepop
  BY Stacks DEF StackFacts
<1> HIDE DEF h, d
<1>3. Shape(h, d) /\ h \in Callers
  BY <1>1, <1>2 DEF Shape, Bottom, Callers
<1>4. InCb(h, d) <=> InCb(pc, st)
  BY <1>1, <1>2, Differ DEF StacksDiffer, InCb
<1>5. InRepop(h, d) <=> InRepop(pc, st)
  BY <1>1, <1>2, Differ DEF StacksDiffer, InRepop
<1>6. InInit(h, d) <=> InInit(pc, st) /\ pc # "init"
  BY <1>1, <1>2, Differ DEF StacksDiffer, InInit
<1>7. InLaunched(h, d) <=> InLaunched(pc, st) /\ pc # "launched"
  BY <1>1, <1>2, Differ DEF StacksDiffer, InLaunched
<1>8. InFailed(h, d) <=> InFailed(pc, st) /\ pc # "failed"
  BY <1>1, <1>2, Differ DEF StacksDiffer, InFailed
<1>9. InRetire(h, d) <=> InRetire(pc, st) /\ pc # "retire"
  BY <1>1, <1>2, Differ DEF StacksDiffer, InRetire
<1>10. InDrop(h, d) <=> InDrop(pc, st) /\ pc # "drop"
  BY <1>1, <1>2, Differ DEF StacksDiffer, InDrop
<1> QED
  BY <1>3, <1>4, <1>5, <1>6, <1>7, <1>8, <1>9, <1>10 DEF h, d

(* Which function is called at which label; a context can be deleted at    *)
(* any of them.                                                            *)
MayCall(pc, st, callee) ==
    \/ pc = "cb" /\ callee \in {"send", "pushed", "retire", "abort", "init"}
    \/ pc \in {"init", "drop"} /\ callee = "send"
    \/ pc = "retire" /\ st = StCb /\ callee = "send"
    \/ pc \in {"abort", "failed"} /\ callee = "retire"
    \/ pc = "repop" /\ callee = "mq_release"
    \/ pc \in Callers /\ st # StAbort /\ callee = "delete"

(* A call: the thread is where it was, and in the function called. *)
LEMMA PushFrame ==
    ASSUME NEW pc \in Labels, NEW st \in Seq(Labels), Shape(pc, st), NEW callee \in Labels,
           MayCall(pc, st, callee)
    PROVE  LET up == <<pc>> \o st IN
           /\ Shape(callee, up) /\ up \in Seq(Labels)
           /\ InCb(callee, up) <=> InCb(pc, st)
           /\ InRepop(callee, up) <=> InRepop(pc, st)
           /\ InInit(callee, up) <=> InInit(pc, st) \/ callee = "init"
           /\ InLaunched(callee, up) <=> InLaunched(pc, st)
           /\ InFailed(callee, up) <=> InFailed(pc, st)
           /\ InRetire(callee, up) <=> InRetire(pc, st) \/ callee = "retire"
           /\ InDrop(callee, up) <=> InDrop(pc, st)
<1> DEFINE up == <<pc>> \o st
<1> StackFacts
  BY Stacks
<1>0. up \in Seq(Labels) /\ up # << >> /\ Head(up) = pc /\ Tail(up) = st
  BY PushPop
<1>1. /\ pc = "cb" => up = StCb
      /\ pc = "idle" => up = StIdle
      /\ pc = "repop" => up = StRepop
      /\ pc = "init" => up = StInit
      /\ pc = "launched" => up = StLaunched
      /\ pc = "failed" => up = StFailed
      /\ pc = "abort" => up = StAbort
      /\ pc = "retire" => \/ st = StCb /\ up = StRetire
                          \/ st = StFailed /\ up = StFailedRetire
                          \/ st = StAbort
      /\ pc = "drop" => \/ st = StCb /\ up = StDrop
                        \/ st = StRepop /\ up = StRepopDrop
  <2>1. pc \in {"cb", "idle", "repop"} => st = << >>
    BY DEF Shape, Bottom
  <2>2. <<"cb">> \o << >> = StCb /\ <<"idle">> \o << >> = StIdle /\ <<"repop">> \o << >> = StRepop
    BY DEF StCb, StIdle, StRepop
  <2>3. pc \in {"init", "launched", "failed", "abort"} => st = StCb
    BY DEF Shape
  <2>4. /\ pc = "retire" => st \in {StCb, StAbort, StFailed}
        /\ pc = "drop" => st \in {StCb, StRepop}
    BY DEF Shape
  <2> QED
    BY <2>1, <2>2, <2>3, <2>4 DEF StInit, StLaunched, StFailed, StAbort, StRetire, StFailedRetire,
       StDrop, StRepopDrop
<1> HIDE DEF up
<1> USE <1>0, <1>1 DEF Shape, Bottom, MayCall, Callers
<1>2. Shape(callee, up)
  BY Differ DEF StacksDiffer
<1>3. InCb(callee, up) <=> InCb(pc, st)
  BY Differ DEF StacksDiffer, InCb
<1>4. InRepop(callee, up) <=> InRepop(pc, st)
  BY Differ DEF StacksDiffer, InRepop
<1>5. InInit(callee, up) <=> InInit(pc, st) \/ callee = "init"
  BY Differ DEF StacksDiffer, InInit
<1>6. InLaunched(callee, up) <=> InLaunched(pc, st)
  BY Differ DEF StacksDiffer, InLaunched
<1>7. InFailed(callee, up) <=> InFailed(pc, st)
  BY Differ DEF StacksDiffer, InFailed
<1>8. InRetire(callee, up) <=> InRetire(pc, st) \/ callee = "retire"
  BY Differ DEF StacksDiffer, InRetire
<1>9. InDrop(callee, up) <=> InDrop(pc, st)
  BY Differ DEF StacksDiffer, InDrop
<1> QED
  BY <1>2, <1>3, <1>4, <1>5, <1>6, <1>7, <1>8, <1>9 DEF up

(* ------------------------------------------------------------------------ *)
(* The locals of a thread.                                                  *)

(* Record b differs from a in its label, its stack and the fields F only. *)
SameBut(a, b, F) ==
    /\ "ctx" \notin F => b.ctx = a.ctx
    /\ "q" \notin F => b.q = a.q
    /\ "nq" \notin F => b.nq = a.nq
    /\ "n" \notin F => b.n = a.n
    /\ "new" \notin F => b.new = a.new
    /\ "queue" \notin F => b.queue = a.queue
    /\ "tgt" \notin F => b.tgt = a.tgt
    /\ "dst" \notin F => b.dst = a.dst
    /\ "msg" \notin F => b.msg = a.msg
    /\ "kill" \notin F => b.kill = a.kill
    /\ "dq" \notin F => b.dq = a.dq
    /\ "victim" \notin F => b.victim = a.victim

LEMMA LabelTypes ==
    /\ \A l \in {"idle", "repop", "tired", "asleep", "exit", "grab", "pop", "length", "cb", "empty",
                 "next", "push_back", "done", "send", "push", "pushed", "retire", "abort", "init",
                 "launched", "failed", "mq_release", "drop", "delete"} : l \in Labels
    /\ NULL \in Opt /\ NULL \notin Service /\ \A s \in Service : s \in Opt /\ s # NULL
    /\ \A s \in Opt : s # NULL => s \in Service
  BY ServerAssumption DEF Labels, Opt

(* Record b is r after the function at r.pc returned. *)
After(r, b) ==
    /\ b \in Locals /\ Shape(b.pc, b.stack) /\ b.pc \in Callers
    /\ InCb(b.pc, b.stack) <=> InCb(r.pc, r.stack)
    /\ InRepop(b.pc, b.stack) <=> InRepop(r.pc, r.stack)
    /\ InInit(b.pc, b.stack) <=> InInit(r.pc, r.stack) /\ r.pc # "init"
    /\ InLaunched(b.pc, b.stack) <=> InLaunched(r.pc, r.stack) /\ r.pc # "launched"
    /\ InFailed(b.pc, b.stack) <=> InFailed(r.pc, r.stack) /\ r.pc # "failed"
    /\ InRetire(b.pc, b.stack) <=> InRetire(r.pc, r.stack) /\ r.pc # "retire"
    /\ InDrop(b.pc, b.stack) <=> InDrop(r.pc, r.stack) /\ r.pc # "drop"

LEMMA ReturnedIsAfter ==
    ASSUME NEW r \in Locals, Shape(r.pc, r.stack), r.pc \notin Bottom,
           NEW c \in Locals, c.stack = r.stack
    PROVE  After(r, Returned(c)) /\ SameBut(c, Returned(c), {})
<1>1. r.pc \in Labels /\ r.stack \in Seq(Labels)
  BY DEF Locals
<1>2. r.stack # << >>
  BY <1>1, Stacks DEF Shape, StackFacts, Labels, Bottom
<1>3. Head(r.stack) \in Labels /\ Tail(r.stack) \in Seq(Labels)
  BY <1>1, <1>2
<1>4. /\ Returned(c) \in Locals /\ SameBut(c, Returned(c), {})
      /\ Returned(c).pc = Head(r.stack) /\ Returned(c).stack = Tail(r.stack)
  BY <1>3 DEF Locals, Returned, SameBut
<1> QED
  BY <1>1, <1>2, <1>4, PopFrame DEF After

(* Record b is r after a call of b.pc. *)
Within(r, b) ==
    /\ Shape(b.pc, b.stack)
    /\ InCb(b.pc, b.stack) <=> InCb(r.pc, r.stack)
    /\ InRepop(b.pc, b.stack) <=> InRepop(r.pc, r.stack)
    /\ InInit(b.pc, b.stack) <=> InInit(r.pc, r.stack) \/ b.pc = "init"
    /\ InLaunched(b.pc, b.stack) <=> InLaunched(r.pc, r.stack)
    /\ InFailed(b.pc, b.stack) <=> InFailed(r.pc, r.stack)
    /\ InRetire(b.pc, b.stack) <=> InRetire(r.pc, r.stack) \/ b.pc = "retire"
    /\ InDrop(b.pc, b.stack) <=> InDrop(r.pc, r.stack)

LEMMA CalledIsWithin ==
    ASSUME NEW r \in Locals, Shape(r.pc, r.stack), NEW b \in Locals, b.stack = <<r.pc>> \o r.stack,
           MayCall(r.pc, r.stack, b.pc)
    PROVE  Within(r, b)
<1>1. r.pc \in Labels /\ r.stack \in Seq(Labels) /\ b.pc \in Labels
  BY DEF Locals
<1> QED
  BY <1>1, PushFrame DEF Within

(* Thread t moves and changes, of its locals, those in F only. *)
Moves(t, F) ==
    /\ th' \in [Threads -> Locals]
    /\ \A u \in Threads \ {t} : th'[u] = th[u]
    /\ ThreadOK(t, th'[t])
    /\ SameBut(th[t], th'[t], F)

(* The thread has not begun to drop a queue, or to give up a launch. *)
Keeps(r, b) == /\ InDrop(b.pc, b.stack) => InDrop(r.pc, r.stack)
               /\ InFailed(b.pc, b.stack) => InFailed(r.pc, r.stack)

LEMMA Here ==
    ASSUME ServerTypeOK, ThreadsOK, NEW t \in Threads
    PROVE  th[t] \in Locals /\ ThreadOK(t, th[t])
  BY DEF ServerTypeOK, ThreadsOK

LEMMA Went ==
    ASSUME ServerTypeOK, NEW t \in Threads, NEW b \in Locals, Goto(t, b)
    PROVE  /\ th' \in [Threads -> Locals] /\ th'[t] = b
           /\ \A u \in Threads \ {t} : th'[u] = th[u]
  BY DEF ServerTypeOK, Goto

(* skynet_context_release: go on with r, or delete the context first. *)
LEMMA ReleaseStep ==
    ASSUME ServerTypeOK, NEW t \in Threads, NEW s \in Service, NEW r \in Locals, ThreadOK(t, r),
           r.pc \in Callers, r.stack # StAbort, Release(t, s, r)
    PROVE  /\ th' \in [Threads -> Locals] /\ ThreadOK(t, th'[t])
           /\ \A u \in Threads \ {t} : th'[u] = th[u]
           /\ SameBut(r, th'[t], {"victim"}) /\ Keeps(r, th'[t])
           /\ r.victim = NULL
           /\ refs[s] = 1 => th'[t].victim = s
           /\ refs[s] # 1 => th'[t].victim = NULL
<1>1. r.victim = NULL
  BY DEF ThreadOK, CalleeSet, Callers
<1>2. CASE refs[s] = 1
  <2> DEFINE c == [r EXCEPT !.victim = s]
             b == [c EXCEPT !.pc = "delete", !.stack = <<r.pc>> \o @]
  <2>1. <<r.pc>> \o r.stack \in Seq(Labels)
    BY PushPop DEF Locals
  <2>2. c \in Locals /\ c.pc = r.pc /\ c.stack = r.stack /\ c.victim = s /\ SameBut(r, c, {"victim"})
    BY LabelTypes DEF Locals, SameBut
  <2>3. Goto(t, b)
    BY <1>2 DEF Release, Call
  <2> HIDE DEF c
  <2>4. /\ b \in Locals /\ b.pc = "delete" /\ b.stack = <<r.pc>> \o r.stack /\ b.victim = s
        /\ SameBut(r, b, {"victim"})
    BY <2>1, <2>2, LabelTypes DEF Locals, SameBut
  <2> HIDE DEF b
  <2>5. Within(r, b)
    BY <2>4, CalledIsWithin DEF ThreadOK, MayCall
  <2>6. ThreadOK(t, b)
    BY <2>4, <2>5, LabelTypes DEF Within, ThreadOK, CalleeSet, LoopSet, SameBut, Callers
  <2> QED
    BY <1>1, <1>2, <2>3, <2>4, <2>5, <2>6, Went DEF Within, Keeps
<1>3. CASE refs[s] # 1
  <2>1. Goto(t, r)
    BY <1>3 DEF Release
  <2> QED
    BY <1>1, <1>3, <2>1, Went DEF Keeps, SameBut
<1> QED
  BY <1>2, <1>3

LEMMA DeleteStep ==
    ASSUME ServerTypeOK, ThreadsOK, NEW t \in Threads, Delete(t)
    PROVE  /\ Moves(t, {"victim"}) /\ Keeps(th[t], th'[t])
           /\ th[t].victim \in Service /\ th'[t].victim = NULL
<1> DEFINE r == th[t]
           c == [r EXCEPT !.victim = NULL]
           b == Returned(c)
<1>1. r \in Locals /\ ThreadOK(t, r) /\ r.pc = "delete" /\ Goto(t, b)
  BY Here DEF Delete, At
<1> HIDE DEF r
<1>2. c \in Locals /\ c.stack = r.stack /\ c.victim = NULL /\ SameBut(r, c, {"victim"})
  BY <1>1, LabelTypes DEF Locals, SameBut
<1> HIDE DEF c
<1>3. After(r, b) /\ SameBut(r, b, {"victim"}) /\ b.victim = NULL
  BY <1>1, <1>2, ReturnedIsAfter DEF SameBut, ThreadOK, Bottom
<1> HIDE DEF b
<1>4. ThreadOK(t, b)
  BY <1>1, <1>3 DEF After, ThreadOK, CalleeSet, LoopSet, SameBut, Callers
<1>5. r.victim \in Service
  BY <1>1, LabelTypes DEF ThreadOK, CalleeSet, Locals
<1> QED
  BY <1>1, <1>3, <1>4, <1>5, Went DEF After, Moves, Keeps, r

LEMMA SendGrabStep ==
    ASSUME ServerTypeOK, ThreadsOK, NEW t \in Threads, SendGrab(t)
    PROVE  /\ th[t].dst \in Service /\ th[t].tgt = NULL /\ th[t].msg \in Msg
           /\ Moves(t, {"tgt", "dst", "msg"}) /\ Keeps(th[t], th'[t])
           /\ th[t].dst \in slot => th'[t].tgt = th[t].dst
           /\ th[t].dst \notin slot => th'[t].tgt = NULL
<1> DEFINE r == th[t]
           a == [r EXCEPT !.pc = "push", !.tgt = r.dst]
           c == [r EXCEPT !.dst = NULL, !.msg = NULL]
           b == Returned(c)
<1>1. r \in Locals /\ ThreadOK(t, r) /\ r.pc = "send"
  BY Here DEF SendGrab, At
<1>2. (r.dst \in slot /\ Goto(t, a)) \/ (r.dst \notin slot /\ Goto(t, b))
  BY DEF SendGrab
<1> HIDE DEF r
<1>3. a \in Locals /\ a.pc = "push" /\ a.stack = r.stack /\ a.tgt = r.dst /\ SameBut(r, a, {"tgt"})
  BY <1>1, LabelTypes DEF Locals, SameBut
<1>4. c \in Locals /\ c.stack = r.stack /\ SameBut(r, c, {"dst", "msg"})
  BY <1>1, LabelTypes DEF Locals, SameBut
<1> HIDE DEF a, c
<1>5. After(r, b) /\ SameBut(r, b, {"dst", "msg"})
  BY <1>1, <1>4, ReturnedIsAfter DEF SameBut, ThreadOK, Bottom
<1> HIDE DEF b
<1>6. ThreadOK(t, a) /\ Keeps(r, a)
  BY <1>1, <1>3 DEF ThreadOK, Shape, Bottom, CalleeSet, LoopSet, SameBut, InCb, InRepop, InInit,
     InLaunched, InFailed, InRetire, InDrop, Keeps
<1>7. ThreadOK(t, b) /\ Keeps(r, b)
  BY <1>1, <1>5 DEF After, ThreadOK, CalleeSet, LoopSet, SameBut, Callers, Keeps
<1>8. r.dst \in Service /\ r.tgt = NULL /\ r.msg \in Msg
  BY <1>1, LabelTypes DEF ThreadOK, CalleeSet, Locals
<1>9. CASE r.dst \in slot /\ Goto(t, a)
  BY <1>3, <1>6, <1>8, <1>9, Went DEF Moves, SameBut, r
<1>10. CASE r.dst \notin slot /\ Goto(t, b)
  BY <1>5, <1>7, <1>8, <1>10, Went DEF After, Moves, SameBut, r
<1> QED
  BY <1>2, <1>9, <1>10

LEMMA SendPushStep ==
    ASSUME ServerTypeOK, ThreadsOK, NEW t \in Threads, SendPush(t)
    PROVE  /\ Moves(t, {}) /\ Keeps(th[t], th'[t])
           /\ th[t].tgt \in Service /\ th[t].msg \in Msg
<1> DEFINE r == th[t]
           b == [r EXCEPT !.pc = "pushed"]
<1>1. r \in Locals /\ ThreadOK(t, r) /\ r.pc = "push" /\ Goto(t, b)
  BY Here DEF SendPush, At, Jump
<1> HIDE DEF r
<1>2. b \in Locals /\ b.pc = "pushed" /\ b.stack = r.stack /\ SameBut(r, b, {})
  BY <1>1, LabelTypes DEF Locals, SameBut
<1> HIDE DEF b
<1>3. ThreadOK(t, b) /\ Keeps(r, b)
  BY <1>1, <1>2 DEF ThreadOK, Shape, Bottom, CalleeSet, LoopSet, SameBut, InCb, InRepop, InInit,
     InLaunched, InFailed, InRetire, InDrop, Keeps
<1>4. r.tgt \in Service /\ r.msg \in Msg
  BY <1>1, LabelTypes DEF ThreadOK, CalleeSet, Locals
<1> QED
  BY <1>1, <1>2, <1>3, <1>4, Went DEF Moves, r

(* The thread gives back the reference that f holds to s. *)
GivesBack(t, s, f) ==
    /\ refs[s] = 1 => th'[t].victim = s
    /\ refs[s] # 1 => th'[t].victim = NULL
    /\ th[t].victim = NULL
    /\ th[t][f] = s /\ s \in Service /\ th'[t][f] = NULL

LEMMA SendReleaseStep ==
    ASSUME ServerTypeOK, ThreadsOK, NEW t \in Threads, SendRelease(t)
    PROVE  /\ Moves(t, {"tgt", "dst", "msg", "victim"}) /\ Keeps(th[t], th'[t])
           /\ GivesBack(t, th[t].tgt, "tgt")
<1> DEFINE r == th[t]
           c == [r EXCEPT !.tgt = NULL, !.dst = NULL, !.msg = NULL]
           b == Returned(c)
<1>1. r \in Locals /\ ThreadOK(t, r) /\ r.pc = "pushed" /\ Release(t, r.tgt, b)
  BY Here DEF SendRelease, At
<1> HIDE DEF r
<1>2. c \in Locals /\ c.stack = r.stack /\ c.tgt = NULL /\ SameBut(r, c, {"tgt", "dst", "msg"})
  BY <1>1, LabelTypes DEF Locals, SameBut
<1> HIDE DEF c
<1>3. After(r, b) /\ SameBut(r, b, {"tgt", "dst", "msg"}) /\ b.tgt = NULL
  BY <1>1, <1>2, ReturnedIsAfter DEF SameBut, ThreadOK, Bottom
<1>4. b.stack # StAbort
  <2>1. r.stack \in {StCb, StRetire, StInit, StDrop, StRepopDrop}
    BY <1>1 DEF ThreadOK, Shape
  <2>2. b.stack = Tail(r.stack)
    BY <1>2 DEF Returned, Locals
  <2> QED
    BY <2>1, <2>2, Stacks, Differ DEF StackFacts, StacksDiffer
<1> HIDE DEF b
<1>5. ThreadOK(t, b) /\ b.pc \in Callers /\ Keeps(r, b) /\ b \in Locals
  BY <1>1, <1>3 DEF After, ThreadOK, CalleeSet, LoopSet, SameBut, Callers, Keeps
<1>6. r.tgt \in Service /\ r.victim = NULL
  BY <1>1, LabelTypes DEF ThreadOK, CalleeSet, Locals
<1>7. /\ th' \in [Threads -> Locals] /\ ThreadOK(t, th'[t])
      /\ \A u \in Threads \ {t} : th'[u] = th[u]
      /\ SameBut(b, th'[t], {"victim"}) /\ Keeps(b, th'[t])
      /\ refs[r.tgt] = 1 => th'[t].victim = r.tgt
      /\ refs[r.tgt] # 1 => th'[t].victim = NULL
  BY <1>1, <1>4, <1>5, <1>6, ReleaseStep
<1> QED
  BY <1>3, <1>5, <1>6, <1>7 DEF Moves, SameBut, Keeps, GivesBack, r

LEMMA EndlessStep ==
    ASSUME ServerTypeOK, ThreadsOK, NEW t \in Threads, NEW s \in Service, Endless(t, s)
    PROVE  /\ Moves(t, {"tgt"}) /\ Keeps(th[t], th'[t])
           /\ th[t].tgt = NULL /\ th'[t].tgt = s
<1> DEFINE r == th[t]
           c == [r EXCEPT !.tgt = s]
           b == [c EXCEPT !.pc = "pushed", !.stack = <<"cb">> \o @]
<1>1. r \in Locals /\ ThreadOK(t, r) /\ r.pc = "cb" /\ Goto(t, b)
  BY Here DEF Endless, At, Call
<1> HIDE DEF r
<1>2. <<"cb">> \o r.stack \in Seq(Labels)
  BY <1>1, PushPop DEF Locals
<1>3. c \in Locals /\ c.stack = r.stack /\ c.tgt = s /\ SameBut(r, c, {"tgt"})
  BY <1>1, LabelTypes DEF Locals, SameBut
<1> HIDE DEF c
<1>4. /\ b \in Locals /\ b.pc = "pushed" /\ b.stack = <<r.pc>> \o r.stack /\ b.tgt = s
      /\ SameBut(r, b, {"tgt"})
  BY <1>1, <1>2, <1>3, LabelTypes DEF Locals, SameBut
<1> HIDE DEF b
<1>5. Within(r, b)
  BY <1>1, <1>4, CalledIsWithin DEF ThreadOK, MayCall
<1>6. ThreadOK(t, b) /\ Keeps(r, b) /\ r.tgt = NULL
  BY <1>1, <1>4, <1>5, LabelTypes DEF Within, ThreadOK, CalleeSet, LoopSet, SameBut, Keeps
<1> QED
  BY <1>1, <1>4, <1>6, Went DEF Moves, r

LEMMA SendStep ==
    ASSUME ServerTypeOK, ThreadsOK, NEW t \in Threads, NEW d \in Service, NEW m \in Message,
           Send(t, d, m)
    PROVE  Moves(t, {"dst", "msg"}) /\ Keeps(th[t], th'[t])
<1> DEFINE r == th[t]
           x == [src |-> Self(t), id |-> m]
           c == [r EXCEPT !.dst = d, !.msg = x]
           b == [c EXCEPT !.pc = "send", !.stack = <<r.pc>> \o @]
<1>1. r \in Locals /\ ThreadOK(t, r) /\ r.pc \in {"cb", "init"} /\ Goto(t, b)
  BY Here DEF Send, Call
<1>2. x \in Msg
  BY <1>1 DEF Self, Msg, Locals
<1> HIDE DEF r, x
<1>3. <<r.pc>> \o r.stack \in Seq(Labels)
  BY <1>1, PushPop DEF Locals
<1>4. c \in Locals /\ c.stack = r.stack /\ c.dst = d /\ c.msg = x /\ SameBut(r, c, {"dst", "msg"})
  BY <1>1, <1>2, LabelTypes DEF Locals, SameBut
<1> HIDE DEF c
<1>5. /\ b \in Locals /\ b.pc = "send" /\ b.stack = <<r.pc>> \o r.stack /\ b.dst = d /\ b.msg = x
      /\ SameBut(r, b, {"dst", "msg"})
  BY <1>1, <1>3, <1>4, LabelTypes DEF Locals, SameBut
<1> HIDE DEF b
<1>6. Within(r, b)
  BY <1>1, <1>5, CalledIsWithin DEF ThreadOK, MayCall
<1>7. ThreadOK(t, b) /\ Keeps(r, b)
  BY <1>1, <1>2, <1>5, <1>6, LabelTypes DEF Within, ThreadOK, CalleeSet, LoopSet, SameBut, Keeps
<1> QED
  BY <1>1, <1>5, <1>7, Went DEF Moves, r

LEMMA KillStep ==
    ASSUME ServerTypeOK, ThreadsOK, NEW t \in Threads, NEW s \in Service, Kill(t, s)
    PROVE  Moves(t, {"kill", "dst", "msg"}) /\ Keeps(th[t], th'[t])
<1> DEFINE r == th[t]
           x == [src |-> s, id |-> NULL]
           a == [r EXCEPT !.kill = s, !.stack = <<"cb">> \o @]
           b == [a EXCEPT !.pc = "retire"]
           c == [a EXCEPT !.dst = Monitor, !.msg = x]
           d == [c EXCEPT !.pc = "send", !.stack = <<"retire">> \o @]
<1>1. r \in Locals /\ ThreadOK(t, r) /\ r.pc = "cb"
  BY Here DEF Kill, At
<1>2. (Monitor = NULL /\ Goto(t, b)) \/ (Monitor # NULL /\ Goto(t, d))
  BY DEF Kill, Call
<1>3. x \in Msg /\ Monitor \in Opt
  BY ServerAssumption DEF Msg, Opt
<1> HIDE DEF r, x
<1>4. <<"cb">> \o r.stack \in Seq(Labels)
  BY <1>1, PushPop DEF Locals
<1>5. a \in Locals /\ a.stack = <<"cb">> \o r.stack /\ a.kill = s /\ SameBut(r, a, {"kill"})
  BY <1>1, <1>4, LabelTypes DEF Locals, SameBut
<1> HIDE DEF a
<1>6. b \in Locals /\ b.pc = "retire" /\ b.stack = <<r.pc>> \o r.stack /\ b.kill = s /\ SameBut(r, b, {"kill"})
  BY <1>1, <1>5, LabelTypes DEF Locals, SameBut
<1>7. /\ c \in Locals /\ c.stack = a.stack /\ c.kill = s /\ c.dst = Monitor /\ c.msg = x
      /\ SameBut(r, c, {"kill", "dst", "msg"})
  BY <1>3, <1>5, LabelTypes DEF Locals, SameBut
<1> HIDE DEF b, c
<1>8. Within(r, b)
  BY <1>1, <1>6, CalledIsWithin DEF ThreadOK, MayCall
<1>9. ThreadOK(t, b) /\ Keeps(r, b) /\ Shape(b.pc, b.stack)
  <2>1. ~InFailed(r.pc, r.stack)
    BY <1>1, Differ DEF ThreadOK, Shape, Bottom, InFailed, StacksDiffer
  <2> QED
    BY <1>1, <1>6, <1>8, <2>1, LabelTypes DEF Within, ThreadOK, CalleeSet, LoopSet, SameBut, Keeps
<1>10. <<"retire">> \o b.stack \in Seq(Labels)
  BY <1>6, LabelTypes, PushPop DEF Locals
<1>11. /\ d \in Locals /\ d.pc = "send" /\ d.stack = <<b.pc>> \o b.stack
       /\ d.kill = s /\ d.dst = Monitor /\ d.msg = x
       /\ SameBut(r, d, {"kill", "dst", "msg"})
  <2>1. c.stack = b.stack /\ b.pc = "retire"
    BY <1>1, <1>5, <1>6, <1>7
  <2>2. d \in Locals
    BY <1>7, <1>10, <2>1, LabelTypes DEF Locals
  <2>3. d.pc = "send" /\ d.stack = <<"retire">> \o c.stack
    BY <1>7 DEF Locals
  <2>4. d.kill = c.kill /\ d.dst = c.dst /\ d.msg = c.msg /\ SameBut(c, d, {})
    BY <1>7 DEF Locals, SameBut
  <2> HIDE DEF d
  <2> QED
    BY <1>7, <2>1, <2>2, <2>3, <2>4 DEF SameBut
<1> HIDE DEF d
<1>12. b.stack = StCb
  <2>1. r.stack = << >>
    BY <1>1 DEF ThreadOK, Shape, Bottom
  <2> QED
    BY <1>1, <1>6, <2>1 DEF StCb
<1>13. Within(b, d)
  BY <1>6, <1>9, <1>11, <1>12, CalledIsWithin DEF MayCall
<1>14. Monitor # NULL => ThreadOK(t, d) /\ Keeps(r, d)
  BY <1>1, <1>3, <1>8, <1>9, <1>6, <1>11, <1>13, LabelTypes DEF Within, ThreadOK, CalleeSet, LoopSet, SameBut, Keeps
<1>15. CASE Monitor = NULL /\ Goto(t, b)
  BY <1>6, <1>9, <1>15, Went DEF Moves, SameBut, r
<1>16. CASE Monitor # NULL /\ Goto(t, d)
  BY <1>11, <1>14, <1>16, Went DEF Moves, SameBut, r
<1> QED
  BY <1>2, <1>15, <1>16

LEMMA RetireStep ==
    ASSUME ServerTypeOK, ThreadsOK, NEW t \in Threads, Retire(t)
    PROVE  /\ Moves(t, {"kill", "victim"}) /\ Keeps(th[t], th'[t])
           /\ th[t].kill \in Service /\ th'[t].kill = NULL /\ th[t].victim = NULL
           /\ InFailed(th[t].pc, th[t].stack) => th[t].kill = th[t].queue
           /\ th[t].kill \in slot /\ refs[th[t].kill] = 1 => th'[t].victim = th[t].kill
           /\ th[t].kill \in slot /\ refs[th[t].kill] # 1 => th'[t].victim = NULL
           /\ th[t].kill \notin slot => th'[t].victim = NULL
<1> DEFINE r == th[t]
           c == [r EXCEPT !.kill = NULL]
           b == Returned(c)
<1>1. r \in Locals /\ ThreadOK(t, r) /\ r.pc = "retire"
  BY Here DEF Retire, At
<1>2. (r.kill \in slot /\ Release(t, r.kill, b)) \/ (r.kill \notin slot /\ Goto(t, b))
  BY DEF Retire
<1> HIDE DEF r
<1>3. c \in Locals /\ c.stack = r.stack /\ c.kill = NULL /\ SameBut(r, c, {"kill"})
  BY <1>1, LabelTypes DEF Locals, SameBut
<1> HIDE DEF c
<1>4. After(r, b) /\ SameBut(r, b, {"kill"}) /\ b.kill = NULL
  BY <1>1, <1>3, ReturnedIsAfter DEF SameBut, ThreadOK, Bottom
<1>5. b.stack # StAbort
  <2>1. r.stack \in {StCb, StAbort, StFailed}
    BY <1>1 DEF ThreadOK, Shape
  <2>2. b.stack = Tail(r.stack)
    BY <1>3 DEF Returned, Locals
  <2> QED
    BY <2>1, <2>2, Stacks, Differ DEF StackFacts, StacksDiffer
<1> HIDE DEF b
<1>6. ThreadOK(t, b) /\ b.pc \in Callers /\ Keeps(r, b) /\ b \in Locals
  BY <1>1, <1>4 DEF After, ThreadOK, CalleeSet, LoopSet, SameBut, Callers, Keeps
<1>7. /\ r.kill \in Service /\ r.victim = NULL
      /\ InFailed(r.pc, r.stack) => r.kill = r.queue
  BY <1>1, LabelTypes DEF ThreadOK, CalleeSet, Locals, InRetire
<1>8. CASE r.kill \in slot /\ Release(t, r.kill, b)
  <2>1. /\ th' \in [Threads -> Locals] /\ ThreadOK(t, th'[t])
        /\ \A u \in Threads \ {t} : th'[u] = th[u]
        /\ SameBut(b, th'[t], {"victim"}) /\ Keeps(b, th'[t])
        /\ refs[r.kill] = 1 => th'[t].victim = r.kill
        /\ refs[r.kill] # 1 => th'[t].victim = NULL
    BY <1>5, <1>6, <1>7, <1>8, ReleaseStep
  <2> QED
    BY <1>4, <1>6, <1>7, <1>8, <2>1 DEF Moves, SameBut, Keeps, r
<1>9. CASE r.kill \notin slot /\ Goto(t, b)
  BY <1>4, <1>6, <1>7, <1>9, Went DEF Moves, SameBut, Keeps, r
<1> QED
  BY <1>2, <1>8, <1>9

LEMMA AbortStep ==
    ASSUME ServerTypeOK, ThreadsOK, NEW t \in Threads, Abort(t)
    PROVE  Moves(t, {}) /\ Keeps(th[t], th'[t])
<1> DEFINE r == th[t]
           b == [r EXCEPT !.pc = "abort", !.stack = <<"cb">> \o @]
<1>1. r \in Locals /\ ThreadOK(t, r) /\ r.pc = "cb" /\ Goto(t, b)
  BY Here DEF Abort, At, Call
<1> HIDE DEF r
<1>2. <<"cb">> \o r.stack \in Seq(Labels)
  BY <1>1, PushPop DEF Locals
<1>3. b \in Locals /\ b.pc = "abort" /\ b.stack = <<r.pc>> \o r.stack /\ SameBut(r, b, {})
  BY <1>1, <1>2, LabelTypes DEF Locals, SameBut
<1> HIDE DEF b
<1>4. Within(r, b)
  BY <1>1, <1>3, CalledIsWithin DEF ThreadOK, MayCall
<1>5. ThreadOK(t, b) /\ Keeps(r, b)
  BY <1>1, <1>3, <1>4 DEF Within, ThreadOK, CalleeSet, LoopSet, SameBut, Keeps
<1> QED
  BY <1>1, <1>3, <1>5, Went DEF Moves, r

LEMMA RetireAllStep ==
    ASSUME ServerTypeOK, ThreadsOK, NEW t \in Threads, RetireAll(t)
    PROVE  Moves(t, {"kill"}) /\ Keeps(th[t], th'[t])
<1> DEFINE r == th[t]
           c(s) == [r EXCEPT !.kill = s]
           b(s) == [c(s) EXCEPT !.pc = "retire", !.stack = <<"abort">> \o @]
           d == Returned(r)
<1>1. r \in Locals /\ ThreadOK(t, r) /\ r.pc = "abort"
  BY Here DEF RetireAll, At
<1>2. (\E s \in slot : Goto(t, b(s))) \/ Goto(t, d)
  BY DEF RetireAll, Call
<1> HIDE DEF r
<1>3. ASSUME NEW s \in slot, Goto(t, b(s)) PROVE Moves(t, {"kill"}) /\ Keeps(th[t], th'[t])
  <2>1. s \in Service
    BY DEF ServerTypeOK
  <2>2. <<"abort">> \o r.stack \in Seq(Labels)
    BY <1>1, PushPop DEF Locals
  <2>3. c(s) \in Locals /\ c(s).stack = r.stack /\ c(s).kill = s /\ SameBut(r, c(s), {"kill"})
    BY <1>1, <2>1, LabelTypes DEF Locals, SameBut
  <2> DEFINE cs == c(s)
             bs == [cs EXCEPT !.pc = "retire", !.stack = <<"abort">> \o @]
  <2>4. Goto(t, bs) /\ cs \in Locals /\ cs.stack = r.stack /\ cs.kill = s /\ SameBut(r, cs, {"kill"})
    BY <1>3, <2>3
  <2> HIDE DEF cs
  <2>5. /\ bs \in Locals /\ bs.pc = "retire" /\ bs.stack = <<r.pc>> \o r.stack /\ bs.kill = s
        /\ SameBut(r, bs, {"kill"})
    BY <1>1, <2>2, <2>4, LabelTypes DEF Locals, SameBut
  <2> HIDE DEF bs
  <2>6. Within(r, bs)
    BY <1>1, <2>5, CalledIsWithin DEF ThreadOK, MayCall
  <2>7. ~InFailed(r.pc, r.stack)
    BY <1>1, Differ DEF ThreadOK, Shape, InFailed, StacksDiffer
  <2>8. ThreadOK(t, bs) /\ Keeps(r, bs)
    BY <1>1, <2>1, <2>5, <2>6, <2>7, LabelTypes DEF Within, ThreadOK, CalleeSet, LoopSet, SameBut, Keeps
  <2> QED
    BY <2>4, <2>5, <2>8, Went DEF Moves, r
<1>4. ASSUME Goto(t, d) PROVE Moves(t, {"kill"}) /\ Keeps(th[t], th'[t])
  <2>1. After(r, d) /\ SameBut(r, d, {})
    BY <1>1, ReturnedIsAfter DEF ThreadOK, Bottom
  <2> HIDE DEF d
  <2>2. ThreadOK(t, d) /\ Keeps(r, d)
    BY <1>1, <2>1 DEF After, ThreadOK, CalleeSet, LoopSet, SameBut, Callers, Keeps
  <2> QED
    BY <1>4, <2>1, <2>2, Went DEF After, Moves, SameBut, r
<1> QED
  BY <1>2, <1>3, <1>4

LEMMA LaunchStep ==
    ASSUME ServerTypeOK, ThreadsOK, NEW t \in Threads, NEW s \in Service, Launch(t, s)
    PROVE  /\ Moves(t, {"new", "queue"}) /\ Keeps(th[t], th'[t])
           /\ th[t].new = NULL /\ th'[t].new = s /\ th[t].queue = NULL /\ th'[t].queue = s
           /\ ~InFailed(th[t].pc, th[t].stack)
<1> DEFINE r == th[t]
           c == [r EXCEPT !.new = s, !.queue = s]
           b == [c EXCEPT !.pc = "init", !.stack = <<"cb">> \o @]
<1>1. r \in Locals /\ ThreadOK(t, r) /\ r.pc = "cb" /\ Goto(t, b)
  BY Here DEF Launch, At, Call
<1> HIDE DEF r
<1>2. <<"cb">> \o r.stack \in Seq(Labels)
  BY <1>1, PushPop DEF Locals
<1>3. /\ c \in Locals /\ c.stack = r.stack /\ c.new = s /\ c.queue = s
      /\ SameBut(r, c, {"new", "queue"})
  BY <1>1, LabelTypes DEF Locals, SameBut
<1> HIDE DEF c
<1>4. /\ b \in Locals /\ b.pc = "init" /\ b.stack = <<r.pc>> \o r.stack
      /\ b.new = s /\ b.queue = s /\ SameBut(r, b, {"new", "queue"})
  BY <1>1, <1>2, <1>3, LabelTypes DEF Locals, SameBut
<1> HIDE DEF b
<1>5. Within(r, b)
  BY <1>1, <1>4, CalledIsWithin DEF ThreadOK, MayCall
<1>6. ~InInit(r.pc, r.stack) /\ ~InLaunched(r.pc, r.stack) /\ ~InFailed(r.pc, r.stack)
  BY <1>1, Differ DEF ThreadOK, Shape, Bottom, StacksDiffer, InInit, InLaunched, InFailed
<1>7. ThreadOK(t, b) /\ Keeps(r, b) /\ r.new = NULL /\ r.queue = NULL
  BY <1>1, <1>4, <1>5, <1>6, LabelTypes DEF Within, ThreadOK, CalleeSet, LoopSet, SameBut, Keeps
<1> QED
  BY <1>1, <1>4, <1>6, <1>7, Went DEF Moves, r

LEMMA InitOkStep ==
    ASSUME ServerTypeOK, ThreadsOK, NEW t \in Threads, InitOk(t)
    PROVE  /\ Moves(t, {"new", "victim"}) /\ Keeps(th[t], th'[t])
           /\ GivesBack(t, th[t].new, "new")
<1> DEFINE r == th[t]
           b == [r EXCEPT !.pc = "launched", !.new = NULL]
<1>1. r \in Locals /\ ThreadOK(t, r) /\ r.pc = "init" /\ Release(t, r.new, b)
  BY Here DEF InitOk, At
<1> HIDE DEF r
<1>2. /\ b \in Locals /\ b.pc = "launched" /\ b.stack = r.stack /\ b.new = NULL
      /\ SameBut(r, b, {"new"})
  BY <1>1, LabelTypes DEF Locals, SameBut
<1> HIDE DEF b
<1>3. b.stack = StCb
  BY <1>1, <1>2 DEF ThreadOK, Shape
<1>4. ThreadOK(t, b) /\ Keeps(r, b)
  BY <1>1, <1>2, <1>3, Differ DEF StacksDiffer, ThreadOK, Shape, Bottom, CalleeSet, LoopSet, SameBut,
     InCb, InRepop, InInit, InLaunched, InFailed, InRetire, InDrop, Keeps
<1>5. r.new \in Service /\ r.victim = NULL
  BY <1>1, LabelTypes DEF ThreadOK, CalleeSet, Locals, InInit
<1>6. /\ th' \in [Threads -> Locals] /\ ThreadOK(t, th'[t])
      /\ \A u \in Threads \ {t} : th'[u] = th[u]
      /\ SameBut(b, th'[t], {"victim"}) /\ Keeps(b, th'[t])
      /\ refs[r.new] = 1 => th'[t].victim = r.new
      /\ refs[r.new] # 1 => th'[t].victim = NULL
  BY <1>1, <1>2, <1>3, <1>4, <1>5, ReleaseStep, Differ DEF Callers, StacksDiffer
<1> QED
  BY <1>2, <1>4, <1>5, <1>6 DEF Moves, SameBut, Keeps, GivesBack, r

LEMMA InitFailStep ==
    ASSUME ServerTypeOK, ThreadsOK, NEW t \in Threads, InitFail(t)
    PROVE  /\ Moves(t, {"new", "kill", "victim"}) /\ th'[t].kill # NULL
           /\ InDrop(th'[t].pc, th'[t].stack) => InDrop(th[t].pc, th[t].stack)
           /\ GivesBack(t, th[t].new, "new")
<1> DEFINE r == th[t]
           b == [r EXCEPT !.pc = "retire", !.kill = r.new, !.new = NULL, !.stack = <<"failed">> \o @]
<1>1. r \in Locals /\ ThreadOK(t, r) /\ r.pc = "init" /\ Release(t, r.new, b)
  BY Here DEF InitFail, At
<1> HIDE DEF r
<1>2. r.stack = StCb /\ <<"failed">> \o r.stack \in Seq(Labels) /\ <<"failed">> \o r.stack = StFailed
  BY <1>1, PushPop, LabelTypes DEF ThreadOK, Shape, Locals, StFailed
<1>3. r.new \in Service /\ r.victim = NULL /\ r.new = r.queue
  BY <1>1, LabelTypes DEF ThreadOK, CalleeSet, Locals, InInit
<1>4. /\ b \in Locals /\ b.pc = "retire" /\ b.stack = StFailed /\ b.new = NULL /\ b.kill = r.new
      /\ SameBut(r, b, {"new", "kill"})
  BY <1>1, <1>2, <1>3, LabelTypes DEF Locals, SameBut
<1> HIDE DEF b
<1>5. ThreadOK(t, b) /\ (InDrop(b.pc, b.stack) => InDrop(r.pc, r.stack))
  BY <1>1, <1>2, <1>3, <1>4, Differ, LabelTypes DEF StacksDiffer, ThreadOK, Shape, Bottom, CalleeSet, LoopSet, SameBut,
     InCb, InRepop, InInit, InLaunched, InFailed, InRetire, InDrop
<1>6. /\ th' \in [Threads -> Locals] /\ ThreadOK(t, th'[t])
      /\ \A u \in Threads \ {t} : th'[u] = th[u]
      /\ SameBut(b, th'[t], {"victim"}) /\ Keeps(b, th'[t])
      /\ refs[r.new] = 1 => th'[t].victim = r.new
      /\ refs[r.new] # 1 => th'[t].victim = NULL
  BY <1>1, <1>4, <1>5, <1>3, ReleaseStep, Differ DEF Callers, StacksDiffer
<1> QED
  BY <1>3, <1>4, <1>5, <1>6, LabelTypes DEF Moves, SameBut, Keeps, GivesBack, r

LEMMA LaunchedStep ==
    ASSUME ServerTypeOK, ThreadsOK, NEW t \in Threads, Launched(t)
    PROVE  /\ Moves(t, {"queue"}) /\ Keeps(th[t], th'[t])
           /\ th[t].queue \in Service /\ th'[t].queue = NULL
           /\ ~InFailed(th'[t].pc, th'[t].stack)
<1> DEFINE r == th[t]
           c == [r EXCEPT !.queue = NULL]
           b == Returned(c)
<1>1. r \in Locals /\ ThreadOK(t, r) /\ r.pc = "launched" /\ Goto(t, b)
  BY Here DEF Launched, At
<1> HIDE DEF r
<1>2. c \in Locals /\ c.stack = r.stack /\ c.queue = NULL /\ SameBut(r, c, {"queue"})
  BY <1>1, LabelTypes DEF Locals, SameBut
<1> HIDE DEF c
<1>3. After(r, b) /\ SameBut(r, b, {"queue"}) /\ b.queue = NULL
  BY <1>1, <1>2, ReturnedIsAfter DEF SameBut, ThreadOK, Bottom
<1> HIDE DEF b
<1>4. ~InInit(r.pc, r.stack) /\ ~InFailed(r.pc, r.stack) /\ InLaunched(r.pc, r.stack)
  BY <1>1, Differ DEF ThreadOK, Shape, StacksDiffer, InInit, InFailed, InLaunched
<1>5. ThreadOK(t, b) /\ Keeps(r, b) /\ ~InFailed(b.pc, b.stack)
  BY <1>1, <1>3, <1>4 DEF After, ThreadOK, CalleeSet, LoopSet, SameBut, Callers, Keeps
<1>6. r.queue \in Service
  BY <1>1, <1>4, LabelTypes DEF ThreadOK, CalleeSet, Locals
<1> QED
  BY <1>1, <1>3, <1>5, <1>6, Went DEF After, Moves, r

LEMMA InitFailedStep ==
    ASSUME ServerTypeOK, ThreadsOK, NEW t \in Threads, InitFailed(t)
    PROVE  /\ Moves(t, {"dq", "queue"}) /\ Keeps(th[t], th'[t])
           /\ th[t].queue \in Service /\ th[t].dq = NULL
           /\ th'[t].dq = th[t].queue /\ th'[t].queue = NULL
           /\ InFailed(th[t].pc, th[t].stack) /\ th[t].kill = NULL
           /\ ~InFailed(th'[t].pc, th'[t].stack)
<1> DEFINE r == th[t]
           b == [r EXCEPT !.pc = "mq_release", !.dq = r.queue, !.queue = NULL]
<1>1. r \in Locals /\ ThreadOK(t, r) /\ r.pc = "failed" /\ Goto(t, b)
  BY Here DEF InitFailed, At
<1> HIDE DEF r
<1>2. /\ b \in Locals /\ b.pc = "mq_release" /\ b.stack = r.stack /\ b.dq = r.queue /\ b.queue = NULL
      /\ SameBut(r, b, {"dq", "queue"})
  BY <1>1, LabelTypes DEF Locals, SameBut
<1> HIDE DEF b
<1>3. b.stack = StCb
  BY <1>1, <1>2 DEF ThreadOK, Shape
<1>4. /\ r.queue \in Service /\ r.dq = NULL /\ InFailed(r.pc, r.stack) /\ r.kill = NULL
      /\ ~InFailed(b.pc, b.stack)
  BY <1>1, <1>2, <1>3, Differ, LabelTypes DEF StacksDiffer, ThreadOK, CalleeSet, Locals, InFailed,
     InDrop, InRetire
<1>5. ThreadOK(t, b) /\ Keeps(r, b)
  BY <1>1, <1>2, <1>3, <1>4, Differ, LabelTypes DEF StacksDiffer, ThreadOK, Shape, Bottom, CalleeSet,
     LoopSet, SameBut, InCb, InRepop, InInit, InLaunched, InFailed, InRetire, InDrop, Keeps
<1> QED
  BY <1>1, <1>2, <1>4, <1>5, Went DEF Moves, r

LEMMA MqReleaseStep ==
    ASSUME ServerTypeOK, ThreadsOK, NEW t \in Threads, MqRelease(t)
    PROVE  /\ Moves(t, {"dq"}) /\ th[t].dq \in Service
           /\ InFailed(th'[t].pc, th'[t].stack) => InFailed(th[t].pc, th[t].stack)
           /\ mq[th[t].dq].release => th'[t].dq = th[t].dq
           /\ ~mq[th[t].dq].release => th'[t].dq = NULL /\ ~InDrop(th'[t].pc, th'[t].stack)
<1> DEFINE r == th[t]
           a == [r EXCEPT !.pc = "drop"]
           c == [r EXCEPT !.dq = NULL]
           b == Returned(c)
<1>1. r \in Locals /\ ThreadOK(t, r) /\ r.pc = "mq_release"
  BY Here DEF MqRelease, At
<1>2. (mq[r.dq].release /\ Goto(t, a)) \/ (~mq[r.dq].release /\ Goto(t, b))
  BY DEF MqRelease, Jump
<1> HIDE DEF r
<1>3. a \in Locals /\ a.pc = "drop" /\ a.stack = r.stack /\ SameBut(r, a, {})
  BY <1>1, LabelTypes DEF Locals, SameBut
<1>4. c \in Locals /\ c.stack = r.stack /\ c.dq = NULL /\ SameBut(r, c, {"dq"})
  BY <1>1, LabelTypes DEF Locals, SameBut
<1> HIDE DEF a, c
<1>5. After(r, b) /\ SameBut(r, b, {"dq"}) /\ b.dq = NULL
  BY <1>1, <1>4, ReturnedIsAfter DEF SameBut, ThreadOK, Bottom
<1> HIDE DEF b
<1>6. r.stack \in {StCb, StRepop} /\ r.dq \in Service
  BY <1>1, LabelTypes DEF ThreadOK, Shape, CalleeSet, Locals
<1>7. ThreadOK(t, a) /\ (InFailed(a.pc, a.stack) => InFailed(r.pc, r.stack))
  BY <1>1, <1>3, <1>6, Differ DEF StacksDiffer, ThreadOK, Shape, Bottom, CalleeSet, LoopSet, SameBut,
     InCb, InRepop, InInit, InLaunched, InFailed, InRetire, InDrop
<1>8. ~InDrop(r.pc, r.stack)
  BY <1>1, <1>6, Differ DEF StacksDiffer, InDrop
<1>9. ThreadOK(t, b) /\ (InFailed(b.pc, b.stack) => InFailed(r.pc, r.stack)) /\ ~InDrop(b.pc, b.stack)
  BY <1>1, <1>5, <1>8 DEF After, ThreadOK, CalleeSet, LoopSet, SameBut, Callers
<1>10. CASE mq[r.dq].release /\ Goto(t, a)
  BY <1>3, <1>6, <1>7, <1>10, Went DEF Moves, SameBut, r
<1>11. CASE ~mq[r.dq].release /\ Goto(t, b)
  BY <1>5, <1>6, <1>9, <1>11, Went DEF After, Moves, SameBut, r
<1> QED
  BY <1>2, <1>10, <1>11

LEMMA DropStep ==
    ASSUME ServerTypeOK, ThreadsOK, NEW t \in Threads, Drop(t)
    PROVE  /\ Moves(t, {"dq", "dst", "msg"}) /\ Keeps(th[t], th'[t])
           /\ th[t].dq \in Service /\ InDrop(th[t].pc, th[t].stack)
           /\ mq[th[t].dq].msgs = << >> => th'[t].dq = NULL /\ ~InDrop(th'[t].pc, th'[t].stack)
           /\ mq[th[t].dq].msgs # << >> => th'[t].dq = th[t].dq
<1> DEFINE r == th[t]
           ms == mq[r.dq].msgs
           x == [src |-> r.dq, id |-> NULL]
           c == [r EXCEPT !.dq = NULL]
           b == Returned(c)
           e == [r EXCEPT !.dst = Head(ms).src, !.msg = x]
           d == [e EXCEPT !.pc = "send", !.stack = <<"drop">> \o @]
<1>1. r \in Locals /\ ThreadOK(t, r) /\ r.pc = "drop"
  BY Here DEF Drop, At
<1>2. \/ ms = << >> /\ Goto(t, b)
      \/ ms # << >> /\ th' = th
      \/ ms # << >> /\ Head(ms).src # NULL /\ Goto(t, d)
  BY DEF Drop, Call
<1>3. r.stack \in {StCb, StRepop} /\ r.dq \in Service /\ InDrop(r.pc, r.stack)
  BY <1>1, LabelTypes DEF ThreadOK, Shape, CalleeSet, Locals, InDrop
<1>4. ms \in Seq(Msg)
  BY <1>3 DEF ServerTypeOK
<1>5. x \in Msg /\ (ms # << >> => Head(ms) \in Msg)
  <2>1. x \in Msg
    BY <1>3, LabelTypes DEF Msg
  <2> HIDE DEF ms
  <2>2. ms # << >> => Head(ms) \in Msg
    BY <1>4
  <2> QED
    BY <2>1, <2>2
<1>6. ms # << >> => Head(ms).src \in Opt
  BY <1>5 DEF Msg
<1> HIDE DEF r, x, ms
<1>7. c \in Locals /\ c.stack = r.stack /\ c.dq = NULL /\ SameBut(r, c, {"dq"})
  BY <1>1, LabelTypes DEF Locals, SameBut
<1> HIDE DEF c
<1>8. After(r, b) /\ SameBut(r, b, {"dq"}) /\ b.dq = NULL
  BY <1>1, <1>7, ReturnedIsAfter DEF SameBut, ThreadOK, Bottom
<1> HIDE DEF b
<1>9. ThreadOK(t, b) /\ Keeps(r, b) /\ ~InDrop(b.pc, b.stack)
  BY <1>1, <1>8 DEF After, ThreadOK, CalleeSet, LoopSet, SameBut, Callers, Keeps
<1>10. CASE ms = << >> /\ Goto(t, b)
  BY <1>3, <1>8, <1>9, <1>10, Went DEF After, Moves, SameBut, r, ms
<1>11. CASE ms # << >> /\ th' = th
  BY <1>1, <1>3, <1>11 DEF ServerTypeOK, Moves, SameBut, Keeps, r, ms
<1>12. CASE ms # << >> /\ Head(ms).src # NULL /\ Goto(t, d)
  <2>1. <<"drop">> \o r.stack \in Seq(Labels)
    BY <1>1, PushPop DEF Locals
  <2>2. /\ e \in Locals /\ e.stack = r.stack /\ e.dst = Head(ms).src /\ e.msg = x
        /\ SameBut(r, e, {"dst", "msg"})
    BY <1>1, <1>5, <1>6, <1>12, LabelTypes DEF Locals, SameBut
  <2> HIDE DEF e
  <2>3. /\ d \in Locals /\ d.pc = "send" /\ d.stack = <<r.pc>> \o r.stack
        /\ d.dst = Head(ms).src /\ d.msg = x /\ SameBut(r, d, {"dst", "msg"})
    BY <1>1, <2>1, <2>2, LabelTypes DEF Locals, SameBut
  <2> HIDE DEF d
  <2>4. Within(r, d)
    BY <1>1, <2>3, CalledIsWithin DEF ThreadOK, MayCall
  <2>5. ThreadOK(t, d) /\ Keeps(r, d)
    BY <1>1, <1>5, <1>12, <2>3, <2>4 DEF Within, ThreadOK, CalleeSet, LoopSet, SameBut, Keeps
  <2> QED
    BY <1>3, <1>12, <2>3, <2>5, Went DEF Moves, SameBut, r, ms
<1> QED
  BY <1>2, <1>10, <1>11, <1>12

LEMMA WorkerPopStep ==
    ASSUME ServerTypeOK, ThreadsOK, NEW w \in Worker, WorkerPop(w)
    PROVE  /\ Moves(w, {"q"}) /\ Keeps(th[w], th'[w]) /\ th[w].q = NULL
           /\ Q # << >> => th'[w].q = Head(Q)
           /\ Q = << >> => th'[w].q = NULL
<1> DEFINE r == th[w]
           l == IF r.pc = "idle" THEN "grab" ELSE "idle"
           a == [r EXCEPT !.q = Head(Q), !.pc = l]
           b == [r EXCEPT !.pc = "tired"]
<1>0. w \in Threads
  BY DEF Threads
<1>1. r \in Locals /\ ThreadOK(w, r) /\ r.pc \in {"idle", "repop"} /\ r.q = NULL
  BY <1>0, Here DEF WorkerPop, At
<1>2. (Q # << >> /\ Goto(w, a)) \/ (Q = << >> /\ Goto(w, b))
  BY DEF WorkerPop, Jump
<1>3. Q # << >> => Head(Q) \in Service
  BY DEF ServerTypeOK
<1>4. l \in {"idle", "grab"}
  OBVIOUS
<1> HIDE DEF r, l
<1>5. Q # << >> => a \in Locals /\ a.pc = l /\ a.stack = r.stack /\ a.q = Head(Q) /\ SameBut(r, a, {"q"})
  BY <1>1, <1>3, <1>4, LabelTypes DEF Locals, SameBut
<1>6. b \in Locals /\ b.pc = "tired" /\ b.stack = r.stack /\ SameBut(r, b, {})
  BY <1>1, LabelTypes DEF Locals, SameBut
<1> HIDE DEF a, b
<1>7. r.stack = << >>
  BY <1>1 DEF ThreadOK, Shape, Bottom
<1>8. Q # << >> => ThreadOK(w, a) /\ Keeps(r, a)
  BY <1>1, <1>3, <1>4, <1>5, <1>7, LabelTypes, Differ DEF StacksDiffer, ThreadOK, Shape, Bottom, CalleeSet, LoopSet,
     SameBut, InCb, InRepop, InInit, InLaunched, InFailed, InRetire, InDrop, Keeps
<1>9. ThreadOK(w, b) /\ Keeps(r, b)
  BY <1>1, <1>6, <1>7, Differ DEF StacksDiffer, ThreadOK, Shape, Bottom, CalleeSet, LoopSet,
     SameBut, InCb, InRepop, InInit, InLaunched, InFailed, InRetire, InDrop, Keeps
<1>10. CASE Q # << >> /\ Goto(w, a)
  BY <1>0, <1>1, <1>5, <1>8, <1>10, Went DEF Moves, r
<1>11. CASE Q = << >> /\ Goto(w, b)
  BY <1>0, <1>1, <1>6, <1>9, <1>11, Went DEF Moves, SameBut, r
<1> QED
  BY <1>2, <1>10, <1>11

(* Steps of the loop of a worker that change no more than the label. *)
LEMMA WorkerJumpStep ==
    ASSUME ServerTypeOK, ThreadsOK, NEW w \in Worker,
           WorkerAgain(w) \/ WorkerExit(w) \/ Sleep(w) \/ Wakeup(w) \/ CallbackReturn(w)
    PROVE  Moves(w, {}) /\ Keeps(th[w], th'[w])
<1> DEFINE r == th[w]
           b(l) == [r EXCEPT !.pc = l]
<1>0. w \in Threads
  BY DEF Threads
<1>1. r \in Locals /\ ThreadOK(w, r)
  BY <1>0, Here
<1> DEFINE Jumps(l) ==
         \/ r.pc = "idle" /\ l = "grab" /\ r.q # NULL
         \/ r.pc = "idle" /\ l = "exit"
         \/ r.pc \in {"tired", "asleep"} /\ l \in {"idle", "asleep"}
         \/ r.pc = "cb" /\ l = "pop" /\ r.n > 0
         \/ r.pc = "cb" /\ l = "next"
<1>2. \E l : Goto(w, b(l)) /\ Jumps(l)
  <2>1. CASE WorkerAgain(w)
    BY <2>1 DEF WorkerAgain, At, Jump
  <2>2. CASE WorkerExit(w)
    BY <2>2 DEF WorkerExit, At, Jump
  <2>3. CASE Sleep(w)
    <3> DEFINE l == IF quit THEN "idle" ELSE "asleep"
    <3>1. Goto(w, b(l)) /\ Jumps(l)
      BY <2>3 DEF Sleep, At, Jump
    <3> QED
      BY <3>1
  <2>4. CASE Wakeup(w)
    BY <2>4 DEF Wakeup, At, Jump
  <2>5. CASE CallbackReturn(w)
    <3> DEFINE l == IF r.n > 0 THEN "pop" ELSE "next"
    <3>1. Goto(w, b(l)) /\ Jumps(l)
      BY <2>5 DEF CallbackReturn, At, Jump
    <3> QED
      BY <3>1
  <2> QED
    BY <2>1, <2>2, <2>3, <2>4, <2>5
<1>3. PICK l : Goto(w, b(l)) /\ Jumps(l)
  BY <1>2
<1> DEFINE c == b(l)
<1> HIDE DEF r
<1>4. c \in Locals /\ c.pc = l /\ c.stack = r.stack /\ SameBut(r, c, {}) /\ Goto(w, c)
  BY <1>1, <1>3, LabelTypes DEF Locals, SameBut
<1> HIDE DEF c
<1>5. r.stack = << >>
  BY <1>1, <1>3 DEF ThreadOK, Shape, Bottom
<1>6. ThreadOK(w, c) /\ Keeps(r, c)
  BY <1>1, <1>3, <1>4, <1>5, Differ DEF StacksDiffer, ThreadOK, Shape, Bottom, CalleeSet, LoopSet,
     SameBut, InCb, InRepop, InInit, InLaunched, InFailed, InRetire, InDrop, Keeps
<1> QED
  BY <1>0, <1>4, <1>6, Went DEF Moves, r

LEMMA DispatchGrabStep ==
    ASSUME ServerTypeOK, ThreadsOK, NEW w \in Worker, DispatchGrab(w)
    PROVE  /\ Keeps(th[w], th'[w]) /\ th[w].q \in Service /\ th[w].ctx = NULL /\ th[w].dq = NULL
           /\ th[w].q \in slot => Moves(w, {"ctx", "n"}) /\ th'[w].ctx = th[w].q
           /\ th[w].q \notin slot => Moves(w, {"dq", "q"}) /\ th'[w].dq = th[w].q /\ th'[w].q = NULL
<1> DEFINE r == th[w]
           a == [r EXCEPT !.pc = "pop", !.ctx = r.q, !.n = 1, !.first = TRUE]
           c == [r EXCEPT !.dq = r.q, !.q = NULL]
           b == [c EXCEPT !.pc = "mq_release", !.stack = <<"repop">> \o @]
<1>0. w \in Threads
  BY DEF Threads
<1>1. r \in Locals /\ ThreadOK(w, r) /\ r.pc = "grab"
  BY <1>0, Here DEF DispatchGrab, At
<1>2. (r.q \in slot /\ Goto(w, a)) \/ (r.q \notin slot /\ Goto(w, b))
  BY DEF DispatchGrab, Call
<1> HIDE DEF r
<1>3. r.stack = << >> /\ <<"repop">> \o r.stack = StRepop
  <2>1. r.stack = << >>
    BY <1>1 DEF ThreadOK, Shape, Bottom
  <2> QED
    BY <2>1 DEF StRepop
<1>4. r.q \in Service /\ r.ctx = NULL /\ r.dq = NULL
  BY <1>1, <1>3, LabelTypes, Differ DEF StacksDiffer, ThreadOK, CalleeSet, LoopSet, Locals, InCb, InDrop
<1>5. /\ a \in Locals /\ a.pc = "pop" /\ a.stack = r.stack /\ a.ctx = r.q /\ a.n = 1
      /\ SameBut(r, a, {"ctx", "n"})
  BY <1>1, LabelTypes DEF Locals, SameBut
<1>6. /\ c \in Locals /\ c.stack = r.stack /\ c.dq = r.q /\ c.q = NULL /\ SameBut(r, c, {"dq", "q"})
  BY <1>1, LabelTypes DEF Locals, SameBut
<1> HIDE DEF a, c
<1>7. /\ b \in Locals /\ b.pc = "mq_release" /\ b.stack = StRepop /\ b.dq = r.q /\ b.q = NULL
      /\ SameBut(r, b, {"dq", "q"})
  <2>1. StRepop \in Seq(Labels)
    BY Stacks DEF StackFacts
  <2> QED
    BY <1>3, <1>6, <2>1, LabelTypes DEF Locals, SameBut
<1> HIDE DEF b
<1>8. ThreadOK(w, a) /\ Keeps(r, a)
  BY <1>1, <1>3, <1>4, <1>5, LabelTypes, Differ DEF StacksDiffer, ThreadOK, Shape, Bottom, CalleeSet, LoopSet,
     SameBut, InCb, InRepop, InInit, InLaunched, InFailed, InRetire, InDrop, Keeps
<1>9. ThreadOK(w, b) /\ Keeps(r, b)
  BY <1>1, <1>3, <1>4, <1>7, LabelTypes, Differ DEF StacksDiffer, ThreadOK, Shape, Bottom, CalleeSet, LoopSet,
     SameBut, InCb, InRepop, InInit, InLaunched, InFailed, InRetire, InDrop, Keeps
<1>10. CASE r.q \in slot /\ Goto(w, a)
  BY <1>0, <1>4, <1>5, <1>8, <1>10, Went DEF Moves, r
<1>11. CASE r.q \notin slot /\ Goto(w, b)
  BY <1>0, <1>4, <1>7, <1>9, <1>11, Went DEF Moves, r
<1> QED
  BY <1>2, <1>10, <1>11

LEMMA DispatchPopStep ==
    ASSUME ServerTypeOK, ThreadsOK, NEW w \in Worker, DispatchPop(w)
    PROVE  /\ Moves(w, {"q", "n"}) /\ Keeps(th[w], th'[w])
           /\ th[w].q \in Service /\ th[w].q = th[w].ctx
           /\ mq[th[w].q].msgs = << >> => th'[w].q = NULL
           /\ mq[th[w].q].msgs # << >> => th'[w].q = th[w].q
<1> DEFINE r == th[w]
           ms == mq[r.q].msgs
           a == [r EXCEPT !.pc = "empty", !.q = NULL, !.n = 0, !.first = FALSE]
           l == IF r.first /\ Weight[w] >= 0 THEN "length" ELSE "cb"
           b == [r EXCEPT !.pc = l, !.first = FALSE, !.n = @ - 1]
<1>0. w \in Threads
  BY DEF Threads
<1>1. r \in Locals /\ ThreadOK(w, r) /\ r.pc = "pop"
  BY <1>0, Here DEF DispatchPop, At
<1>2. (ms = << >> /\ Goto(w, a)) \/ (ms # << >> /\ Goto(w, b))
  BY DEF DispatchPop, Dispatched
<1>3. l \in {"length", "cb"} /\ (l = "length" => Weight[w] >= 0)
  OBVIOUS
<1> HIDE DEF r, l, ms
<1>4. r.stack = << >> /\ r.q \in Service /\ r.q = r.ctx /\ r.n \in Nat /\ r.n > 0
  BY <1>1, LabelTypes DEF ThreadOK, Shape, Bottom, CalleeSet, LoopSet, Locals
<1>5. /\ a \in Locals /\ a.pc = "empty" /\ a.stack = r.stack /\ a.q = NULL
      /\ SameBut(r, a, {"q", "n"})
  BY <1>1, LabelTypes DEF Locals, SameBut
<1>6. r.n - 1 \in Nat
  BY <1>4
<1>7. b \in Locals /\ b.pc = l /\ b.stack = r.stack /\ SameBut(r, b, {"n"})
  BY <1>1, <1>3, <1>6, LabelTypes DEF Locals, SameBut
<1> HIDE DEF a, b
<1>8. ThreadOK(w, a) /\ Keeps(r, a)
  BY <1>1, <1>4, <1>5, LabelTypes, Differ DEF StacksDiffer, ThreadOK, Shape, Bottom, CalleeSet, LoopSet,
     SameBut, InCb, InRepop, InInit, InLaunched, InFailed, InRetire, InDrop, Keeps
<1>9. ThreadOK(w, b) /\ Keeps(r, b)
  BY <1>1, <1>3, <1>4, <1>7, LabelTypes, Differ DEF StacksDiffer, ThreadOK, Shape, Bottom, CalleeSet, LoopSet,
     SameBut, InCb, InRepop, InInit, InLaunched, InFailed, InRetire, InDrop, Keeps
<1>10. CASE ms = << >> /\ Goto(w, a)
  BY <1>0, <1>4, <1>5, <1>8, <1>10, Went DEF Moves, r, ms
<1>11. CASE ms # << >> /\ Goto(w, b)
  BY <1>0, <1>4, <1>7, <1>9, <1>11, Went DEF Moves, SameBut, r, ms
<1> QED
  BY <1>2, <1>10, <1>11

LEMMA ShiftRightNat == ASSUME NEW n \in Nat, NEW k \in 0..3 PROVE ShiftRight(n, k) \in Nat
<1> DEFINE p == <<1, 2, 4, 8>>[k + 1]
<1>1. p \in {1, 2, 4, 8}
  OBVIOUS
<1> HIDE DEF p
<1>2. n \div p \in Nat
  BY <1>1
<1> QED
  BY <1>2 DEF ShiftRight, p

LEMMA DispatchLengthStep ==
    ASSUME ServerTypeOK, ThreadsOK, NEW w \in Worker, DispatchLength(w)
    PROVE  Moves(w, {"n"}) /\ Keeps(th[w], th'[w])
<1> DEFINE r == th[w]
           n == ShiftRight(Len(mq[r.q].msgs), Weight[w])
           k == IF n = 0 THEN 0 ELSE n - 1
           b == [r EXCEPT !.pc = "cb", !.n = k]
<1>0. w \in Threads
  BY DEF Threads
<1>1. r \in Locals /\ ThreadOK(w, r) /\ r.pc = "length" /\ Goto(w, b)
  BY <1>0, Here DEF DispatchLength, At
<1>2. k \in Nat
  <2>1. r.q \in Service /\ Weight[w] >= 0
    BY <1>1, LabelTypes DEF ThreadOK, LoopSet, Locals
  <2>2. mq[r.q].msgs \in Seq(Msg)
    BY <2>1 DEF ServerTypeOK
  <2>3. Len(mq[r.q].msgs) \in Nat
    BY <2>2
  <2>4. Weight[w] \in 0..3
    BY <2>1, ServerAssumption
  <2>5. n \in Nat
    BY <2>3, <2>4, ShiftRightNat
  <2> HIDE DEF n
  <2> QED
    BY <2>5
<1> HIDE DEF r, k
<1>3. r.stack = << >>
  BY <1>1 DEF ThreadOK, Shape, Bottom
<1>4. b \in Locals /\ b.pc = "cb" /\ b.stack = r.stack /\ SameBut(r, b, {"n"})
  BY <1>1, <1>2, LabelTypes DEF Locals, SameBut
<1> HIDE DEF b
<1>5. ThreadOK(w, b) /\ Keeps(r, b)
  BY <1>1, <1>3, <1>4, Differ DEF StacksDiffer, ThreadOK, Shape, Bottom, CalleeSet, LoopSet,
     SameBut, InCb, InRepop, InInit, InLaunched, InFailed, InRetire, InDrop, Keeps
<1> QED
  BY <1>0, <1>1, <1>4, <1>5, Went DEF Moves, r

LEMMA DispatchReleaseStep ==
    ASSUME ServerTypeOK, ThreadsOK, NEW w \in Worker, DispatchEmpty(w) \/ DispatchDone(w)
    PROVE  /\ Moves(w, {"ctx", "victim"}) /\ Keeps(th[w], th'[w])
           /\ GivesBack(w, th[w].ctx, "ctx")
<1> DEFINE r == th[w]
           l == IF r.pc = "empty" THEN "repop" ELSE "idle"
           b == [r EXCEPT !.pc = l, !.ctx = NULL]
<1>0. w \in Threads
  BY DEF Threads
<1>1. r \in Locals /\ ThreadOK(w, r) /\ r.pc \in {"empty", "done"} /\ Release(w, r.ctx, b)
  BY <1>0, Here DEF DispatchEmpty, DispatchDone, At
<1>2. (r.pc = "empty" /\ l = "repop") \/ (r.pc = "done" /\ l = "idle")
  BY <1>1
<1> HIDE DEF r, l
<1>3. b \in Locals /\ b.pc = l /\ b.stack = r.stack /\ b.ctx = NULL /\ SameBut(r, b, {"ctx"})
  BY <1>1, <1>2, LabelTypes DEF Locals, SameBut
<1> HIDE DEF b
<1>4. r.stack = << >> /\ r.ctx \in Service /\ r.victim = NULL
  BY <1>1, LabelTypes DEF ThreadOK, Shape, Bottom, CalleeSet, LoopSet, Locals
<1>5. ThreadOK(w, b) /\ Keeps(r, b)
  BY <1>1, <1>2, <1>3, <1>4, Differ DEF StacksDiffer, ThreadOK, Shape, Bottom, CalleeSet, LoopSet,
     SameBut, InCb, InRepop, InInit, InLaunched, InFailed, InRetire, InDrop, Keeps
<1>6. /\ th' \in [Threads -> Locals] /\ ThreadOK(w, th'[w])
      /\ \A u \in Threads \ {w} : th'[u] = th[u]
      /\ SameBut(b, th'[w], {"victim"}) /\ Keeps(b, th'[w])
      /\ refs[r.ctx] = 1 => th'[w].victim = r.ctx
      /\ refs[r.ctx] # 1 => th'[w].victim = NULL
  BY <1>0, <1>1, <1>2, <1>3, <1>4, <1>5, ReleaseStep, Differ DEF Callers, StacksDiffer
<1> QED
  BY <1>3, <1>4, <1>5, <1>6 DEF Moves, SameBut, Keeps, GivesBack, r

LEMMA DispatchNextStep ==
    ASSUME ServerTypeOK, ThreadsOK, NEW w \in Worker, DispatchNext(w)
    PROVE  /\ Moves(w, {"nq"}) /\ Keeps(th[w], th'[w]) /\ th[w].nq = NULL
           /\ Q # << >> => th'[w].nq = Head(Q)
           /\ Q = << >> => th'[w].nq = NULL
<1> DEFINE r == th[w]
           a == [r EXCEPT !.pc = "push_back", !.nq = Head(Q)]
           b == [r EXCEPT !.pc = "done"]
<1>0. w \in Threads
  BY DEF Threads
<1>1. r \in Locals /\ ThreadOK(w, r) /\ r.pc = "next"
  BY <1>0, Here DEF DispatchNext, At
<1>2. (Q # << >> /\ Goto(w, a)) \/ (Q = << >> /\ Goto(w, b))
  BY DEF DispatchNext, Jump
<1>3. Q # << >> => Head(Q) \in Service
  BY DEF ServerTypeOK
<1> HIDE DEF r
<1>4. Q # << >> => /\ a \in Locals /\ a.pc = "push_back" /\ a.stack = r.stack /\ a.nq = Head(Q)
                   /\ SameBut(r, a, {"nq"})
  BY <1>1, <1>3, LabelTypes DEF Locals, SameBut
<1>5. b \in Locals /\ b.pc = "done" /\ b.stack = r.stack /\ SameBut(r, b, {})
  BY <1>1, LabelTypes DEF Locals, SameBut
<1> HIDE DEF a, b
<1>6. r.stack = << >> /\ r.nq = NULL
  BY <1>1 DEF ThreadOK, Shape, Bottom, CalleeSet
<1>7. Q # << >> => ThreadOK(w, a) /\ Keeps(r, a)
  BY <1>1, <1>3, <1>4, <1>6, LabelTypes, Differ DEF StacksDiffer, ThreadOK, Shape, Bottom, CalleeSet, LoopSet,
     SameBut, InCb, InRepop, InInit, InLaunched, InFailed, InRetire, InDrop, Keeps
<1>8. ThreadOK(w, b) /\ Keeps(r, b)
  BY <1>1, <1>5, <1>6, Differ DEF StacksDiffer, ThreadOK, Shape, Bottom, CalleeSet, LoopSet,
     SameBut, InCb, InRepop, InInit, InLaunched, InFailed, InRetire, InDrop, Keeps
<1>9. CASE Q # << >> /\ Goto(w, a)
  BY <1>0, <1>4, <1>6, <1>7, <1>9, Went DEF Moves, r
<1>10. CASE Q = << >> /\ Goto(w, b)
  BY <1>0, <1>5, <1>6, <1>8, <1>10, Went DEF Moves, SameBut, r
<1> QED
  BY <1>2, <1>9, <1>10

LEMMA DispatchPushBackStep ==
    ASSUME ServerTypeOK, ThreadsOK, NEW w \in Worker, DispatchPushBack(w)
    PROVE  /\ Moves(w, {"q", "nq"}) /\ Keeps(th[w], th'[w])
           /\ th[w].q \in Service /\ th[w].nq \in Service
           /\ th'[w].q = th[w].nq /\ th'[w].nq = NULL
<1> DEFINE r == th[w]
           b == [r EXCEPT !.pc = "done", !.q = r.nq, !.nq = NULL]
<1>0. w \in Threads
  BY DEF Threads
<1>1. r \in Locals /\ ThreadOK(w, r) /\ r.pc = "push_back" /\ Goto(w, b)
  BY <1>0, Here DEF DispatchPushBack, At
<1> HIDE DEF r
<1>2. /\ b \in Locals /\ b.pc = "done" /\ b.stack = r.stack /\ b.q = r.nq /\ b.nq = NULL
      /\ SameBut(r, b, {"q", "nq"})
  BY <1>1, LabelTypes DEF Locals, SameBut
<1> HIDE DEF b
<1>3. r.stack = << >> /\ r.q \in Service /\ r.nq \in Service
  BY <1>1, LabelTypes DEF ThreadOK, Shape, Bottom, CalleeSet, LoopSet, Locals
<1>4. ThreadOK(w, b) /\ Keeps(r, b)
  BY <1>1, <1>2, <1>3, LabelTypes, Differ DEF StacksDiffer, ThreadOK, Shape, Bottom, CalleeSet, LoopSet,
     SameBut, InCb, InRepop, InInit, InLaunched, InFailed, InRetire, InDrop, Keeps
<1> QED
  BY <1>0, <1>1, <1>2, <1>3, <1>4, Went DEF Moves, r

(* ------------------------------------------------------------------------ *)
(* The references.                                                          *)

OwnNames == {"ctx", "new", "tgt"}

(* Thread t changes no local that owns a reference but f. *)
OnlyOwn(t, f) ==
    /\ th' \in [Threads -> Locals]
    /\ \A u \in Threads \ {t} : th'[u] = th[u]
    /\ \A g \in OwnNames \ {f} : th'[t][g] = th[t][g]

LEMMA HolderCount ==
    ASSUME NEW s \in Service
    PROVE  /\ IsFiniteSet(Holders(s)) /\ Cardinality(Holders(s)) \in Nat
           /\ \A h \in Holders(s) : Cardinality(Holders(s)) > 0
<1>1. IsFiniteSet(Threads) /\ IsFiniteSet(OwnNames)
  <2>1. IsFiniteSet({"ctx"}) /\ IsFiniteSet({"new"}) /\ IsFiniteSet({"tgt"})
    BY FS_Singleton
  <2>2. IsFiniteSet({"ctx"} \cup {"new"})
    BY <2>1, FS_Union
  <2>3. IsFiniteSet(({"ctx"} \cup {"new"}) \cup {"tgt"})
    BY <2>1, <2>2, FS_Union
  <2>4. OwnNames = ({"ctx"} \cup {"new"}) \cup {"tgt"}
    BY DEF OwnNames
  <2> QED
    BY <2>3, <2>4, ServerAssumption
<1>2. IsFiniteSet(Threads \X OwnNames)
  BY <1>1, FS_Product
<1>3. IsFiniteSet(Holders(s))
  BY <1>2, FS_Subset DEF Holders, OwnNames
<1>4. Cardinality(Holders(s)) \in Nat
  BY <1>3, FS_CardinalityType
<1>5. Holders(s) # {} => Cardinality(Holders(s)) # 0
  BY <1>3, FS_EmptySet
<1> QED
  BY <1>3, <1>4, <1>5

LEMMA HolderMoves ==
    ASSUME ServerTypeOK, NEW t \in Threads, NEW f \in OwnNames, OnlyOwn(t, f), NEW s \in Service
    PROVE  /\ th[t][f] # s /\ th'[t][f] # s => Cardinality(Holders(s))' = Cardinality(Holders(s))
           /\ th[t][f] = s /\ th'[t][f] = s => Cardinality(Holders(s))' = Cardinality(Holders(s))
           /\ th[t][f] # s /\ th'[t][f] = s => Cardinality(Holders(s))' = Cardinality(Holders(s)) + 1
           /\ th[t][f] = s /\ th'[t][f] # s => Cardinality(Holders(s))' = Cardinality(Holders(s)) - 1
<1> DEFINE H == {h \in Threads \X OwnNames : th[h[1]][h[2]] = s}
           K == {h \in Threads \X OwnNames : th'[h[1]][h[2]] = s}
<1>1. Holders(s) = H /\ Holders(s)' = K
  BY DEF Holders, OwnNames
<1>2. \A h \in Threads \X OwnNames : h # <<t, f>> => th'[h[1]][h[2]] = th[h[1]][h[2]]
  BY DEF OnlyOwn
<1>3. <<t, f>> \in Threads \X OwnNames
  OBVIOUS
<1>4. IsFiniteSet(H) /\ Cardinality(H) \in Nat
  BY <1>1, HolderCount
<1>5. th[t][f] # s /\ th'[t][f] # s => K = H
  BY <1>2
<1>6. th[t][f] = s /\ th'[t][f] = s => K = H
  BY <1>2
<1>7. th[t][f] # s /\ th'[t][f] = s => <<t, f>> \notin H /\ K = H \cup {<<t, f>>}
  BY <1>2, <1>3
<1>8. th[t][f] = s /\ th'[t][f] # s => <<t, f>> \in H /\ K = H \ {<<t, f>>}
  BY <1>2, <1>3
<1> HIDE DEF H, K
<1>9. <<t, f>> \notin H => Cardinality(H \cup {<<t, f>>}) = Cardinality(H) + 1
  BY <1>4, FS_AddElement
<1>10. <<t, f>> \in H => Cardinality(H \ {<<t, f>>}) = Cardinality(H) - 1
  BY <1>4, FS_RemoveElement
<1> QED
  BY <1>1, <1>5, <1>6, <1>7, <1>8, <1>9, <1>10

(* No reference is taken or given back. *)
LEMMA RefKeep ==
    ASSUME ServerInv, NEW t \in Threads, NEW F, Moves(t, F),
           "ctx" \notin F /\ "new" \notin F /\ "tgt" \notin F /\ "victim" \notin F,
           UNCHANGED <<refs, slot, ctx>>
    PROVE  RefInv'
<1>1. OnlyOwn(t, "ctx") /\ th'[t].ctx = th[t].ctx /\ \A u \in Threads : th'[u].victim = th[u].victim
  BY DEF Moves, SameBut, OnlyOwn, OwnNames
<1>2. \A s \in Service : Cardinality(Holders(s))' = Cardinality(Holders(s))
  BY <1>1, HolderMoves DEF ServerInv, OwnNames
<1> QED
  BY <1>1, <1>2 DEF ServerInv, RefInv

(* skynet_handle_grab: a reference for local f. *)
LEMMA RefGrab ==
    ASSUME ServerInv, NEW t \in Threads, NEW s \in slot, NEW f \in OwnNames, OnlyOwn(t, f),
           th'[t].victim = th[t].victim, th[t][f] = NULL, th'[t][f] = s,
           refs' = [refs EXCEPT ![s] = @ + 1], UNCHANGED <<slot, ctx>>
    PROVE  RefInv' /\ refs' \in [Service -> Nat]
<1>1. s \in Service /\ s # NULL /\ NULL \notin Service
  BY LabelTypes DEF ServerInv, ServerTypeOK
<1>2. /\ Cardinality(Holders(s))' = Cardinality(Holders(s)) + 1
      /\ \A z \in Service \ {s} : Cardinality(Holders(z))' = Cardinality(Holders(z))
  BY <1>1, HolderMoves DEF ServerInv
<1>3. \A z \in Service : Cardinality(Holders(z)) \in Nat
  BY HolderCount
<1>4. \A u \in Threads : th'[u].victim = th[u].victim
  BY DEF OnlyOwn
<1>5. /\ refs \in [Service -> Nat] /\ refs'[s] = refs[s] + 1
      /\ \A z \in Service \ {s} : refs'[z] = refs[z]
  BY <1>1 DEF ServerInv, ServerTypeOK
<1>6. refs[s] > 0
  BY <1>1, <1>3 DEF ServerInv, RefInv
<1>7. \A u \in Threads : th[u].victim # NULL => th[u].victim # s /\ th[u].victim \in Service
  BY <1>6, LabelTypes DEF ServerInv, RefInv, ServerTypeOK, Locals
<1>8. refs' \in [Service -> Nat]
  BY <1>1, <1>5
<1>9. \A z \in Service : refs'[z] = Cardinality(Holders(z))' + (IF z \in slot THEN 1 ELSE 0)
  BY <1>1, <1>2, <1>3, <1>5 DEF ServerInv, RefInv
<1>10. \A z \in Service : refs'[z] > 0 => ctx[z] = "alive"
  BY <1>1, <1>5, <1>6 DEF ServerInv, RefInv
<1>11. \A z \in Service : ctx[z] = "alive" /\ refs'[z] = 0 => \E u \in Threads : th'[u].victim = z
  BY <1>1, <1>4, <1>5, <1>6 DEF ServerInv, RefInv
<1>12. \A u \in Threads : th'[u].victim # NULL => refs'[th'[u].victim] = 0 /\ ctx[th'[u].victim] = "alive"
  BY <1>4, <1>5, <1>7 DEF ServerInv, RefInv
<1>13. \A u, v \in Threads : th'[u].victim = th'[v].victim /\ th'[u].victim # NULL => u = v
  BY <1>4 DEF ServerInv, RefInv
<1> QED
  BY <1>8, <1>9, <1>10, <1>11, <1>12, <1>13 DEF RefInv

(* skynet_context_release of the reference in local f. *)
LEMMA RefRelease ==
    ASSUME ServerInv, NEW t \in Threads, NEW f \in OwnNames, OnlyOwn(t, f), NEW s \in Service,
           GivesBack(t, s, f), refs' = [refs EXCEPT ![s] = @ - 1], UNCHANGED <<slot, ctx>>
    PROVE  RefInv' /\ refs' \in [Service -> Nat]
<1>1. s # NULL /\ NULL \notin Service
  BY LabelTypes
<1>2. /\ Cardinality(Holders(s))' = Cardinality(Holders(s)) - 1
      /\ \A z \in Service \ {s} : Cardinality(Holders(z))' = Cardinality(Holders(z))
  BY <1>1, HolderMoves DEF ServerInv, GivesBack
<1>3. \A z \in Service : Cardinality(Holders(z)) \in Nat
  BY HolderCount
<1>4. Cardinality(Holders(s)) > 0
  <2>1. <<t, f>> \in Holders(s)
    BY DEF GivesBack, Holders, OwnNames
  <2> QED
    BY <2>1, HolderCount
<1>5. /\ refs \in [Service -> Nat] /\ refs'[s] = refs[s] - 1
      /\ \A z \in Service \ {s} : refs'[z] = refs[z]
  BY DEF ServerInv, ServerTypeOK
<1>6. refs[s] > 0
  BY <1>3, <1>4 DEF ServerInv, RefInv
<1>7. \A u \in Threads : th[u].victim # NULL => th[u].victim # s /\ th[u].victim \in Service
  BY <1>6, LabelTypes DEF ServerInv, RefInv, ServerTypeOK, Locals
<1>8. refs' \in [Service -> Nat]
  BY <1>5, <1>6
<1>9. \A z \in Service : refs'[z] = Cardinality(Holders(z))' + (IF z \in slot THEN 1 ELSE 0)
  BY <1>2, <1>3, <1>5 DEF ServerInv, RefInv
<1>10. \A z \in Service : refs'[z] > 0 => ctx[z] = "alive"
  BY <1>5, <1>6 DEF ServerInv, RefInv
<1>11. \A u \in Threads \ {t} : th'[u].victim = th[u].victim
  BY DEF OnlyOwn
<1>12. th'[t].victim = IF refs[s] = 1 THEN s ELSE NULL
  BY DEF GivesBack
<1>13. \A z \in Service : ctx[z] = "alive" /\ refs'[z] = 0 => \E u \in Threads : th'[u].victim = z
  <2> SUFFICES ASSUME NEW z \in Service, ctx[z] = "alive", refs'[z] = 0
               PROVE  \E u \in Threads : th'[u].victim = z
    OBVIOUS
  <2>1. CASE z = s
    BY <1>5, <1>12, <2>1
  <2>2. CASE z # s
    <3>1. PICK u \in Threads : th[u].victim = z
      BY <1>5, <2>2 DEF ServerInv, RefInv
    <3>2. u # t
      BY <3>1, LabelTypes DEF GivesBack
    <3> QED
      BY <1>11, <3>1, <3>2
  <2> QED
    BY <2>1, <2>2
<1>14. \A u \in Threads : th'[u].victim # NULL => refs'[th'[u].victim] = 0 /\ ctx[th'[u].victim] = "alive"
  <2>1. th'[t].victim # NULL => refs'[s] = 0 /\ ctx[s] = "alive" /\ th'[t].victim = s
    BY <1>5, <1>6, <1>12 DEF ServerInv, RefInv
  <2>2. \A u \in Threads \ {t} : th'[u].victim # NULL => refs'[th'[u].victim] = 0 /\ ctx[th'[u].victim] = "alive"
    BY <1>5, <1>7, <1>11 DEF ServerInv, RefInv
  <2> QED
    BY <2>1, <2>2
<1>15. \A u, v \in Threads : th'[u].victim = th'[v].victim /\ th'[u].victim # NULL => u = v
  BY <1>7, <1>11, <1>12 DEF ServerInv, RefInv
<1> QED
  BY <1>8, <1>9, <1>10, <1>13, <1>14, <1>15 DEF RefInv

(* skynet_handle_retire: the reference of the handle table goes. *)
LEMMA RefRetire ==
    ASSUME ServerInv, NEW t \in Threads, NEW s \in slot, Moves(t, {"kill", "victim"}),
           refs[s] = 1 => th'[t].victim = s, refs[s] # 1 => th'[t].victim = NULL,
           th[t].victim = NULL, refs' = [refs EXCEPT ![s] = @ - 1], slot' = slot \ {s}, UNCHANGED ctx
    PROVE  RefInv' /\ refs' \in [Service -> Nat]
<1>1. s \in Service /\ s # NULL /\ NULL \notin Service
  BY LabelTypes DEF ServerInv, ServerTypeOK
<1>2. \A z \in Service : Cardinality(Holders(z))' = Cardinality(Holders(z))
  <2>1. OnlyOwn(t, "ctx") /\ th'[t].ctx = th[t].ctx
    BY DEF Moves, SameBut, OnlyOwn, OwnNames
  <2> QED
    BY <2>1, HolderMoves DEF ServerInv, OwnNames
<1>3. \A z \in Service : Cardinality(Holders(z)) \in Nat
  BY HolderCount
<1>4. /\ refs \in [Service -> Nat] /\ refs'[s] = refs[s] - 1
      /\ \A z \in Service \ {s} : refs'[z] = refs[z]
  BY <1>1 DEF ServerInv, ServerTypeOK
<1>5. refs[s] > 0
  BY <1>1, <1>3 DEF ServerInv, RefInv
<1>6. \A u \in Threads : th[u].victim # NULL => th[u].victim # s /\ th[u].victim \in Service
  BY <1>5, LabelTypes DEF ServerInv, RefInv, ServerTypeOK, Locals
<1>7. refs' \in [Service -> Nat]
  BY <1>1, <1>4, <1>5
<1>8. \A z \in Service : refs'[z] = Cardinality(Holders(z))' + (IF z \in slot' THEN 1 ELSE 0)
  BY <1>1, <1>2, <1>3, <1>4 DEF ServerInv, RefInv
<1>9. \A z \in Service : refs'[z] > 0 => ctx[z] = "alive"
  BY <1>1, <1>4, <1>5 DEF ServerInv, RefInv
<1>10. \A u \in Threads \ {t} : th'[u].victim = th[u].victim
  BY DEF Moves
<1>11. th'[t].victim = IF refs[s] = 1 THEN s ELSE NULL
  OBVIOUS
<1>12. \A z \in Service : ctx[z] = "alive" /\ refs'[z] = 0 => \E u \in Threads : th'[u].victim = z
  <2> SUFFICES ASSUME NEW z \in Service, ctx[z] = "alive", refs'[z] = 0
               PROVE  \E u \in Threads : th'[u].victim = z
    OBVIOUS
  <2>1. CASE z = s
    BY <1>4, <1>11, <2>1
  <2>2. CASE z # s
    <3>1. PICK u \in Threads : th[u].victim = z
      BY <1>4, <2>2 DEF ServerInv, RefInv
    <3>2. u # t
      BY <3>1, LabelTypes
    <3> QED
      BY <1>10, <3>1, <3>2
  <2> QED
    BY <2>1, <2>2
<1>13. \A u \in Threads : th'[u].victim # NULL => refs'[th'[u].victim] = 0 /\ ctx[th'[u].victim] = "alive"
  <2>1. th'[t].victim # NULL => refs'[s] = 0 /\ ctx[s] = "alive" /\ th'[t].victim = s
    BY <1>1, <1>4, <1>5, <1>11 DEF ServerInv, RefInv
  <2>2. \A u \in Threads \ {t} : th'[u].victim # NULL => refs'[th'[u].victim] = 0 /\ ctx[th'[u].victim] = "alive"
    BY <1>4, <1>6, <1>10 DEF ServerInv, RefInv
  <2> QED
    BY <2>1, <2>2
<1>14. \A u, v \in Threads : th'[u].victim = th'[v].victim /\ th'[u].victim # NULL => u = v
  BY <1>6, <1>10, <1>11 DEF ServerInv, RefInv
<1> QED
  BY <1>7, <1>8, <1>9, <1>12, <1>13, <1>14 DEF RefInv

(* skynet_context_new: a reference of the table and one of the thread. *)
LEMMA RefLaunch ==
    ASSUME ServerInv, NEW t \in Threads, NEW s \in Service, Launch(t, s)
    PROVE  RefInv' /\ refs' \in [Service -> Nat]
<1> USE DEF ServerInv
<1>1. /\ Moves(t, {"new", "queue"}) /\ th[t].new = NULL /\ th'[t].new = s
  BY LaunchStep
<1>2. OnlyOwn(t, "new") /\ \A u \in Threads : th'[u].victim = th[u].victim
  BY <1>1 DEF Moves, SameBut, OnlyOwn, OwnNames
<1>3. s # NULL /\ NULL \notin Service
  BY LabelTypes
<1>4. /\ Cardinality(Holders(s))' = Cardinality(Holders(s)) + 1
      /\ \A z \in Service \ {s} : Cardinality(Holders(z))' = Cardinality(Holders(z))
  BY <1>1, <1>2, <1>3, HolderMoves DEF OwnNames
<1>5. \A z \in Service : Cardinality(Holders(z)) \in Nat
  BY HolderCount
<1>6. /\ refs \in [Service -> Nat] /\ ctx[s] = "none" /\ slot' = slot \cup {s}
      /\ refs'[s] = 2 /\ \A z \in Service \ {s} : refs'[z] = refs[z]
      /\ ctx'[s] = "alive" /\ \A z \in Service \ {s} : ctx'[z] = ctx[z]
  BY DEF ServerTypeOK, Launch
<1>7. refs[s] = 0
  BY <1>6 DEF RefInv
<1>8. Cardinality(Holders(s)) = 0 /\ s \notin slot
  BY <1>5, <1>7 DEF RefInv
<1>9. \A u \in Threads : th[u].victim # NULL => th[u].victim # s /\ th[u].victim \in Service
  BY <1>6, LabelTypes DEF RefInv, ServerTypeOK, Locals
<1>10. refs' \in [Service -> Nat]
  BY DEF Launch, ServerTypeOK
<1>11. \A z \in Service : refs'[z] = Cardinality(Holders(z))' + (IF z \in slot' THEN 1 ELSE 0)
  BY <1>4, <1>6, <1>8 DEF RefInv
<1>12. \A z \in Service : refs'[z] > 0 => ctx'[z] = "alive"
  BY <1>6 DEF RefInv
<1>13. \A z \in Service : ctx'[z] = "alive" /\ refs'[z] = 0 => \E u \in Threads : th'[u].victim = z
  BY <1>2, <1>6 DEF RefInv
<1>14. \A u \in Threads : th'[u].victim # NULL => refs'[th'[u].victim] = 0 /\ ctx'[th'[u].victim] = "alive"
  BY <1>2, <1>6, <1>9 DEF RefInv
<1>15. \A u, v \in Threads : th'[u].victim = th'[v].victim /\ th'[u].victim # NULL => u = v
  BY <1>2 DEF RefInv
<1> QED
  BY <1>10, <1>11, <1>12, <1>13, <1>14, <1>15 DEF RefInv

(* delete_context *)
LEMMA RefDelete ==
    ASSUME ServerInv, NEW t \in Threads, Delete(t)
    PROVE  RefInv'
<1> DEFINE s == th[t].victim
<1> USE DEF ServerInv
<1>1. Moves(t, {"victim"}) /\ s \in Service /\ th'[t].victim = NULL
  BY DeleteStep
<1>2. \A z \in Service : Cardinality(Holders(z))' = Cardinality(Holders(z))
  <2>1. OnlyOwn(t, "ctx") /\ th'[t].ctx = th[t].ctx
    BY <1>1 DEF Moves, SameBut, OnlyOwn, OwnNames
  <2> QED
    BY <2>1, HolderMoves DEF OwnNames
<1>3. s # NULL /\ NULL \notin Service
  BY <1>1, LabelTypes
<1>4. /\ refs \in [Service -> Nat] /\ refs' = refs /\ slot' = slot
      /\ ctx'[s] = "freed" /\ \A z \in Service \ {s} : ctx'[z] = ctx[z]
  BY <1>1 DEF ServerTypeOK, Delete
<1>5. refs[s] = 0
  BY <1>3 DEF RefInv
<1>6. \A u \in Threads \ {t} : th'[u].victim = th[u].victim /\ th[u].victim # s
  BY <1>1, <1>3 DEF Moves, RefInv
<1>7. \A z \in Service : refs'[z] = Cardinality(Holders(z))' + (IF z \in slot' THEN 1 ELSE 0)
  BY <1>2, <1>4 DEF RefInv
<1>8. \A z \in Service : refs'[z] > 0 => ctx'[z] = "alive"
  BY <1>4, <1>5 DEF RefInv
<1>9. \A z \in Service : ctx'[z] = "alive" /\ refs'[z] = 0 => \E u \in Threads : th'[u].victim = z
  <2> SUFFICES ASSUME NEW z \in Service, ctx'[z] = "alive", refs'[z] = 0
               PROVE  \E u \in Threads : th'[u].victim = z
    OBVIOUS
  <2>1. z # s
    BY <1>4
  <2>2. PICK u \in Threads : th[u].victim = z
    BY <1>4, <2>1 DEF RefInv
  <2> QED
    BY <1>6, <2>1, <2>2
<1>10. \A u \in Threads : th[u].victim # NULL => th[u].victim \in Service
  BY LabelTypes DEF ServerTypeOK, Locals
<1>11. \A u \in Threads : th'[u].victim # NULL => refs'[th'[u].victim] = 0 /\ ctx'[th'[u].victim] = "alive"
  BY <1>1, <1>4, <1>6, <1>10 DEF RefInv
<1>12. \A u, v \in Threads : th'[u].victim = th'[v].victim /\ th'[u].victim # NULL => u = v
  BY <1>1, <1>6 DEF RefInv
<1> QED
  BY <1>7, <1>8, <1>9, <1>11, <1>12 DEF RefInv

(* ------------------------------------------------------------------------ *)
(* Where the queues are: the global queue g and the hands h, of any set S.  *)

(* Hands h and k differ in a only. *)
Differs(h, k, S, a) == \A x \in S \ {a} : k[x] = h[x]

(* skynet_globalmq_push of a queue that was nowhere *)
LEMMA Enqueue ==
    ASSUME NEW S, NEW g \in Seq(Service), NEW h \in [S -> Opt], Apart(g, h), NEW s \in Service,
           ~Found(s, g, h)
    PROVE  /\ Apart(Append(g, s), h)
           /\ \A z \in Service : Found(z, Append(g, s), h) <=> z = s \/ Found(z, g, h)
<1> DEFINE k == Append(g, s)
<1>1. /\ Len(g) \in Nat /\ Len(k) = Len(g) + 1 /\ k[Len(g) + 1] = s
      /\ \A i \in 1..Len(g) : k[i] = g[i]
  OBVIOUS
<1> HIDE DEF k
<1>2. \A i \in 1..Len(k) : i \in 1..Len(g) \/ i = Len(g) + 1
  BY <1>1
<1>3. 1..Len(g) \subseteq 1..Len(k) /\ Len(g) + 1 \in 1..Len(k)
  BY <1>1
<1>4. Apart(k, h)
  BY <1>1, <1>2 DEF Apart, Found
<1>5. \A z \in Service : Found(z, k, h) <=> z = s \/ Found(z, g, h)
  BY <1>1, <1>2, <1>3 DEF Found
<1> QED
  BY <1>4, <1>5 DEF k

(* skynet_globalmq_pop into a free hand *)
LEMMA Dequeue ==
    ASSUME NEW S, NEW g \in Seq(Service), g # << >>, NEW h \in [S -> Opt], Apart(g, h),
           NEW a \in S, h[a] = NULL, NEW k \in [S -> Opt], Differs(h, k, S, a), k[a] = Head(g)
    PROVE  /\ Apart(Tail(g), k)
           /\ \A z \in Service : Found(z, Tail(g), k) <=> Found(z, g, h)
<1> DEFINE e == Tail(g)
<1>1. /\ Len(g) \in Nat /\ Len(g) > 0 /\ Len(e) = Len(g) - 1 /\ k[a] = g[1] /\ g[1] \in Service
      /\ \A i \in 1..Len(e) : e[i] = g[i + 1]
  OBVIOUS
<1> HIDE DEF e
<1>2. \A i \in 1..Len(e) : i + 1 \in 1..Len(g)
  BY <1>1
<1>3. \A i \in 1..Len(g) : i = 1 \/ (i - 1 \in 1..Len(e) /\ e[i - 1] = g[i])
  BY <1>1
<1>4. NULL \notin Service /\ 1 \in 1..Len(g)
  BY <1>1, LabelTypes
<1>5. \A i \in 1..Len(e) : e[i] # g[1]
  BY <1>1, <1>2, <1>4 DEF Apart
<1>6. \A i, j \in 1..Len(e) : e[i] = e[j] => i = j
  BY <1>1, <1>2 DEF Apart
<1>7. \A x \in S \ {a} : k[x] = h[x] /\ h[x] # g[1]
  BY <1>4 DEF Apart, Differs
<1>8. \A x, y \in S : k[x] = k[y] /\ k[x] # NULL => x = y
  BY <1>1, <1>7 DEF Apart
<1>9. \A i \in 1..Len(e), x \in S : k[x] # e[i]
  BY <1>1, <1>2, <1>5, <1>7 DEF Apart
<1>10. Apart(e, k)
  BY <1>6, <1>8, <1>9 DEF Apart
<1>11. \A z \in Service : Found(z, e, k) <=> Found(z, g, h)
  <2> TAKE z \in Service
  <2>1. ASSUME Found(z, e, k) PROVE Found(z, g, h)
    BY <1>1, <1>2, <1>4, <1>7, <2>1 DEF Found
  <2>2. ASSUME Found(z, g, h) PROVE Found(z, e, k)
    <3>1. CASE \E i \in 1..Len(g) : g[i] = z
      BY <1>1, <1>3, <3>1 DEF Found
    <3>2. CASE \E x \in S : h[x] = z
      BY <1>4, <1>7, <3>2 DEF Found
    <3> QED
      BY <2>2, <3>1, <3>2 DEF Found
  <2> QED
    BY <2>1, <2>2
<1> QED
  BY <1>10, <1>11 DEF e

(* A queue that was nowhere, into a free hand *)
LEMMA TakeNew ==
    ASSUME NEW S, NEW g \in Seq(Service), NEW h \in [S -> Opt], Apart(g, h), NEW s \in Service,
           ~Found(s, g, h), NEW a \in S, h[a] = NULL,
           NEW k \in [S -> Opt], Differs(h, k, S, a), k[a] = s
    PROVE  /\ Apart(g, k)
           /\ \A z \in Service : Found(z, g, k) <=> z = s \/ Found(z, g, h)
<1>1. NULL \notin Service
  BY LabelTypes
<1>2. \A x, y \in S : k[x] = k[y] /\ k[x] # NULL => x = y
  BY DEF Apart, Found, Differs
<1>3. \A i \in 1..Len(g), x \in S : k[x] # g[i]
  BY DEF Apart, Found, Differs
<1>4. Apart(g, k)
  BY <1>2, <1>3 DEF Apart
<1>5. \A z \in Service : Found(z, g, k) <=> z = s \/ Found(z, g, h)
  BY <1>1 DEF Found, Differs
<1> QED
  BY <1>4, <1>5

(* A hand lets its queue go. *)
LEMMA LetGo ==
    ASSUME NEW S, NEW g \in Seq(Service), NEW h \in [S -> Opt], Apart(g, h), NEW s \in Service,
           NEW a \in S, h[a] = s, NEW k \in [S -> Opt], Differs(h, k, S, a), k[a] = NULL
    PROVE  /\ Apart(g, k) /\ ~Found(s, g, k)
           /\ \A z \in Service : Found(z, g, k) <=> z # s /\ Found(z, g, h)
<1>1. NULL \notin Service /\ s # NULL
  BY LabelTypes
<1>2. \A x \in S \ {a} : k[x] = h[x] /\ h[x] # s
  BY <1>1 DEF Apart, Differs
<1>3. \A x, y \in S : k[x] = k[y] /\ k[x] # NULL => x = y
  BY <1>2 DEF Apart
<1>4. \A i \in 1..Len(g), x \in S : k[x] # g[i]
  <2>1. \A i \in 1..Len(g) : g[i] \in Service
    OBVIOUS
  <2> QED
    BY <1>1, <1>2, <2>1 DEF Apart
<1>5. Apart(g, k)
  BY <1>3, <1>4 DEF Apart
<1>6. \A i \in 1..Len(g) : g[i] # s
  BY DEF Apart
<1>7. \A z \in Service : Found(z, g, k) <=> z # s /\ Found(z, g, h)
  BY <1>1, <1>2, <1>6 DEF Found
<1> QED
  BY <1>5, <1>7

(* skynet_globalmq_push of a queue in hand *)
LEMMA PutBack ==
    ASSUME NEW S, NEW g \in Seq(Service), NEW h \in [S -> Opt], Apart(g, h), NEW s \in Service,
           NEW a \in S, h[a] = s, NEW k \in [S -> Opt], Differs(h, k, S, a), k[a] = NULL
    PROVE  /\ Apart(Append(g, s), k)
           /\ \A z \in Service : Found(z, Append(g, s), k) <=> Found(z, g, h)
<1>1. /\ Apart(g, k) /\ ~Found(s, g, k)
      /\ \A z \in Service : Found(z, g, k) <=> z # s /\ Found(z, g, h)
  BY LetGo, ZenonT(90)
<1>2. /\ Apart(Append(g, s), k)
      /\ \A z \in Service : Found(z, Append(g, s), k) <=> z = s \/ Found(z, g, k)
  BY <1>1, Enqueue, ZenonT(90)
<1>3. Found(s, g, h)
  BY DEF Found
<1> QED
  BY <1>1, <1>2, <1>3

(* From one hand to another *)
LEMMA PassOn ==
    ASSUME NEW S, NEW g \in Seq(Service), NEW h \in [S -> Opt], Apart(g, h), NEW s \in Service,
           NEW a \in S, h[a] = s, NEW b \in S, h[b] = NULL,
           NEW k \in [S -> Opt], k[a] = NULL, k[b] = s, \A x \in S : x = a \/ x = b \/ k[x] = h[x]
    PROVE  /\ Apart(g, k)
           /\ \A z \in Service : Found(z, g, k) <=> Found(z, g, h)
<1> DEFINE m == [h EXCEPT ![a] = NULL]
<1>0. a # b
  BY LabelTypes
<1>1. m \in [S -> Opt] /\ Differs(h, m, S, a) /\ m[a] = NULL /\ m[b] = NULL /\ Differs(m, k, S, b)
  BY <1>0, LabelTypes DEF Differs
<1> HIDE DEF m
<1>2. /\ Apart(g, m) /\ ~Found(s, g, m)
      /\ \A z \in Service : Found(z, g, m) <=> z # s /\ Found(z, g, h)
  BY <1>1, LetGo, ZenonT(90)
<1>3. /\ Apart(g, k)
      /\ \A z \in Service : Found(z, g, k) <=> z = s \/ Found(z, g, m)
  BY <1>1, <1>2, TakeNew, ZenonT(90)
<1>4. Found(s, g, h)
  BY DEF Found
<1> QED
  BY <1>2, <1>3, <1>4

(* Hand a puts its queue back and takes the one in hand b. *)
LEMMA Exchange ==
    ASSUME NEW S, NEW g \in Seq(Service), NEW h \in [S -> Opt], Apart(g, h),
           NEW s \in Service, NEW n \in Service, NEW a \in S, NEW b \in S, a # b, h[a] = s, h[b] = n,
           NEW k \in [S -> Opt], k[a] = n, k[b] = NULL, \A x \in S : x = a \/ x = b \/ k[x] = h[x]
    PROVE  /\ Apart(Append(g, s), k)
           /\ \A z \in Service : Found(z, Append(g, s), k) <=> Found(z, g, h)
<1> DEFINE m == [h EXCEPT ![a] = NULL]
           e == Append(g, s)
           d == [m EXCEPT ![b] = NULL]
<1>1. /\ m \in [S -> Opt] /\ Differs(h, m, S, a) /\ m[a] = NULL /\ m[b] = n
      /\ \A x \in S : x = b \/ x = a \/ k[x] = m[x]
  BY LabelTypes DEF Differs
<1>2. e \in Seq(Service)
  OBVIOUS
<1> HIDE DEF m
<1>3. Apart(e, m) /\ \A z \in Service : Found(z, e, m) <=> Found(z, g, h)
  BY <1>1, PutBack, ZenonT(90)
<1> HIDE DEF e
<1>4. d \in [S -> Opt] /\ Differs(m, d, S, b) /\ d[b] = NULL /\ d[a] = NULL /\ Differs(d, k, S, a)
  BY <1>1, LabelTypes DEF Differs
<1> HIDE DEF d
<1>5. /\ Apart(e, d) /\ ~Found(n, e, d)
      /\ \A z \in Service : Found(z, e, d) <=> z # n /\ Found(z, e, m)
  <2>1. m \in [S -> Opt] /\ m[b] = n /\ Apart(e, m) /\ Differs(m, d, S, b) /\ d \in [S -> Opt] /\ d[b] = NULL
    BY <1>1, <1>3, <1>4
  <2> QED
    BY <1>2, <2>1, LetGo, ZenonT(60)
<1>6. Apart(e, k) /\ \A z \in Service : Found(z, e, k) <=> z = n \/ Found(z, e, d)
  BY <1>2, <1>4, <1>5, TakeNew, ZenonT(90)
<1>7. Found(n, e, m)
  BY <1>1 DEF Found
<1> QED
  BY <1>3, <1>5, <1>6, <1>7 DEF e

(* Thread t changes no hand but f. *)
OnlyHand(t, f) ==
    /\ th' \in [Threads -> Locals]
    /\ \A u \in Threads \ {t} : th'[u] = th[u]
    /\ \A g \in HandNames \ {f} : th'[t][g] = th[t][g]

LEMMA HandMoves ==
    ASSUME ServerTypeOK, NEW t \in Threads, NEW f \in HandNames, OnlyHand(t, f)
    PROVE  /\ hand \in [Hands -> Opt] /\ hand' \in [Hands -> Opt] /\ <<t, f>> \in Hands
           /\ hand[<<t, f>>] = th[t][f] /\ hand'[<<t, f>>] = th'[t][f]
           /\ Differs(hand, hand', Hands, <<t, f>>)
<1>1. \A r \in Locals : \A g \in HandNames : r[g] \in Opt
  BY DEF Locals, HandNames
<1>2. \A x \in Hands : x[1] \in Threads /\ x[2] \in HandNames /\ x = <<x[1], x[2]>>
  BY DEF Hands
<1>3. \A x \in Hands : th[x[1]] \in Locals /\ th'[x[1]] \in Locals
  BY <1>2 DEF ServerTypeOK, OnlyHand
<1>4. hand \in [Hands -> Opt] /\ hand' \in [Hands -> Opt]
  BY <1>1, <1>2, <1>3 DEF hand
<1>5. <<t, f>> \in Hands
  BY DEF Hands
<1>6. \A x \in Hands \ {<<t, f>>} : th'[x[1]][x[2]] = th[x[1]][x[2]]
  BY <1>2 DEF OnlyHand
<1> QED
  BY <1>4, <1>5, <1>6 DEF hand, Differs

LEMMA HandKeep ==
    ASSUME ServerTypeOK, NEW t \in Threads, OnlyHand(t, "q"), th'[t].q = th[t].q
    PROVE  hand' = hand
<1>1. /\ hand \in [Hands -> Opt] /\ hand' \in [Hands -> Opt]
      /\ hand[<<t, "q">>] = hand'[<<t, "q">>] /\ Differs(hand, hand', Hands, <<t, "q">>)
  BY HandMoves DEF HandNames
<1>2. \A x \in Hands : hand'[x] = hand[x]
  BY <1>1 DEF Differs
<1> QED
  BY <1>1, <1>2

(* ------------------------------------------------------------------------ *)
(* The queues, action by action.                                            *)

(* No queue is moved and no flag changed. *)
LEMMA QueueKeep ==
    ASSUME ServerInv, NEW t \in Threads, NEW F, Moves(t, F),
           "q" \notin F /\ "nq" \notin F /\ "queue" \notin F /\ "dq" \notin F,
           UNCHANGED <<mq, Q, ctx, inited>>, slot' \subseteq slot,
           th'[t].ctx \in {th[t].ctx, NULL} \/ (th'[t].ctx = th[t].q /\ th[t].q \in slot),
           InDrop(th'[t].pc, th'[t].stack) => InDrop(th[t].pc, th[t].stack),
           InFailed(th'[t].pc, th'[t].stack) /\ th'[t].kill = NULL =>
               (InFailed(th[t].pc, th[t].stack) /\ th[t].kill = NULL) \/ th[t].queue \notin slot'
    PROVE  QueueInv'
<1> USE DEF ServerInv, QueueInv
<1>1. /\ \A u \in Threads \ {t} : th'[u] = th[u]
      /\ th'[t].q = th[t].q /\ th'[t].nq = th[t].nq /\ th'[t].queue = th[t].queue /\ th'[t].dq = th[t].dq
  BY DEF Moves, SameBut
<1>2. hand' = hand
  <2>1. OnlyHand(t, "q")
    BY <1>1 DEF Moves, OnlyHand, HandNames
  <2> QED
    BY <1>1, <2>1, HandKeep
<1>3. Apart(Q, hand)' /\ QueueFlags'
  BY <1>2 DEF QueueFlags
<1>4. DropsRetired'
  BY <1>1 DEF DropsRetired
<1>5. FoundInited'
  BY <1>1 DEF FoundInited
<1> QED
  BY <1>3, <1>4, <1>5

(* A context that somebody refers to is not freed, nor is its queue. *)
LEMMA Referred ==
    ASSUME ServerInv, NEW s \in Service, s \in slot \/ \E t \in Threads, f \in OwnNames : th[t][f] = s
    PROVE  refs[s] > 0 /\ ctx[s] = "alive" /\ ~mq[s].freed /\ ~mq[s].release
<1> USE DEF ServerInv, QueueInv
<1>1. Cardinality(Holders(s)) \in Nat /\ \A h \in Holders(s) : Cardinality(Holders(s)) > 0
  BY HolderCount
<1>2. ASSUME NEW t \in Threads, NEW f \in OwnNames, th[t][f] = s PROVE <<t, f>> \in Holders(s)
  BY <1>2 DEF Holders, OwnNames
<1>3. refs[s] > 0
  <2>1. refs[s] = Cardinality(Holders(s)) + (IF s \in slot THEN 1 ELSE 0)
    BY DEF RefInv
  <2>2. CASE s \in slot
    BY <1>1, <2>1, <2>2
  <2>3. CASE \E t \in Threads, f \in OwnNames : th[t][f] = s
    <3>1. Cardinality(Holders(s)) > 0
      BY <1>1, <1>2, <2>3
    <3> HIDE DEF ServerInv
    <3> QED
      BY <1>1, <2>1, <3>1
  <2> QED
    BY <2>2, <2>3
<1>4. ctx[s] = "alive"
  BY <1>3 DEF RefInv
<1> QED
  BY <1>3, <1>4 DEF QueueFlags

(* A queue in hand is found. *)
LEMMA InHand ==
    ASSUME ServerTypeOK, NEW t \in Threads, NEW f \in HandNames, th[t][f] \in Service
    PROVE  Found(th[t][f], Q, hand)
<1>1. <<t, f>> \in Hands /\ hand[<<t, f>>] = th[t][f]
  BY DEF Hands, hand
<1>2. DOMAIN hand = Hands
  BY DEF hand
<1> QED
  BY <1>1, <1>2 DEF Found

LEMMA HandType == ASSUME ServerTypeOK PROVE hand \in [Hands -> Opt]
<1>1. \A r \in Locals : \A g \in HandNames : r[g] \in Opt
  BY DEF Locals, HandNames
<1>2. \A x \in Hands : x[1] \in Threads /\ x[2] \in HandNames
  BY DEF Hands
<1> QED
  BY <1>1, <1>2 DEF hand, ServerTypeOK

LEMMA QueueDelete ==
    ASSUME ServerInv, NEW t \in Threads, Delete(t)
    PROVE  QueueInv'
<1> DEFINE s == th[t].victim
<1> USE DEF ServerInv, QueueInv
<1>1. Moves(t, {"victim"}) /\ Keeps(th[t], th'[t]) /\ s \in Service
  BY DeleteStep
<1>2. /\ \A u \in Threads \ {t} : th'[u] = th[u]
      /\ th'[t].q = th[t].q /\ th'[t].nq = th[t].nq /\ th'[t].queue = th[t].queue
      /\ th'[t].dq = th[t].dq /\ th'[t].ctx = th[t].ctx /\ th'[t].kill = th[t].kill
  BY <1>1 DEF Moves, SameBut
<1>3. hand' = hand
  <2>1. OnlyHand(t, "q")
    BY <1>1, <1>2 DEF Moves, OnlyHand, HandNames
  <2> QED
    BY <1>2, <2>1, HandKeep
<1>4. /\ mq'[s].release /\ mq'[s].msgs = mq[s].msgs /\ mq'[s].in_global = mq[s].in_global
      /\ mq'[s].freed = mq[s].freed /\ \A z \in Service \ {s} : mq'[z] = mq[z]
      /\ ctx'[s] = "freed" /\ \A z \in Service \ {s} : ctx'[z] = ctx[z]
      /\ slot' = slot /\ inited' = inited
      /\ Q' = IF mq[s].in_global THEN Q ELSE Append(Q, s)
  BY <1>1 DEF Delete, ServerTypeOK
<1>5. ctx[s] = "alive" /\ refs[s] = 0 /\ ~mq[s].release /\ ~mq[s].freed
  BY <1>1, LabelTypes DEF RefInv, QueueFlags
<1>6. s \notin slot
  BY <1>1, <1>5, Referred
<1>7. ~mq[s].in_global => ~Found(s, Q, hand)
  BY <1>1, <1>5 DEF QueueFlags
<1>8. Q \in Seq(Service) /\ hand \in [Hands -> Opt] /\ Apart(Q, hand)
  BY HandType DEF ServerTypeOK
<1>9. Apart(Q', hand') /\ Found(s, Q', hand') /\ \A z \in Service \ {s} : Found(z, Q', hand') <=> Found(z, Q, hand)
  <2>1. CASE mq[s].in_global
    BY <1>1, <1>3, <1>4, <1>5, <1>8, <2>1 DEF QueueFlags
  <2>2. CASE ~mq[s].in_global
    BY <1>1, <1>3, <1>4, <1>7, <1>8, <2>2, Enqueue, ZenonT(90)
  <2> QED
    BY <2>1, <2>2
<1>10. QueueFlags'
  BY <1>4, <1>5, <1>9 DEF QueueFlags
<1>11. DropsRetired'
  <2>1. \A u \in Threads : th[u].dq # NULL => th[u].dq \in Service
    BY LabelTypes DEF ServerTypeOK, Locals
  <2>2. \A u \in Threads : InDrop(th[u].pc, th[u].stack) => th[u].dq # NULL
    BY DEF ThreadsOK, ThreadOK, CalleeSet
  <2>3. \A z \in Service : mq[z].release => mq'[z].release
    BY <1>4
  <2> QED
    BY <1>1, <1>2, <1>4, <2>1, <2>2, <2>3 DEF DropsRetired, Keeps
<1>12. FoundInited'
  <2>1. \A i \in 1..Len(Q') : Q'[i] = s \/ \E j \in 1..Len(Q) : Q'[i] = Q[j]
    BY <1>1, <1>4, <1>8
  <2>2. \A z \in slot : z \in Service /\ z # s
    BY <1>6 DEF ServerTypeOK
  <2>3. \A z \in slot : mq'[z] = mq[z]
    BY <1>4, <2>2
  <2>4. \A z \in slot : ~mq'[z].in_global => z \in inited
    BY <2>3 DEF FoundInited
  <2>5. \A i \in 1..Len(Q') : Q'[i] \in slot => Q'[i] \in inited
    BY <1>6, <2>1 DEF FoundInited
  <2>6. \A u \in Threads : /\ th'[u].q \in slot => th'[u].q \in inited
                           /\ th'[u].nq \in slot => th'[u].nq \in inited
                           /\ th'[u].ctx # NULL => th'[u].ctx \in inited
    BY <1>2 DEF FoundInited
  <2>7. slot' = slot /\ inited' = inited
    BY <1>4
  <2> HIDE DEF s, ServerInv, QueueInv
  <2> QED
    BY <2>4, <2>5, <2>6, <2>7 DEF FoundInited
<1> QED
  BY <1>9, <1>10, <1>11, <1>12

LEMMA QueueSendPush ==
    ASSUME ServerInv, NEW t \in Threads, SendPush(t)
    PROVE  QueueInv'
<1> DEFINE s == th[t].tgt
<1> USE DEF ServerInv, QueueInv
<1>1. Moves(t, {}) /\ Keeps(th[t], th'[t]) /\ s \in Service
  BY SendPushStep
<1>2. /\ \A u \in Threads \ {t} : th'[u] = th[u]
      /\ th'[t].q = th[t].q /\ th'[t].nq = th[t].nq /\ th'[t].queue = th[t].queue
      /\ th'[t].dq = th[t].dq /\ th'[t].ctx = th[t].ctx /\ th'[t].kill = th[t].kill
  BY <1>1 DEF Moves, SameBut
<1>3. hand' = hand
  <2>1. OnlyHand(t, "q")
    BY <1>1, <1>2 DEF Moves, OnlyHand, HandNames
  <2> QED
    BY <1>2, <2>1, HandKeep
<1>4. /\ mq'[s].in_global /\ mq'[s].release = mq[s].release
      /\ mq'[s].freed = mq[s].freed /\ \A z \in Service \ {s} : mq'[z] = mq[z]
      /\ ctx' = ctx /\ slot' = slot /\ inited' = inited
      /\ Q' = IF mq[s].in_global THEN Q ELSE Append(Q, s)
  BY <1>1 DEF SendPush, ServerTypeOK
<1>5. ctx[s] = "alive" /\ ~mq[s].release /\ ~mq[s].freed
  BY <1>1, Referred DEF OwnNames
<1>6. ~mq[s].in_global => ~Found(s, Q, hand)
  BY <1>1, <1>5 DEF QueueFlags
<1>7. Q \in Seq(Service) /\ hand \in [Hands -> Opt] /\ Apart(Q, hand)
  BY HandType DEF ServerTypeOK
<1>8. Apart(Q', hand') /\ Found(s, Q', hand') /\ \A z \in Service \ {s} : Found(z, Q', hand') <=> Found(z, Q, hand)
  <2>1. CASE mq[s].in_global
    BY <1>1, <1>3, <1>4, <1>5, <1>7, <2>1 DEF QueueFlags
  <2>2. CASE ~mq[s].in_global
    BY <1>1, <1>3, <1>4, <1>6, <1>7, <2>2, Enqueue, ZenonT(90)
  <2> QED
    BY <2>1, <2>2
<1>9. QueueFlags'
  BY <1>4, <1>5, <1>8 DEF QueueFlags
<1>10. DropsRetired'
  <2>1. \A u \in Threads : th[u].dq # NULL => th[u].dq \in Service
    BY LabelTypes DEF ServerTypeOK, Locals
  <2>2. \A u \in Threads : InDrop(th[u].pc, th[u].stack) => th[u].dq # NULL
    BY DEF ThreadsOK, ThreadOK, CalleeSet
  <2>3. \A z \in Service : mq[z].release => mq'[z].release
    BY <1>4
  <2> QED
    BY <1>1, <1>2, <1>4, <2>1, <2>2, <2>3 DEF DropsRetired, Keeps
<1>11. FoundInited'
  <2>1. \A i \in 1..Len(Q') : (Q'[i] = s /\ ~mq[s].in_global) \/ \E j \in 1..Len(Q) : Q'[i] = Q[j]
    BY <1>1, <1>4, <1>7
  <2>2. \A z \in slot : ~mq'[z].in_global => ~mq[z].in_global
    <3>1. \A z \in slot : z \in Service
      BY DEF ServerTypeOK
    <3> HIDE DEF s, ServerInv, QueueInv
    <3> QED
      BY <1>4, <3>1
  <2>3. \A z \in slot : ~mq'[z].in_global => z \in inited
    BY <2>2 DEF FoundInited
  <2>4. \A i \in 1..Len(Q') : Q'[i] \in slot => Q'[i] \in inited
    BY <2>1 DEF FoundInited
  <2>5. \A u \in Threads : /\ th'[u].q \in slot => th'[u].q \in inited
                           /\ th'[u].nq \in slot => th'[u].nq \in inited
                           /\ th'[u].ctx # NULL => th'[u].ctx \in inited
    BY <1>2 DEF FoundInited
  <2>6. slot' = slot /\ inited' = inited
    BY <1>4
  <2> HIDE DEF s, ServerInv, QueueInv
  <2> QED
    BY <2>3, <2>4, <2>5, <2>6 DEF FoundInited
<1> QED
  BY <1>8, <1>9, <1>10, <1>11

(* What the other threads do not disturb. *)
LEMMA DropsRest ==
    ASSUME ServerInv, NEW t \in Threads, NEW F, Moves(t, F),
           \A z \in Service : mq[z].release => mq'[z].release,
           \A z \in Service : Found(z, Q, hand) /\ z \in slot' => z \in slot,
           InDrop(th'[t].pc, th'[t].stack) => mq'[th'[t].dq].release,
           th'[t].dq # NULL => th'[t].dq \notin slot',
           InFailed(th'[t].pc, th'[t].stack) /\ th'[t].kill = NULL => th'[t].queue \notin slot'
    PROVE  DropsRetired'
<1> SUFFICES ASSUME NEW u \in Threads, u # t
             PROVE  /\ InDrop(th'[u].pc, th'[u].stack) => mq'[th'[u].dq].release
                    /\ th'[u].dq # NULL => th'[u].dq \notin slot'
                    /\ InFailed(th'[u].pc, th'[u].stack) /\ th'[u].kill = NULL => th'[u].queue \notin slot'
  BY DEF DropsRetired
<1>1. th'[u] = th[u]
  BY DEF Moves
<1>2. /\ th[u].dq # NULL => th[u].dq \in Service /\ Found(th[u].dq, Q, hand)
      /\ th[u].queue # NULL => th[u].queue \in Service /\ Found(th[u].queue, Q, hand)
  BY LabelTypes, InHand DEF ServerInv, ServerTypeOK, Locals, HandNames
<1>3. /\ InDrop(th[u].pc, th[u].stack) => th[u].dq # NULL
      /\ InFailed(th[u].pc, th[u].stack) => th[u].queue # NULL
  BY DEF ServerInv, ThreadsOK, ThreadOK, CalleeSet
<1> QED
  BY <1>1, <1>2, <1>3 DEF ServerInv, QueueInv, DropsRetired

LEMMA InitedRest ==
    ASSUME ServerInv, NEW t \in Threads, NEW F, Moves(t, F), inited \subseteq inited',
           \A z \in Service : Found(z, Q, hand) /\ z \in slot' => z \in slot,
           slot' \subseteq Service,
           \A z \in slot' : ~mq'[z].in_global => (z \in slot /\ ~mq[z].in_global) \/ z \in inited',
           \A i \in 1..Len(Q') : \/ \E j \in 1..Len(Q) : Q'[i] = Q[j]
                                 \/ Q'[i] \in slot' => Q'[i] \in inited',
           th'[t].q \in slot' => th'[t].q \in inited',
           th'[t].nq \in slot' => th'[t].nq \in inited',
           th'[t].ctx # NULL => th'[t].ctx \in inited'
    PROVE  FoundInited'
<1> USE DEF ServerInv, QueueInv
<1>1. \A z \in slot' : ~mq'[z].in_global => z \in inited'
  BY DEF FoundInited
<1>2. \A i \in 1..Len(Q') : Q'[i] \in slot' => Q'[i] \in inited'
  <2> SUFFICES ASSUME NEW j \in 1..Len(Q), Q[j] \in slot' PROVE Q[j] \in inited'
    OBVIOUS
  <2>1. Found(Q[j], Q, hand)
    BY DEF Found
  <2> QED
    BY <2>1 DEF FoundInited
<1>3. ASSUME NEW u \in Threads, u # t
      PROVE  /\ th'[u].q \in slot' => th'[u].q \in inited'
             /\ th'[u].nq \in slot' => th'[u].nq \in inited'
             /\ th'[u].ctx # NULL => th'[u].ctx \in inited'
  <2>1. th'[u] = th[u]
    BY <1>3 DEF Moves
  <2>2. /\ th[u].q \in slot' => Found(th[u].q, Q, hand)
        /\ th[u].nq \in slot' => Found(th[u].nq, Q, hand)
    BY InHand DEF HandNames
  <2> QED
    BY <2>1, <2>2 DEF FoundInited
<1> QED
  BY <1>1, <1>2, <1>3 DEF FoundInited

(* A queue changes its place, and no flag changes. *)
LEMMA QueueMoves ==
    ASSUME ServerInv, NEW t \in Threads, NEW F, Moves(t, F), UNCHANGED <<mq, ctx, slot>>,
           inited \subseteq inited',
           Apart(Q', hand'), \A z \in Service : Found(z, Q', hand') <=> Found(z, Q, hand),
           InDrop(th'[t].pc, th'[t].stack) => mq[th'[t].dq].release,
           th'[t].dq # NULL => th'[t].dq \notin slot,
           InFailed(th'[t].pc, th'[t].stack) /\ th'[t].kill = NULL => th'[t].queue \notin slot,
           \A i \in 1..Len(Q') : \/ \E j \in 1..Len(Q) : Q'[i] = Q[j]
                                 \/ Q'[i] \in slot => Q'[i] \in inited',
           th'[t].q \in slot => th'[t].q \in inited',
           th'[t].nq \in slot => th'[t].nq \in inited',
           th'[t].ctx # NULL => th'[t].ctx \in inited'
    PROVE  QueueInv'
<1>1. QueueFlags'
  BY DEF ServerInv, QueueInv, QueueFlags
<1>2. DropsRetired'
  BY DropsRest
<1>3. FoundInited'
  BY InitedRest DEF ServerInv, ServerTypeOK
<1> QED
  BY <1>1, <1>2, <1>3 DEF QueueInv

(* A step that moves hands f and g of thread t. *)
LEMMA HandsMove ==
    ASSUME ServerTypeOK, NEW t \in Threads, NEW f \in HandNames, NEW g \in HandNames,
           th' \in [Threads -> Locals], \A u \in Threads \ {t} : th'[u] = th[u],
           \A e \in HandNames \ {f, g} : th'[t][e] = th[t][e]
    PROVE  /\ hand \in [Hands -> Opt] /\ hand' \in [Hands -> Opt]
           /\ <<t, f>> \in Hands /\ <<t, g>> \in Hands
           /\ hand[<<t, f>>] = th[t][f] /\ hand'[<<t, f>>] = th'[t][f]
           /\ hand[<<t, g>>] = th[t][g] /\ hand'[<<t, g>>] = th'[t][g]
           /\ \A x \in Hands \ {<<t, f>>, <<t, g>>} : hand'[x] = hand[x]
<1>1. \A r \in Locals : \A e \in HandNames : r[e] \in Opt
  BY DEF Locals, HandNames
<1>2. \A x \in Hands : x[1] \in Threads /\ x[2] \in HandNames /\ x = <<x[1], x[2]>>
  BY DEF Hands
<1>3. \A x \in Hands : th[x[1]] \in Locals /\ th'[x[1]] \in Locals
  BY <1>2 DEF ServerTypeOK
<1>4. hand \in [Hands -> Opt] /\ hand' \in [Hands -> Opt]
  BY <1>1, <1>2, <1>3 DEF hand
<1>5. <<t, f>> \in Hands /\ <<t, g>> \in Hands
  BY DEF Hands
<1>6. \A x \in Hands \ {<<t, f>>, <<t, g>>} : th'[x[1]][x[2]] = th[x[1]][x[2]]
  BY <1>2
<1> QED
  BY <1>4, <1>5, <1>6 DEF hand

(* What the invariant says of one thread. *)
LEMMA OfThread ==
    ASSUME ServerInv, NEW t \in Threads
    PROVE  /\ th[t].q \in slot => th[t].q \in inited
           /\ th[t].nq \in slot => th[t].nq \in inited
           /\ th[t].ctx # NULL => th[t].ctx \in inited
           /\ InDrop(th[t].pc, th[t].stack) => mq[th[t].dq].release
           /\ th[t].dq # NULL => th[t].dq \notin slot
           /\ InFailed(th[t].pc, th[t].stack) /\ th[t].kill = NULL => th[t].queue \notin slot
           /\ NULL \notin slot
           /\ InDrop(th[t].pc, th[t].stack) => th[t].dq # NULL
<1>1. NULL \notin slot
  BY LabelTypes DEF ServerInv, ServerTypeOK
<1> QED
  BY <1>1 DEF ServerInv, QueueInv, FoundInited, DropsRetired, ThreadsOK, ThreadOK, CalleeSet

LEMMA QueueLaunched ==
    ASSUME ServerInv, NEW t \in Threads, Launched(t)
    PROVE  QueueInv'
<1> DEFINE s == th[t].queue
<1>1. /\ Moves(t, {"queue"}) /\ Keeps(th[t], th'[t]) /\ s \in Service /\ th'[t].queue = NULL
      /\ ~InFailed(th'[t].pc, th'[t].stack)
  BY LaunchedStep DEF ServerInv
<1>2. /\ UNCHANGED <<mq, ctx, slot>> /\ Q' = Append(Q, s)
      /\ inited' = IF ctx[s] = "alive" THEN inited \cup {s} ELSE inited
  BY DEF Launched
<1>3. OnlyHand(t, "queue")
  BY <1>1 DEF Moves, SameBut, OnlyHand, HandNames
<1>4. Q \in Seq(Service) /\ Apart(Q, hand) /\ ServerTypeOK
  BY DEF ServerInv, QueueInv, ServerTypeOK
<1>5. /\ hand \in [Hands -> Opt] /\ hand' \in [Hands -> Opt] /\ <<t, "queue">> \in Hands
      /\ hand[<<t, "queue">>] = s /\ hand'[<<t, "queue">>] = NULL
      /\ Differs(hand, hand', Hands, <<t, "queue">>)
  BY <1>1, <1>3, <1>4, HandMoves DEF HandNames
<1>6. Apart(Q', hand') /\ \A z \in Service : Found(z, Q', hand') <=> Found(z, Q, hand)
  <2> DEFINE a == <<t, "queue">>
  <2>1. /\ a \in Hands /\ hand[a] = s /\ hand'[a] = NULL /\ Differs(hand, hand', Hands, a)
    BY <1>5
  <2> HIDE DEF a, s
  <2> QED
    BY <1>1, <1>2, <1>4, <1>5, <2>1, PutBack, ZenonT(90)
<1>7. s \in slot => s \in inited'
  BY <1>1, <1>2, Referred
<1>8. \A i \in 1..Len(Q') : (\E j \in 1..Len(Q) : Q'[i] = Q[j]) \/ Q'[i] = s
  BY <1>1, <1>2, <1>4
<1>9. inited \subseteq inited'
  BY <1>2
<1>10. /\ th'[t].q = th[t].q /\ th'[t].nq = th[t].nq /\ th'[t].dq = th[t].dq /\ th'[t].ctx = th[t].ctx
       /\ InDrop(th'[t].pc, th'[t].stack) => InDrop(th[t].pc, th[t].stack)
  BY <1>1 DEF Moves, SameBut, Keeps
<1>11. /\ InDrop(th'[t].pc, th'[t].stack) => mq[th'[t].dq].release
       /\ th'[t].dq # NULL => th'[t].dq \notin slot
       /\ th'[t].q \in slot => th'[t].q \in inited'
       /\ th'[t].nq \in slot => th'[t].nq \in inited'
       /\ th'[t].ctx # NULL => th'[t].ctx \in inited'
  BY <1>9, <1>10, OfThread
<1>12. \A i \in 1..Len(Q') : \/ \E j \in 1..Len(Q) : Q'[i] = Q[j]
                             \/ Q'[i] \in slot => Q'[i] \in inited'
  BY <1>7, <1>8
<1> HIDE DEF s
<1> QED
  BY <1>1, <1>2, <1>6, <1>9, <1>11, <1>12, QueueMoves

LEMMA QueueInitFailed ==
    ASSUME ServerInv, NEW t \in Threads, InitFailed(t)
    PROVE  QueueInv'
<1> DEFINE s == th[t].queue
<1>1. /\ Moves(t, {"dq", "queue"}) /\ Keeps(th[t], th'[t]) /\ s \in Service /\ th[t].dq = NULL
      /\ th'[t].dq = s /\ th'[t].queue = NULL
      /\ InFailed(th[t].pc, th[t].stack) /\ th[t].kill = NULL
      /\ ~InFailed(th'[t].pc, th'[t].stack)
  BY InitFailedStep DEF ServerInv
<1>2. UNCHANGED <<mq, ctx, slot, inited, Q>>
  BY DEF InitFailed, kernel
<1>3. /\ Q \in Seq(Service) /\ Apart(Q, hand) /\ ServerTypeOK
  BY DEF ServerInv, QueueInv, ServerTypeOK
<1>4. /\ hand \in [Hands -> Opt] /\ hand' \in [Hands -> Opt]
      /\ <<t, "queue">> \in Hands /\ <<t, "dq">> \in Hands
      /\ hand[<<t, "queue">>] = s /\ hand'[<<t, "queue">>] = NULL
      /\ hand[<<t, "dq">>] = NULL /\ hand'[<<t, "dq">>] = s
      /\ \A x \in Hands \ {<<t, "queue">>, <<t, "dq">>} : hand'[x] = hand[x]
  <2>1. /\ th' \in [Threads -> Locals] /\ \A u \in Threads \ {t} : th'[u] = th[u]
        /\ \A e \in HandNames \ {"queue", "dq"} : th'[t][e] = th[t][e]
    BY <1>1 DEF Moves, SameBut, HandNames
  <2>2. "queue" \in HandNames /\ "dq" \in HandNames
    BY DEF HandNames
  <2> QED
    BY <1>1, <1>3, <2>1, <2>2, HandsMove
<1>5. Apart(Q', hand') /\ \A z \in Service : Found(z, Q', hand') <=> Found(z, Q, hand)
  <2> DEFINE a == <<t, "queue">>
             b == <<t, "dq">>
  <2>1. /\ a \in Hands /\ b \in Hands /\ hand[a] = s /\ hand'[a] = NULL
        /\ hand[b] = NULL /\ hand'[b] = s
        /\ \A x \in Hands : x = a \/ x = b \/ hand'[x] = hand[x]
    BY <1>4
  <2> HIDE DEF a, b, s
  <2>2. /\ hand \in [Hands -> Opt] /\ hand' \in [Hands -> Opt] /\ s \in Service
        /\ Q \in Seq(Service) /\ Apart(Q, hand)
    BY <1>1, <1>3, <1>4
  <2>3. Apart(Q, hand') /\ \A z \in Service : Found(z, Q, hand') <=> Found(z, Q, hand)
    BY <2>1, <2>2, PassOn, SMTT(60)
  <2> QED
    BY <1>2, <2>3
<1>6. /\ th'[t].q = th[t].q /\ th'[t].nq = th[t].nq /\ th'[t].ctx = th[t].ctx
      /\ ~InDrop(th[t].pc, th[t].stack)
      /\ InDrop(th'[t].pc, th'[t].stack) => InDrop(th[t].pc, th[t].stack)
  BY <1>1, OfThread DEF Moves, SameBut, Keeps
<1>7. /\ s \notin slot
      /\ th'[t].q \in slot => th'[t].q \in inited'
      /\ th'[t].nq \in slot => th'[t].nq \in inited'
      /\ th'[t].ctx # NULL => th'[t].ctx \in inited'
  BY <1>1, <1>2, <1>6, OfThread
<1> QED
  BY <1>1, <1>2, <1>5, <1>6, <1>7, QueueMoves

LEMMA QueueMqRelease ==
    ASSUME ServerInv, NEW t \in Threads, MqRelease(t)
    PROVE  QueueInv'
<1> DEFINE s == th[t].dq
<1>1. /\ Moves(t, {"dq"}) /\ s \in Service
      /\ InFailed(th'[t].pc, th'[t].stack) => InFailed(th[t].pc, th[t].stack)
      /\ mq[s].release => th'[t].dq = s
      /\ ~mq[s].release => th'[t].dq = NULL /\ ~InDrop(th'[t].pc, th'[t].stack)
  BY MqReleaseStep DEF ServerInv
<1>2. /\ UNCHANGED <<mq, ctx, slot, inited>>
      /\ mq[s].release => Q' = Q
      /\ ~mq[s].release => Q' = Append(Q, s)
  BY DEF MqRelease
<1>3. OnlyHand(t, "dq")
  BY <1>1 DEF Moves, SameBut, OnlyHand, HandNames
<1>4. Q \in Seq(Service) /\ Apart(Q, hand) /\ ServerTypeOK
  BY DEF ServerInv, QueueInv, ServerTypeOK
<1>5. /\ hand \in [Hands -> Opt] /\ hand' \in [Hands -> Opt] /\ <<t, "dq">> \in Hands
      /\ hand[<<t, "dq">>] = s /\ hand'[<<t, "dq">>] = th'[t].dq
      /\ Differs(hand, hand', Hands, <<t, "dq">>)
  BY <1>3, <1>4, HandMoves DEF HandNames
<1>6. Apart(Q', hand') /\ \A z \in Service : Found(z, Q', hand') <=> Found(z, Q, hand)
  <2>1. CASE mq[s].release
    <3>1. hand' = hand
      BY <1>1, <1>5, <2>1 DEF Differs
    <3> QED
      BY <1>2, <1>4, <2>1, <3>1
  <2>2. CASE ~mq[s].release
    <3> DEFINE a == <<t, "dq">>
    <3>1. /\ a \in Hands /\ hand[a] = s /\ hand'[a] = NULL /\ Differs(hand, hand', Hands, a)
      BY <1>1, <1>5, <2>2
    <3>2. Q' = Append(Q, s)
      BY <1>2, <2>2
    <3> HIDE DEF a, s
    <3> QED
      BY <1>1, <1>4, <1>5, <3>1, <3>2, PutBack, ZenonT(90)
  <2> QED
    BY <2>1, <2>2
<1>7. s \notin slot
  BY <1>1, LabelTypes, OfThread
<1>8. \A i \in 1..Len(Q') : (\E j \in 1..Len(Q) : Q'[i] = Q[j]) \/ Q'[i] = s
  <2>1. CASE mq[s].release
    BY <1>2, <2>1
  <2>2. CASE ~mq[s].release
    <3>1. Q' = Append(Q, s)
      BY <1>2, <2>2
    <3> QED
      BY <1>1, <1>4, <3>1
  <2> QED
    BY <2>1, <2>2
<1>9. /\ th'[t].q = th[t].q /\ th'[t].nq = th[t].nq /\ th'[t].ctx = th[t].ctx
      /\ th'[t].queue = th[t].queue /\ th'[t].kill = th[t].kill
  BY <1>1 DEF Moves, SameBut
<1>10. /\ InDrop(th'[t].pc, th'[t].stack) => mq[th'[t].dq].release
       /\ th'[t].dq # NULL => th'[t].dq \notin slot
       /\ InFailed(th'[t].pc, th'[t].stack) /\ th'[t].kill = NULL => th'[t].queue \notin slot
       /\ th'[t].q \in slot => th'[t].q \in inited'
       /\ th'[t].nq \in slot => th'[t].nq \in inited'
       /\ th'[t].ctx # NULL => th'[t].ctx \in inited'
  BY <1>1, <1>2, <1>7, <1>9, OfThread
<1>11. inited \subseteq inited'
  BY <1>2
<1>12. \A i \in 1..Len(Q') : \/ \E j \in 1..Len(Q) : Q'[i] = Q[j]
                             \/ Q'[i] \in slot => Q'[i] \in inited'
  BY <1>7, <1>8
<1> HIDE DEF s
<1> QED
  BY <1>1, <1>2, <1>6, <1>10, <1>11, <1>12, QueueMoves

(* A worker takes the head of the global queue into its free hand f. *)
LEMMA QueuePop ==
    ASSUME ServerInv, NEW w \in Threads, NEW f \in {"q", "nq"}, Moves(w, {f}), Keeps(th[w], th'[w]),
           th[w][f] = NULL, UNCHANGED <<mq, ctx, slot, inited>>,
           \/ Q # << >> /\ Q' = Tail(Q) /\ th'[w][f] = Head(Q)
           \/ Q = << >> /\ Q' = Q /\ th'[w][f] = NULL
    PROVE  QueueInv'
<1>1. OnlyHand(w, f) /\ f \in HandNames
  BY DEF Moves, SameBut, OnlyHand, HandNames
<1>2. Q \in Seq(Service) /\ Apart(Q, hand) /\ ServerTypeOK
  BY DEF ServerInv, QueueInv, ServerTypeOK
<1>3. PICK a : /\ a \in Hands /\ hand[a] = NULL /\ hand'[a] = th'[w][f] /\ Differs(hand, hand', Hands, a)
               /\ hand \in [Hands -> Opt] /\ hand' \in [Hands -> Opt]
  BY <1>1, <1>2, HandMoves
<1>4. Apart(Q', hand') /\ \A z \in Service : Found(z, Q', hand') <=> Found(z, Q, hand)
  <2>1. CASE Q # << >>
    <3>1. Q' = Tail(Q) /\ hand'[a] = Head(Q)
      BY <1>3, <2>1
    <3> QED
      BY <1>2, <1>3, <2>1, <3>1, Dequeue, ZenonT(90)
  <2>2. CASE Q = << >>
    <3>1. hand' = hand /\ Q' = Q
      BY <1>3, <2>2 DEF Differs
    <3> QED
      BY <1>2, <3>1
  <2> QED
    BY <2>1, <2>2
<1>5. th'[w][f] \in slot => th'[w][f] \in inited
  <2>1. NULL \notin slot
    BY OfThread
  <2>2. Q # << >> => Head(Q) = Q[1] /\ 1 \in 1..Len(Q)
    BY <1>2
  <2> QED
    BY <2>1, <2>2 DEF ServerInv, QueueInv, FoundInited
<1>6. \A i \in 1..Len(Q') : \E j \in 1..Len(Q) : Q'[i] = Q[j]
  <2>1. CASE Q # << >>
    <3>1. \A i \in 1..Len(Tail(Q)) : i + 1 \in 1..Len(Q) /\ Tail(Q)[i] = Q[i + 1]
      BY <1>2, <2>1
    <3> QED
      BY <2>1, <3>1
  <2>2. CASE Q = << >>
    BY <2>2
  <2> QED
    BY <2>1, <2>2
<1>7. /\ th'[w].dq = th[w].dq /\ th'[w].ctx = th[w].ctx
      /\ th'[w].queue = th[w].queue /\ th'[w].kill = th[w].kill
      /\ th'[w].q = th[w].q \/ f = "q"
      /\ th'[w].nq = th[w].nq \/ f = "nq"
      /\ InDrop(th'[w].pc, th'[w].stack) => InDrop(th[w].pc, th[w].stack)
      /\ InFailed(th'[w].pc, th'[w].stack) => InFailed(th[w].pc, th[w].stack)
  BY DEF Moves, SameBut, Keeps
<1>8. /\ InDrop(th'[w].pc, th'[w].stack) => mq[th'[w].dq].release
      /\ th'[w].dq # NULL => th'[w].dq \notin slot
      /\ InFailed(th'[w].pc, th'[w].stack) /\ th'[w].kill = NULL => th'[w].queue \notin slot
      /\ th'[w].q \in slot => th'[w].q \in inited'
      /\ th'[w].nq \in slot => th'[w].nq \in inited'
      /\ th'[w].ctx # NULL => th'[w].ctx \in inited'
  BY <1>5, <1>7, OfThread
<1> QED
  BY <1>4, <1>6, <1>8, QueueMoves

LEMMA QueueWorkerPop ==
    ASSUME ServerInv, NEW w \in Worker, WorkerPop(w)
    PROVE  QueueInv'
<1>1. w \in Threads /\ ServerTypeOK /\ ThreadsOK
  BY DEF Threads, ServerInv
<1>2. /\ Moves(w, {"q"}) /\ Keeps(th[w], th'[w]) /\ th[w].q = NULL
      /\ Q # << >> => th'[w].q = Head(Q)
      /\ Q = << >> => th'[w].q = NULL
  BY <1>1, WorkerPopStep
<1>3. /\ UNCHANGED <<mq, ctx, slot, inited>>
      /\ (Q # << >> /\ Q' = Tail(Q)) \/ (Q = << >> /\ Q' = Q)
  BY DEF WorkerPop
<1> QED
  BY <1>1, <1>2, <1>3, QueuePop

LEMMA QueueDispatchNext ==
    ASSUME ServerInv, NEW w \in Worker, DispatchNext(w)
    PROVE  QueueInv'
<1>1. w \in Threads /\ ServerTypeOK /\ ThreadsOK
  BY DEF Threads, ServerInv
<1>2. /\ Moves(w, {"nq"}) /\ Keeps(th[w], th'[w]) /\ th[w].nq = NULL
      /\ Q # << >> => th'[w].nq = Head(Q)
      /\ Q = << >> => th'[w].nq = NULL
  BY <1>1, DispatchNextStep
<1>3. /\ UNCHANGED <<mq, ctx, slot, inited>>
      /\ (Q # << >> /\ Q' = Tail(Q)) \/ (Q = << >> /\ Q' = Q)
  BY DEF DispatchNext
<1> QED
  BY <1>1, <1>2, <1>3, QueuePop

(* A retired handle: the queue goes to mq_release. *)
LEMMA QueueDispatchGrab ==
    ASSUME ServerInv, NEW w \in Worker, DispatchGrab(w), th[w].q \notin slot
    PROVE  QueueInv'
<1> DEFINE s == th[w].q
<1>0. w \in Threads /\ ServerTypeOK /\ ThreadsOK
  BY DEF Threads, ServerInv
<1>1. /\ Moves(w, {"dq", "q"}) /\ Keeps(th[w], th'[w]) /\ s \in Service /\ th[w].dq = NULL
      /\ th'[w].dq = s /\ th'[w].q = NULL
  BY <1>0, DispatchGrabStep
<1>2. UNCHANGED <<mq, ctx, slot, inited, Q>>
  BY DEF DispatchGrab
<1>3. Q \in Seq(Service) /\ Apart(Q, hand)
  BY DEF ServerInv, QueueInv, ServerTypeOK
<1>4. /\ hand \in [Hands -> Opt] /\ hand' \in [Hands -> Opt]
      /\ <<w, "q">> \in Hands /\ <<w, "dq">> \in Hands
      /\ hand[<<w, "q">>] = s /\ hand'[<<w, "q">>] = NULL
      /\ hand[<<w, "dq">>] = NULL /\ hand'[<<w, "dq">>] = s
      /\ \A x \in Hands \ {<<w, "q">>, <<w, "dq">>} : hand'[x] = hand[x]
  <2>1. /\ th' \in [Threads -> Locals] /\ \A u \in Threads \ {w} : th'[u] = th[u]
        /\ \A e \in HandNames \ {"q", "dq"} : th'[w][e] = th[w][e]
    BY <1>1 DEF Moves, SameBut, HandNames
  <2>2. "q" \in HandNames /\ "dq" \in HandNames
    BY DEF HandNames
  <2> QED
    BY <1>0, <1>1, <2>1, <2>2, HandsMove
<1>5. Apart(Q', hand') /\ \A z \in Service : Found(z, Q', hand') <=> Found(z, Q, hand)
  <2> DEFINE a == <<w, "q">>
             b == <<w, "dq">>
  <2>1. /\ a \in Hands /\ b \in Hands /\ hand[a] = s /\ hand'[a] = NULL
        /\ hand[b] = NULL /\ hand'[b] = s
        /\ \A x \in Hands : x = a \/ x = b \/ hand'[x] = hand[x]
    BY <1>4
  <2> HIDE DEF a, b, s
  <2>2. /\ hand \in [Hands -> Opt] /\ hand' \in [Hands -> Opt] /\ s \in Service
        /\ Q \in Seq(Service) /\ Apart(Q, hand)
    BY <1>1, <1>3, <1>4
  <2>3. Apart(Q, hand') /\ \A z \in Service : Found(z, Q, hand') <=> Found(z, Q, hand)
    BY <2>1, <2>2, PassOn, SMTT(60)
  <2> QED
    BY <1>2, <2>3
<1>6. /\ th'[w].nq = th[w].nq /\ th'[w].ctx = th[w].ctx
      /\ th'[w].queue = th[w].queue /\ th'[w].kill = th[w].kill
      /\ ~InDrop(th'[w].pc, th'[w].stack)
      /\ InFailed(th'[w].pc, th'[w].stack) => InFailed(th[w].pc, th[w].stack)
  BY <1>0, <1>1, OfThread DEF Moves, SameBut, Keeps
<1>7. /\ th'[w].q \notin slot
      /\ InFailed(th'[w].pc, th'[w].stack) /\ th'[w].kill = NULL => th'[w].queue \notin slot
      /\ th'[w].nq \in slot => th'[w].nq \in inited'
      /\ th'[w].ctx # NULL => th'[w].ctx \in inited'
  BY <1>0, <1>1, <1>2, <1>6, OfThread
<1> QED
  BY <1>0, <1>1, <1>2, <1>5, <1>6, <1>7, QueueMoves

LEMMA QueueDispatchPushBack ==
    ASSUME ServerInv, NEW w \in Worker, DispatchPushBack(w)
    PROVE  QueueInv'
<1> DEFINE s == th[w].q
           n == th[w].nq
<1>0. w \in Threads /\ ServerTypeOK /\ ThreadsOK
  BY DEF Threads, ServerInv
<1>1. /\ Moves(w, {"q", "nq"}) /\ Keeps(th[w], th'[w]) /\ s \in Service /\ n \in Service
      /\ th'[w].q = n /\ th'[w].nq = NULL
  BY <1>0, DispatchPushBackStep
<1>2. UNCHANGED <<mq, ctx, slot, inited>> /\ Q' = Append(Q, s)
  BY DEF DispatchPushBack
<1>3. Q \in Seq(Service) /\ Apart(Q, hand)
  BY DEF ServerInv, QueueInv, ServerTypeOK
<1>4. /\ hand \in [Hands -> Opt] /\ hand' \in [Hands -> Opt]
      /\ <<w, "q">> \in Hands /\ <<w, "nq">> \in Hands /\ <<w, "q">> # <<w, "nq">>
      /\ hand[<<w, "q">>] = s /\ hand'[<<w, "q">>] = n
      /\ hand[<<w, "nq">>] = n /\ hand'[<<w, "nq">>] = NULL
      /\ \A x \in Hands \ {<<w, "q">>, <<w, "nq">>} : hand'[x] = hand[x]
  <2>1. /\ th' \in [Threads -> Locals] /\ \A u \in Threads \ {w} : th'[u] = th[u]
        /\ \A e \in HandNames \ {"q", "nq"} : th'[w][e] = th[w][e]
    BY <1>1 DEF Moves, SameBut, HandNames
  <2>2. "q" \in HandNames /\ "nq" \in HandNames
    BY DEF HandNames
  <2> QED
    BY <1>0, <1>1, <2>1, <2>2, HandsMove
<1>5. Apart(Q', hand') /\ \A z \in Service : Found(z, Q', hand') <=> Found(z, Q, hand)
  <2> DEFINE a == <<w, "q">>
             b == <<w, "nq">>
  <2>1. /\ a \in Hands /\ b \in Hands /\ a # b /\ hand[a] = s /\ hand'[a] = n
        /\ hand[b] = n /\ hand'[b] = NULL
        /\ \A x \in Hands : x = a \/ x = b \/ hand'[x] = hand[x]
    BY <1>4
  <2> HIDE DEF a, b, s, n
  <2>2. hand \in [Hands -> Opt] /\ hand' \in [Hands -> Opt] /\ Apart(Q, hand) /\ Q \in Seq(Service)
        /\ s \in Service /\ n \in Service
    BY <1>1, <1>3, <1>4
  <2>3. /\ Apart(Append(Q, s), hand')
        /\ \A z \in Service : Found(z, Append(Q, s), hand') <=> Found(z, Q, hand)
    BY <2>1, <2>2, Exchange, SMTT(60)
  <2> QED
    BY <1>2, <2>3
<1>6. /\ th'[w].ctx = th[w].ctx /\ th'[w].dq = th[w].dq
      /\ th'[w].queue = th[w].queue /\ th'[w].kill = th[w].kill
      /\ InDrop(th'[w].pc, th'[w].stack) => InDrop(th[w].pc, th[w].stack)
      /\ InFailed(th'[w].pc, th'[w].stack) => InFailed(th[w].pc, th[w].stack)
  BY <1>1 DEF Moves, SameBut, Keeps
<1>7. /\ InDrop(th'[w].pc, th'[w].stack) => mq[th'[w].dq].release
      /\ th'[w].dq # NULL => th'[w].dq \notin slot
      /\ InFailed(th'[w].pc, th'[w].stack) /\ th'[w].kill = NULL => th'[w].queue \notin slot
      /\ th'[w].q \in slot => th'[w].q \in inited'
      /\ th'[w].nq \notin slot
      /\ th'[w].ctx # NULL => th'[w].ctx \in inited'
      /\ s \in slot => s \in inited
  BY <1>0, <1>1, <1>2, <1>6, OfThread
<1>8. \A i \in 1..Len(Q') : (\E j \in 1..Len(Q) : Q'[i] = Q[j]) \/ Q'[i] = s
  BY <1>1, <1>2, <1>3
<1> HIDE DEF s, n
<1>9. \A i \in 1..Len(Q') : \/ \E j \in 1..Len(Q) : Q'[i] = Q[j]
                            \/ Q'[i] \in slot => Q'[i] \in inited'
  BY <1>2, <1>7, <1>8
<1>10. inited \subseteq inited' /\ Moves(w, {"q", "nq"}) /\ UNCHANGED <<mq, ctx, slot>>
  BY <1>1, <1>2
<1> QED
  BY <1>0, <1>5, <1>7, <1>9, <1>10, QueueMoves

LEMMA QueueLaunch ==
    ASSUME ServerInv, NEW t \in Threads, NEW s \in Service, Launch(t, s)
    PROVE  QueueInv'
<1> USE DEF ServerInv, QueueInv
<1>1. /\ Moves(t, {"new", "queue"}) /\ Keeps(th[t], th'[t])
      /\ th[t].queue = NULL /\ th'[t].queue = s /\ ~InFailed(th[t].pc, th[t].stack)
  BY LaunchStep
<1>2. /\ ctx[s] = "none" /\ ctx'[s] = "alive" /\ \A z \in Service \ {s} : ctx'[z] = ctx[z]
      /\ slot' = slot \cup {s} /\ inited' = inited /\ Q' = Q
      /\ mq'[s].in_global /\ ~mq'[s].release /\ ~mq'[s].freed
      /\ \A z \in Service \ {s} : mq'[z] = mq[z]
  BY DEF Launch, ServerTypeOK
<1>3. ~Found(s, Q, hand) /\ ~mq[s].release /\ mq[s].freed
  BY <1>2 DEF QueueFlags
<1>4. Q \in Seq(Service) /\ Apart(Q, hand) /\ ServerTypeOK
  BY DEF ServerTypeOK
<1>5. /\ hand \in [Hands -> Opt] /\ hand' \in [Hands -> Opt] /\ <<t, "queue">> \in Hands
      /\ hand[<<t, "queue">>] = NULL /\ hand'[<<t, "queue">>] = s
      /\ Differs(hand, hand', Hands, <<t, "queue">>)
  <2>1. OnlyHand(t, "queue")
    BY <1>1 DEF Moves, SameBut, OnlyHand, HandNames
  <2> QED
    BY <1>1, <1>4, <2>1, HandMoves DEF HandNames
<1> HIDE DEF ServerInv, QueueInv
<1>6. Apart(Q', hand') /\ \A z \in Service : Found(z, Q', hand') <=> z = s \/ Found(z, Q, hand)
  <2> DEFINE a == <<t, "queue">>
  <2>1. /\ a \in Hands /\ hand[a] = NULL /\ hand'[a] = s /\ Differs(hand, hand', Hands, a)
        /\ hand \in [Hands -> Opt] /\ hand' \in [Hands -> Opt]
    BY <1>5
  <2> HIDE DEF a
  <2>2. Apart(Q, hand') /\ \A z \in Service : Found(z, Q, hand') <=> z = s \/ Found(z, Q, hand)
    BY <1>3, <1>4, <2>1, TakeNew, ZenonT(90)
  <2> QED
    BY <1>2, <2>2
<1>7. QueueFlags'
  <2> SUFFICES ASSUME NEW z \in Service
               PROVE  /\ mq'[z].release <=> ctx'[z] = "freed"
                      /\ ctx'[z] = "none" => mq'[z].freed
                      /\ mq'[z].freed => ctx'[z] # "alive" /\ mq'[z].msgs = << >> /\ ~Found(z, Q', hand')
                      /\ ~mq'[z].freed /\ (mq'[z].in_global \/ mq'[z].release) => Found(z, Q', hand')
                      /\ Found(z, Q', hand') => mq'[z].in_global \/ mq'[z].release
                      /\ mq'[z].msgs # << >> => mq'[z].in_global \/ mq'[z].release
    BY DEF QueueFlags
  <2>1. CASE z = s
    BY <1>2, <1>6, <2>1
  <2>2. CASE z # s
    BY <1>2, <1>6, <2>2 DEF ServerInv, QueueInv, QueueFlags
  <2> QED
    BY <2>1, <2>2
<1>8. /\ th'[t].q = th[t].q /\ th'[t].nq = th[t].nq /\ th'[t].ctx = th[t].ctx /\ th'[t].dq = th[t].dq
      /\ th'[t].kill = th[t].kill
      /\ InDrop(th'[t].pc, th'[t].stack) => InDrop(th[t].pc, th[t].stack)
      /\ ~InFailed(th'[t].pc, th'[t].stack)
  BY <1>1 DEF Moves, SameBut, Keeps
<1>9. /\ th[t].dq # s /\ th[t].q # s /\ th[t].nq # s
  BY <1>3, <1>4, InHand DEF HandNames
<1>10. \A z \in Service : mq[z].release => mq'[z].release
  BY <1>2, <1>3
<1>11. \A z \in Service : Found(z, Q, hand) /\ z \in slot' => z \in slot
  BY <1>2, <1>3
<1>12. /\ InDrop(th'[t].pc, th'[t].stack) => mq'[th'[t].dq].release
       /\ th'[t].dq # NULL => th'[t].dq \notin slot'
       /\ th'[t].q \in slot' => th'[t].q \in inited'
       /\ th'[t].nq \in slot' => th'[t].nq \in inited'
       /\ th'[t].ctx # NULL => th'[t].ctx \in inited'
  <2>1. th[t].dq # NULL => th[t].dq \in Service
    BY <1>4, LabelTypes DEF ServerTypeOK, Locals
  <2> QED
    BY <1>2, <1>8, <1>9, <1>10, <2>1, OfThread
<1>13. DropsRetired'
  BY <1>1, <1>8, <1>10, <1>11, <1>12, DropsRest
<1>14. /\ inited \subseteq inited' /\ slot' \subseteq Service
       /\ \A z \in slot' : ~mq'[z].in_global => z \in slot /\ ~mq[z].in_global
       /\ \A i \in 1..Len(Q') : \E j \in 1..Len(Q) : Q'[i] = Q[j]
  <2>1. slot \subseteq Service
    BY <1>4 DEF ServerTypeOK
  <2>2. \A i \in 1..Len(Q') : i \in 1..Len(Q) /\ Q'[i] = Q[i]
    BY <1>2
  <2> QED
    BY <1>2, <2>1, <2>2
<1>15. FoundInited'
  BY <1>1, <1>11, <1>12, <1>14, InitedRest
<1> QED
  BY <1>6, <1>7, <1>13, <1>15 DEF QueueInv

(* The queue of a deleted context loses a message, or is freed. *)
LEMMA QueueDrop ==
    ASSUME ServerInv, NEW t \in Threads, Drop(t)
    PROVE  QueueInv'
<1> DEFINE s == th[t].dq
<1> USE DEF ServerInv, QueueInv
<1>1. /\ Moves(t, {"dq", "dst", "msg"}) /\ Keeps(th[t], th'[t])
      /\ s \in Service /\ InDrop(th[t].pc, th[t].stack)
      /\ mq[s].msgs = << >> => th'[t].dq = NULL /\ ~InDrop(th'[t].pc, th'[t].stack)
      /\ mq[s].msgs # << >> => th'[t].dq = s
  BY DropStep
<1>2. /\ UNCHANGED <<ctx, slot, inited, Q>>
      /\ mq'[s].release = mq[s].release /\ \A z \in Service \ {s} : mq'[z] = mq[z]
      /\ mq[s].msgs = << >> => mq'[s].freed /\ mq'[s].msgs = << >> /\ ~mq'[s].in_global
      /\ mq[s].msgs # << >> => mq'[s].freed = mq[s].freed /\ mq'[s].in_global = mq[s].in_global
  <2>1. /\ UNCHANGED <<ctx, slot, inited, Q>>
        /\ mq[s].msgs = << >> => mq' = [mq EXCEPT ![s].freed = TRUE, ![s].in_global = FALSE]
        /\ mq[s].msgs # << >> => mq' = [mq EXCEPT ![s].msgs = Tail(mq[s].msgs)]
    BY DEF Drop
  <2>2. mq \in [Service -> [msgs : Seq(Msg), in_global : BOOLEAN, release : BOOLEAN, freed : BOOLEAN]]
    BY DEF ServerTypeOK
  <2> HIDE DEF s, ServerInv, QueueInv
  <2>3. CASE mq[s].msgs = << >>
    BY <1>1, <2>1, <2>2, <2>3
  <2>4. CASE mq[s].msgs # << >>
    BY <1>1, <2>1, <2>2, <2>4
  <2> QED
    BY <2>3, <2>4
<1>3. mq[s].release /\ ctx[s] = "freed" /\ s \notin slot /\ Found(s, Q, hand) /\ ~mq[s].freed
  <2>1. mq[s].release /\ s \notin slot
    BY <1>1, LabelTypes, OfThread
  <2>2. Found(s, Q, hand)
    BY <1>1, InHand DEF HandNames
  <2> QED
    BY <1>1, <2>1, <2>2 DEF QueueFlags
<1>4. Q \in Seq(Service) /\ Apart(Q, hand) /\ ServerTypeOK
  BY DEF ServerTypeOK
<1>5. /\ hand \in [Hands -> Opt] /\ hand' \in [Hands -> Opt] /\ <<t, "dq">> \in Hands
      /\ hand[<<t, "dq">>] = s /\ hand'[<<t, "dq">>] = th'[t].dq
      /\ Differs(hand, hand', Hands, <<t, "dq">>)
  <2>1. OnlyHand(t, "dq")
    BY <1>1 DEF Moves, SameBut, OnlyHand, HandNames
  <2> QED
    BY <1>4, <2>1, HandMoves DEF HandNames
<1> HIDE DEF ServerInv, QueueInv
<1>6. /\ Apart(Q', hand') /\ \A z \in Service \ {s} : Found(z, Q', hand') <=> Found(z, Q, hand)
      /\ Found(s, Q', hand') <=> mq[s].msgs # << >>
  <2> DEFINE a == <<t, "dq">>
  <2>1. /\ a \in Hands /\ hand[a] = s /\ hand'[a] = th'[t].dq /\ Differs(hand, hand', Hands, a)
        /\ hand \in [Hands -> Opt] /\ hand' \in [Hands -> Opt]
    BY <1>5
  <2> HIDE DEF a
  <2>2. CASE mq[s].msgs = << >>
    <3>1. hand'[a] = NULL
      BY <1>1, <2>1, <2>2
    <3> HIDE DEF s
    <3>2. /\ Apart(Q, hand') /\ ~Found(s, Q, hand')
          /\ \A z \in Service : Found(z, Q, hand') <=> z # s /\ Found(z, Q, hand)
      <4>1. s \in Service /\ Q \in Seq(Service) /\ Apart(Q, hand)
        BY <1>1, <1>4
      <4> QED
        BY <2>1, <3>1, <4>1, LetGo, ZenonT(90)
    <3> QED
      BY <1>2, <2>2, <3>2
  <2>3. CASE mq[s].msgs # << >>
    <3>1. hand' = hand
      BY <1>1, <2>1, <2>3 DEF Differs
    <3> QED
      BY <1>2, <1>3, <1>4, <2>3, <3>1
  <2> QED
    BY <2>2, <2>3
<1> HIDE DEF s
<1>7. QueueFlags'
  <2> SUFFICES ASSUME NEW z \in Service
               PROVE  /\ mq'[z].release <=> ctx'[z] = "freed"
                      /\ ctx'[z] = "none" => mq'[z].freed
                      /\ mq'[z].freed => ctx'[z] # "alive" /\ mq'[z].msgs = << >> /\ ~Found(z, Q', hand')
                      /\ ~mq'[z].freed /\ (mq'[z].in_global \/ mq'[z].release) => Found(z, Q', hand')
                      /\ Found(z, Q', hand') => mq'[z].in_global \/ mq'[z].release
                      /\ mq'[z].msgs # << >> => mq'[z].in_global \/ mq'[z].release
    BY DEF QueueFlags
  <2>1. CASE z = s
    BY <1>2, <1>3, <1>6, <2>1
  <2>2. CASE z # s
    BY <1>2, <1>6, <2>2 DEF ServerInv, QueueInv, QueueFlags
  <2> QED
    BY <2>1, <2>2
<1>8. /\ th'[t].q = th[t].q /\ th'[t].nq = th[t].nq /\ th'[t].ctx = th[t].ctx
      /\ th'[t].kill = th[t].kill /\ th'[t].queue = th[t].queue
      /\ InFailed(th'[t].pc, th'[t].stack) => InFailed(th[t].pc, th[t].stack)
  BY <1>1 DEF Moves, SameBut, Keeps
<1>9. \A z \in Service : mq[z].release => mq'[z].release
  BY <1>2
<1>10. /\ InDrop(th'[t].pc, th'[t].stack) => mq'[th'[t].dq].release
       /\ th'[t].dq # NULL => th'[t].dq \notin slot'
       /\ InFailed(th'[t].pc, th'[t].stack) /\ th'[t].kill = NULL => th'[t].queue \notin slot'
       /\ th'[t].q \in slot' => th'[t].q \in inited'
       /\ th'[t].nq \in slot' => th'[t].nq \in inited'
       /\ th'[t].ctx # NULL => th'[t].ctx \in inited'
  BY <1>1, <1>2, <1>3, <1>8, OfThread
<1>11. DropsRetired'
  BY <1>1, <1>2, <1>9, <1>10, DropsRest
<1>12. /\ inited \subseteq inited' /\ slot' \subseteq Service
       /\ \A z \in slot' : ~mq'[z].in_global => z \in slot /\ ~mq[z].in_global
       /\ \A i \in 1..Len(Q') : \E j \in 1..Len(Q) : Q'[i] = Q[j]
  <2>1. slot \subseteq Service
    BY <1>4 DEF ServerTypeOK
  <2>2. \A i \in 1..Len(Q') : i \in 1..Len(Q) /\ Q'[i] = Q[i]
    BY <1>2
  <2> QED
    BY <1>2, <1>3, <2>1, <2>2
<1>13. FoundInited'
  BY <1>1, <1>2, <1>10, <1>12, InitedRest
<1> QED
  BY <1>6, <1>7, <1>11, <1>13 DEF QueueInv

(* A worker takes a message, or lets an empty queue go; init of its context *)
(* is set.                                                                  *)
LEMMA QueueDispatchPop ==
    ASSUME ServerInv, NEW w \in Worker, DispatchPop(w)
    PROVE  QueueInv'
<1> DEFINE s == th[w].q
<1>0. w \in Threads /\ ServerTypeOK /\ ThreadsOK
  BY DEF Threads, ServerInv
<1>1. /\ Moves(w, {"q", "n"}) /\ Keeps(th[w], th'[w]) /\ s \in Service /\ s = th[w].ctx
      /\ mq[s].msgs = << >> => th'[w].q = NULL
      /\ mq[s].msgs # << >> => th'[w].q = s
  BY <1>0, DispatchPopStep
<1>2. /\ UNCHANGED <<ctx, slot, inited, Q>>
      /\ mq'[s].release = mq[s].release /\ \A z \in Service \ {s} : mq'[z] = mq[z]
      /\ mq'[s].freed = mq[s].freed
      /\ mq[s].msgs = << >> => mq'[s].msgs = << >> /\ ~mq'[s].in_global
      /\ mq[s].msgs # << >> => mq'[s].in_global = mq[s].in_global
  <2>1. /\ UNCHANGED <<ctx, slot, inited, Q>>
        /\ mq[s].msgs = << >> => mq' = [mq EXCEPT ![s].in_global = FALSE]
        /\ mq[s].msgs # << >> => mq' = [mq EXCEPT ![s].msgs = Tail(mq[s].msgs)]
    BY DEF DispatchPop
  <2>2. mq \in [Service -> [msgs : Seq(Msg), in_global : BOOLEAN, release : BOOLEAN, freed : BOOLEAN]]
    BY <1>0 DEF ServerTypeOK
  <2> HIDE DEF s
  <2>3. CASE mq[s].msgs = << >>
    BY <1>1, <2>1, <2>2, <2>3
  <2>4. CASE mq[s].msgs # << >>
    BY <1>1, <2>1, <2>2, <2>4
  <2> QED
    BY <2>3, <2>4
<1>3. /\ ctx[s] = "alive" /\ ~mq[s].freed /\ ~mq[s].release /\ Found(s, Q, hand) /\ s \in inited
      /\ mq[s].in_global
  <2>1. ctx[s] = "alive" /\ ~mq[s].freed /\ ~mq[s].release
    BY <1>0, <1>1, Referred DEF OwnNames
  <2>2. Found(s, Q, hand)
    BY <1>0, <1>1, InHand DEF HandNames
  <2>3. s \in inited
    BY <1>0, <1>1, LabelTypes, OfThread
  <2> QED
    BY <1>1, <2>1, <2>2, <2>3 DEF ServerInv, QueueInv, QueueFlags
<1>4. Q \in Seq(Service) /\ Apart(Q, hand)
  BY DEF ServerInv, QueueInv, ServerTypeOK
<1>5. PICK a : /\ a \in Hands /\ hand[a] = s /\ hand'[a] = th'[w].q /\ Differs(hand, hand', Hands, a)
               /\ hand \in [Hands -> Opt] /\ hand' \in [Hands -> Opt]
  <2>1. OnlyHand(w, "q")
    BY <1>1 DEF Moves, SameBut, OnlyHand, HandNames
  <2> QED
    BY <1>0, <2>1, HandMoves DEF HandNames
<1>6. /\ Apart(Q', hand') /\ \A z \in Service \ {s} : Found(z, Q', hand') <=> Found(z, Q, hand)
      /\ Found(s, Q', hand') <=> mq[s].msgs # << >>
  <2>2. CASE mq[s].msgs = << >>
    <3>1. hand'[a] = NULL
      BY <1>1, <1>5, <2>2
    <3> HIDE DEF s
    <3>2. /\ Apart(Q, hand') /\ ~Found(s, Q, hand')
          /\ \A z \in Service : Found(z, Q, hand') <=> z # s /\ Found(z, Q, hand)
      <4>1. s \in Service /\ Q \in Seq(Service) /\ Apart(Q, hand)
        BY <1>1, <1>4
      <4> QED
        BY <1>5, <3>1, <4>1, LetGo, ZenonT(90)
    <3> QED
      BY <1>2, <2>2, <3>2
  <2>3. CASE mq[s].msgs # << >>
    <3>1. hand' = hand
      BY <1>1, <1>5, <2>3 DEF Differs
    <3> QED
      BY <1>2, <1>3, <1>4, <2>3, <3>1
  <2> QED
    BY <2>2, <2>3
<1>7. QueueFlags'
  <2> SUFFICES ASSUME NEW z \in Service
               PROVE  /\ mq'[z].release <=> ctx'[z] = "freed"
                      /\ ctx'[z] = "none" => mq'[z].freed
                      /\ mq'[z].freed => ctx'[z] # "alive" /\ mq'[z].msgs = << >> /\ ~Found(z, Q', hand')
                      /\ ~mq'[z].freed /\ (mq'[z].in_global \/ mq'[z].release) => Found(z, Q', hand')
                      /\ Found(z, Q', hand') => mq'[z].in_global \/ mq'[z].release
                      /\ mq'[z].msgs # << >> => mq'[z].in_global \/ mq'[z].release
    BY DEF QueueFlags
  <2>0. ctx'[s] = "alive"
    BY <1>2, <1>3
  <2> HIDE DEF s
  <2>1. CASE z = s
    BY <1>2, <1>3, <1>6, <2>0, <2>1
  <2>2. CASE z # s
    BY <1>2, <1>6, <2>2 DEF ServerInv, QueueInv, QueueFlags
  <2> QED
    BY <2>1, <2>2
<1>8. /\ th'[w].nq = th[w].nq /\ th'[w].ctx = th[w].ctx /\ th'[w].dq = th[w].dq
      /\ th'[w].kill = th[w].kill /\ th'[w].queue = th[w].queue
      /\ InDrop(th'[w].pc, th'[w].stack) => InDrop(th[w].pc, th[w].stack)
      /\ InFailed(th'[w].pc, th'[w].stack) => InFailed(th[w].pc, th[w].stack)
  BY <1>1 DEF Moves, SameBut, Keeps
<1>9. \A z \in Service : mq[z].release => mq'[z].release
  BY <1>2
<1>10. /\ InDrop(th'[w].pc, th'[w].stack) => mq'[th'[w].dq].release
       /\ th'[w].dq # NULL => th'[w].dq \notin slot'
       /\ InFailed(th'[w].pc, th'[w].stack) /\ th'[w].kill = NULL => th'[w].queue \notin slot'
       /\ th'[w].q \in slot' => th'[w].q \in inited'
       /\ th'[w].nq \in slot' => th'[w].nq \in inited'
       /\ th'[w].ctx # NULL => th'[w].ctx \in inited'
  <2>1. th[w].dq # NULL => th[w].dq \in Service
    BY <1>0, LabelTypes DEF ServerTypeOK, Locals
  <2> QED
    BY <1>0, <1>1, <1>2, <1>3, <1>8, <1>9, <2>1, OfThread
<1> HIDE DEF s
<1>11. DropsRetired'
  BY <1>0, <1>1, <1>2, <1>9, <1>10, DropsRest
<1>12. /\ inited \subseteq inited' /\ slot' \subseteq Service
       /\ \A z \in slot' : ~mq'[z].in_global => (z \in slot /\ ~mq[z].in_global) \/ z \in inited'
       /\ \A i \in 1..Len(Q') : \E j \in 1..Len(Q) : Q'[i] = Q[j]
  <2>1. slot \subseteq Service
    BY <1>0 DEF ServerTypeOK
  <2>2. \A i \in 1..Len(Q') : i \in 1..Len(Q) /\ Q'[i] = Q[i]
    BY <1>2
  <2> QED
    BY <1>2, <1>3, <2>1, <2>2
<1>13. FoundInited'
  BY <1>0, <1>1, <1>2, <1>10, <1>12, InitedRest
<1> QED
  BY <1>6, <1>7, <1>11, <1>13 DEF QueueInv

(* ------------------------------------------------------------------------ *)
(* Every action preserves the invariant.                                    *)

LEMMA Advance ==
    ASSUME ServerInv, NEW t \in Threads, NEW F, Moves(t, F)
    PROVE  ThreadsOK' /\ th' \in [Threads -> Locals]
  BY DEF ServerInv, ThreadsOK, Moves

Fates == {"unsent", "sending", "queued", "dispatched", "dropped", "refused"}
Queues == [msgs : Seq(Msg), in_global : BOOLEAN, release : BOOLEAN, freed : BOOLEAN]

LEMMA FateType ==
    ASSUME ServerTypeOK, NEW m \in Msg, NEW f \in Fates, Becomes(m, f)
    PROVE  fate' \in [Message -> Fates]
<1>1. fate \in [Message -> Fates] /\ m.id \in Message \cup {NULL}
  BY DEF ServerTypeOK, Fates, Msg
<1> QED
  BY <1>1 DEF Becomes

LEMMA Types ==
    ASSUME ServerTypeOK
    PROVE  /\ ctx \in [Service -> {"none", "alive", "freed"}] /\ refs \in [Service -> Nat]
           /\ slot \subseteq Service /\ inited \subseteq Service
           /\ mq \in [Service -> Queues] /\ Q \in Seq(Service) /\ total \in Int /\ quit \in BOOLEAN
           /\ fate \in [Message -> Fates] /\ kills \in Nat
  BY DEF ServerTypeOK, Queues, Fates

LEMMA TypesNext ==
    ASSUME th' \in [Threads -> Locals],
           ctx' \in [Service -> {"none", "alive", "freed"}], refs' \in [Service -> Nat],
           slot' \subseteq Service, inited' \subseteq Service,
           mq' \in [Service -> Queues], Q' \in Seq(Service), total' \in Int, quit' \in BOOLEAN,
           fate' \in [Message -> Fates], kills' \in Nat
    PROVE  ServerTypeOK'
  BY DEF ServerTypeOK, Queues, Fates

LEMMA Parts ==
    ASSUME ServerInv
    PROVE  ServerTypeOK /\ ThreadsOK /\ RefInv /\ QueueInv
  BY DEF ServerInv

LEMMA Whole ==
    ASSUME ServerTypeOK', ThreadsOK', RefInv', QueueInv'
    PROVE  ServerInv'
  BY DEF ServerInv

LEMMA OwnMoves ==
    ASSUME NEW t \in Threads, NEW F, Moves(t, F), NEW f \in OwnNames, \A g \in OwnNames : g = f \/ g \notin F
    PROVE  OnlyOwn(t, f)
  BY DEF Moves, SameBut, OnlyOwn, OwnNames

(* A thread moves; the kernel stays as it is. *)
LEMMA KernelKept ==
    ASSUME ServerInv, NEW t \in Threads, NEW F, Moves(t, F), Keeps(th[t], th'[t]),
           F \subseteq {"n", "dst", "msg", "kill"},
           th'[t].kill = NULL => th[t].kill = NULL \/ ~InFailed(th'[t].pc, th'[t].stack),
           UNCHANGED kernel, quit' \in BOOLEAN, fate' \in [Message -> Fates], kills' \in Nat
    PROVE  ServerInv'
<1>1. UNCHANGED <<ctx, refs, slot, inited, mq, Q, total>>
  BY DEF kernel
<1>2. ThreadsOK' /\ th' \in [Threads -> Locals]
  BY Advance
<1>3. ServerTypeOK'
  BY <1>1, <1>2, Parts, Types, TypesNext
<1>4. RefInv'
  BY <1>1, RefKeep
<1>5. QueueInv'
  <2>1. th'[t].ctx = th[t].ctx
    BY DEF Moves, SameBut
  <2>2. "q" \notin F /\ "nq" \notin F /\ "queue" \notin F /\ "dq" \notin F
    OBVIOUS
  <2>3. /\ InDrop(th'[t].pc, th'[t].stack) => InDrop(th[t].pc, th[t].stack)
        /\ InFailed(th'[t].pc, th'[t].stack) /\ th'[t].kill = NULL =>
               InFailed(th[t].pc, th[t].stack) /\ th[t].kill = NULL
    BY DEF Keeps
  <2> QED
    BY <1>1, <2>1, <2>2, <2>3, QueueKeep
<1> QED
  BY <1>2, <1>3, <1>4, <1>5, Whole

(* No thread takes or gives back a reference. *)
LEMMA RefSame ==
    ASSUME ServerInv, NEW t \in Threads, OnlyOwn(t, "tgt"), th'[t].tgt = th[t].tgt,
           th'[t].victim = th[t].victim, UNCHANGED <<refs, slot, ctx>>
    PROVE  RefInv'
<1>1. \A u \in Threads : th'[u].victim = th[u].victim
  BY DEF OnlyOwn
<1>2. \A s \in Service : Cardinality(Holders(s))' = Cardinality(Holders(s))
  BY HolderMoves DEF ServerInv, OwnNames
<1> QED
  BY <1>1, <1>2 DEF ServerInv, RefInv

(* A thread moves; of the kernel only the references change. *)
LEMMA ReferencesOnly ==
    ASSUME ServerInv, NEW t \in Threads, NEW F, Moves(t, F),
           "q" \notin F /\ "nq" \notin F /\ "queue" \notin F /\ "dq" \notin F,
           UNCHANGED <<ctx, inited, mq, Q, total, quit, kills>>, slot' \subseteq slot,
           th'[t].ctx \in {th[t].ctx, NULL} \/ (th'[t].ctx = th[t].q /\ th[t].q \in slot),
           InDrop(th'[t].pc, th'[t].stack) => InDrop(th[t].pc, th[t].stack),
           InFailed(th'[t].pc, th'[t].stack) /\ th'[t].kill = NULL =>
               (InFailed(th[t].pc, th[t].stack) /\ th[t].kill = NULL) \/ th[t].queue \notin slot',
           RefInv', refs' \in [Service -> Nat], fate' \in [Message -> Fates]
    PROVE  ServerInv'
<1>1. ThreadsOK' /\ th' \in [Threads -> Locals]
  BY Advance
<1>2. ServerTypeOK'
  <2>1. slot' \subseteq Service
    BY Parts, Types
  <2> QED
    BY <1>1, <2>1, Parts, Types, TypesNext
<1>3. QueueInv'
  BY QueueKeep
<1> QED
  BY <1>1, <1>2, <1>3, Whole

LEMMA KillFree ==
    ASSUME ServerInv, NEW t \in Threads, th[t].pc \in {"cb", "abort"}
    PROVE  th[t].kill = NULL
<1>1. ThreadOK(t, th[t])
  BY Parts DEF ThreadsOK
<1>2. th[t].stack = << >> \/ th[t].stack = StCb
  BY <1>1 DEF ThreadOK, Shape, Bottom
<1> QED
  BY <1>1, <1>2, Differ DEF StacksDiffer, ThreadOK, CalleeSet, InRetire

LEMMA InvSend ==
    ASSUME ServerInv, NEW t \in Threads, NEW d \in Service, NEW m \in Message, Send(t, d, m)
    PROVE  ServerInv'
<1>1. Moves(t, {"dst", "msg"}) /\ Keeps(th[t], th'[t])
  BY Parts, SendStep
<1>2. fate' \in [Message -> Fates]
  BY Parts, Types DEF Send, Fates
<1>3. UNCHANGED <<kernel, quit, kills>>
  BY DEF Send
<1>4. th'[t].kill = th[t].kill
  BY <1>1 DEF Moves, SameBut
<1> QED
  BY <1>1, <1>2, <1>3, <1>4, Parts, Types, KernelKept

LEMMA InvKill ==
    ASSUME ServerInv, NEW t \in Threads, NEW s \in Service, Kill(t, s)
    PROVE  ServerInv'
<1>1. Moves(t, {"kill", "dst", "msg"}) /\ Keeps(th[t], th'[t])
  BY Parts, KillStep
<1>2. UNCHANGED <<kernel, quit, fate>> /\ kills' = kills + 1 /\ th[t].pc = "cb"
  BY DEF Kill, At
<1>3. kills' \in Nat /\ quit' \in BOOLEAN /\ fate' \in [Message -> Fates] /\ UNCHANGED kernel
  BY <1>2, Parts, Types
<1>4. th[t].kill = NULL
  BY <1>2, KillFree
<1> QED
  BY <1>1, <1>3, <1>4, KernelKept

LEMMA InvAbort ==
    ASSUME ServerInv, NEW t \in Threads, Abort(t)
    PROVE  ServerInv'
<1>1. Moves(t, {}) /\ Keeps(th[t], th'[t])
  BY Parts, AbortStep
<1>2. UNCHANGED <<kernel, quit, fate>> /\ kills' = kills + 1 /\ th[t].pc = "cb"
  BY DEF Abort, At
<1>3. kills' \in Nat /\ quit' \in BOOLEAN /\ fate' \in [Message -> Fates] /\ UNCHANGED kernel
  BY <1>2, Parts, Types
<1>4. th[t].kill = NULL
  BY <1>2, KillFree
<1> QED
  BY <1>1, <1>3, <1>4, KernelKept

LEMMA InvRetireAll ==
    ASSUME ServerInv, NEW t \in Threads, RetireAll(t)
    PROVE  ServerInv'
<1>1. Moves(t, {"kill"}) /\ Keeps(th[t], th'[t])
  BY Parts, RetireAllStep
<1>2. UNCHANGED <<kernel, quit, fate, kills>> /\ th[t].pc = "abort"
  BY DEF RetireAll, At
<1>3. kills' \in Nat /\ quit' \in BOOLEAN /\ fate' \in [Message -> Fates] /\ UNCHANGED kernel
  BY <1>2, Parts, Types
<1>4. th[t].kill = NULL
  BY <1>2, KillFree
<1> QED
  BY <1>1, <1>3, <1>4, KernelKept

LEMMA InvWorkerJump ==
    ASSUME ServerInv, NEW w \in Worker,
           WorkerAgain(w) \/ WorkerExit(w) \/ Sleep(w) \/ Wakeup(w) \/ CallbackReturn(w) \/ DispatchLength(w)
    PROVE  ServerInv'
<1>1. w \in Threads
  BY DEF Threads
<1>2. UNCHANGED <<kernel, quit, fate, kills>>
  BY DEF WorkerAgain, WorkerExit, Sleep, Wakeup, CallbackReturn, DispatchLength
<1>3. kills' \in Nat /\ quit' \in BOOLEAN /\ fate' \in [Message -> Fates] /\ UNCHANGED kernel
  BY <1>2, Parts, Types
<1>4. CASE WorkerAgain(w) \/ WorkerExit(w) \/ Sleep(w) \/ Wakeup(w) \/ CallbackReturn(w)
  <2>1. Moves(w, {}) /\ Keeps(th[w], th'[w])
    BY <1>4, Parts, WorkerJumpStep
  <2>2. th'[w].kill = th[w].kill
    BY <2>1 DEF Moves, SameBut
  <2> QED
    BY <1>1, <1>3, <2>1, <2>2, KernelKept
<1>5. CASE DispatchLength(w)
  <2>1. Moves(w, {"n"}) /\ Keeps(th[w], th'[w])
    BY <1>5, Parts, DispatchLengthStep
  <2>2. th'[w].kill = th[w].kill
    BY <2>1 DEF Moves, SameBut
  <2> QED
    BY <1>1, <1>3, <2>1, <2>2, KernelKept
<1> QED
  BY <1>4, <1>5

LEMMA InvSendGrab ==
    ASSUME ServerInv, NEW t \in Threads, SendGrab(t)
    PROVE  ServerInv'
<1> DEFINE d == th[t].dst
<1>1. /\ d \in Service /\ th[t].tgt = NULL /\ th[t].msg \in Msg
      /\ Moves(t, {"tgt", "dst", "msg"}) /\ Keeps(th[t], th'[t])
      /\ d \in slot => th'[t].tgt = d
      /\ d \notin slot => th'[t].tgt = NULL
  BY Parts, SendGrabStep
<1>2. /\ UNCHANGED <<ctx, slot, inited, mq, Q, total, quit, kills>>
      /\ \/ d \in slot /\ refs' = [refs EXCEPT ![d] = @ + 1] /\ fate' = fate
         \/ d \notin slot /\ Becomes(th[t].msg, "refused") /\ refs' = refs
  BY DEF SendGrab
<1>3. fate' \in [Message -> Fates]
  BY <1>1, <1>2, Parts, Types, FateType DEF Fates
<1>4. OnlyOwn(t, "tgt") /\ th'[t].victim = th[t].victim /\ th'[t].ctx = th[t].ctx
  BY <1>1 DEF Moves, SameBut, OnlyOwn, OwnNames
<1>5. RefInv' /\ refs' \in [Service -> Nat]
  <2>1. CASE d \in slot
    <3>1. refs' = [refs EXCEPT ![d] = @ + 1] /\ th'[t].tgt = d /\ "tgt" \in OwnNames
      BY <1>1, <1>2, <2>1 DEF OwnNames
    <3> HIDE DEF d
    <3> QED
      BY <1>1, <1>2, <1>4, <2>1, <3>1, RefGrab
  <2>2. CASE d \notin slot
    BY <1>1, <1>2, <1>4, <2>2, Parts, Types, RefSame
  <2> QED
    BY <2>1, <2>2
<1>6. /\ InDrop(th'[t].pc, th'[t].stack) => InDrop(th[t].pc, th[t].stack)
      /\ InFailed(th'[t].pc, th'[t].stack) => InFailed(th[t].pc, th[t].stack)
      /\ th'[t].kill = th[t].kill
  BY <1>1 DEF Keeps, Moves, SameBut
<1> HIDE DEF d
<1> QED
  BY <1>1, <1>2, <1>3, <1>4, <1>5, <1>6, ReferencesOnly

(* A reference in local f is given back. *)
LEMMA InvRelease ==
    ASSUME ServerInv, NEW t \in Threads, NEW F, Moves(t, F), NEW f \in OwnNames,
           \A g \in OwnNames : g = f \/ g \notin F, NEW s, GivesBack(t, s, f),
           "q" \notin F /\ "nq" \notin F /\ "queue" \notin F /\ "dq" \notin F,
           refs' = [refs EXCEPT ![s] = @ - 1],
           UNCHANGED <<ctx, slot, inited, mq, Q, total, quit, fate, kills>>,
           InDrop(th'[t].pc, th'[t].stack) => InDrop(th[t].pc, th[t].stack),
           InFailed(th'[t].pc, th'[t].stack) /\ th'[t].kill = NULL =>
               InFailed(th[t].pc, th[t].stack) /\ th[t].kill = NULL
    PROVE  ServerInv'
<1>1. OnlyOwn(t, f)
  BY OwnMoves
<1>2. s \in Service
  BY DEF GivesBack
<1>3. RefInv' /\ refs' \in [Service -> Nat]
  BY <1>1, <1>2, RefRelease
<1>4. th'[t].ctx \in {th[t].ctx, NULL}
  BY DEF GivesBack, Moves, SameBut, OwnNames
<1>5. fate' \in [Message -> Fates] /\ slot' \subseteq slot
  BY Parts, Types
<1> QED
  BY <1>3, <1>4, <1>5, ReferencesOnly

LEMMA InvSendRelease ==
    ASSUME ServerInv, NEW t \in Threads, SendRelease(t)
    PROVE  ServerInv'
<1>1. /\ Moves(t, {"tgt", "dst", "msg", "victim"}) /\ Keeps(th[t], th'[t])
      /\ GivesBack(t, th[t].tgt, "tgt")
  BY Parts, SendReleaseStep
<1>2. /\ refs' = [refs EXCEPT ![th[t].tgt] = @ - 1]
      /\ UNCHANGED <<ctx, slot, inited, mq, Q, total, quit, fate, kills>>
  BY DEF SendRelease, Release
<1>3. /\ th'[t].kill = th[t].kill
      /\ InDrop(th'[t].pc, th'[t].stack) => InDrop(th[t].pc, th[t].stack)
      /\ InFailed(th'[t].pc, th'[t].stack) => InFailed(th[t].pc, th[t].stack)
  BY <1>1 DEF Moves, SameBut, Keeps
<1>4. "tgt" \in OwnNames /\ \A g \in OwnNames : g = "tgt" \/ g \notin {"tgt", "dst", "msg", "victim"}
  BY DEF OwnNames
<1> QED
  BY <1>1, <1>2, <1>3, <1>4, InvRelease

LEMMA InvInitOk ==
    ASSUME ServerInv, NEW t \in Threads, InitOk(t)
    PROVE  ServerInv'
<1>1. /\ Moves(t, {"new", "victim"}) /\ Keeps(th[t], th'[t])
      /\ GivesBack(t, th[t].new, "new")
  BY Parts, InitOkStep
<1>2. /\ refs' = [refs EXCEPT ![th[t].new] = @ - 1]
      /\ UNCHANGED <<ctx, slot, inited, mq, Q, total, quit, fate, kills>>
  BY DEF InitOk, Release
<1>3. /\ th'[t].kill = th[t].kill
      /\ InDrop(th'[t].pc, th'[t].stack) => InDrop(th[t].pc, th[t].stack)
      /\ InFailed(th'[t].pc, th'[t].stack) => InFailed(th[t].pc, th[t].stack)
  BY <1>1 DEF Moves, SameBut, Keeps
<1>4. "new" \in OwnNames /\ \A g \in OwnNames : g = "new" \/ g \notin {"new", "victim"}
  BY DEF OwnNames
<1> QED
  BY <1>1, <1>2, <1>3, <1>4, InvRelease

LEMMA InvInitFail ==
    ASSUME ServerInv, NEW t \in Threads, InitFail(t)
    PROVE  ServerInv'
<1>1. /\ Moves(t, {"new", "kill", "victim"}) /\ th'[t].kill # NULL
      /\ InDrop(th'[t].pc, th'[t].stack) => InDrop(th[t].pc, th[t].stack)
      /\ GivesBack(t, th[t].new, "new")
  BY Parts, InitFailStep
<1>2. /\ refs' = [refs EXCEPT ![th[t].new] = @ - 1]
      /\ UNCHANGED <<ctx, slot, inited, mq, Q, total, quit, fate, kills>>
  BY DEF InitFail, Release
<1>4. "new" \in OwnNames /\ \A g \in OwnNames : g = "new" \/ g \notin {"new", "kill", "victim"}
  BY DEF OwnNames
<1> QED
  BY <1>1, <1>2, <1>4, InvRelease

LEMMA InvDispatchRelease ==
    ASSUME ServerInv, NEW w \in Worker, DispatchEmpty(w) \/ DispatchDone(w)
    PROVE  ServerInv'
<1>0. w \in Threads
  BY DEF Threads
<1>1. /\ Moves(w, {"ctx", "victim"}) /\ Keeps(th[w], th'[w])
      /\ GivesBack(w, th[w].ctx, "ctx")
  BY Parts, DispatchReleaseStep
<1>2. /\ refs' = [refs EXCEPT ![th[w].ctx] = @ - 1]
      /\ UNCHANGED <<ctx, slot, inited, mq, Q, total, quit, fate, kills>>
  BY DEF DispatchEmpty, DispatchDone, Release
<1>3. /\ th'[w].kill = th[w].kill
      /\ InDrop(th'[w].pc, th'[w].stack) => InDrop(th[w].pc, th[w].stack)
      /\ InFailed(th'[w].pc, th'[w].stack) => InFailed(th[w].pc, th[w].stack)
  BY <1>1 DEF Moves, SameBut, Keeps
<1>4. "ctx" \in OwnNames /\ \A g \in OwnNames : g = "ctx" \/ g \notin {"ctx", "victim"}
  BY DEF OwnNames
<1> QED
  BY <1>0, <1>1, <1>2, <1>3, <1>4, InvRelease

LEMMA InvEndless ==
    ASSUME ServerInv, NEW t \in Threads, NEW s \in Service, Endless(t, s)
    PROVE  ServerInv'
<1>1. Moves(t, {"tgt"}) /\ Keeps(th[t], th'[t]) /\ th[t].tgt = NULL /\ th'[t].tgt = s
  BY Parts, EndlessStep
<1>2. /\ s \in slot /\ refs' = [refs EXCEPT ![s] = @ + 1]
      /\ UNCHANGED <<ctx, slot, inited, mq, Q, total, quit, fate, kills>>
  BY DEF Endless
<1>3. /\ OnlyOwn(t, "tgt") /\ th'[t].victim = th[t].victim /\ th'[t].ctx = th[t].ctx
      /\ "tgt" \in OwnNames
  BY <1>1 DEF Moves, SameBut, OnlyOwn, OwnNames
<1>4. RefInv' /\ refs' \in [Service -> Nat]
  BY <1>1, <1>2, <1>3, RefGrab
<1>5. /\ InDrop(th'[t].pc, th'[t].stack) => InDrop(th[t].pc, th[t].stack)
      /\ InFailed(th'[t].pc, th'[t].stack) => InFailed(th[t].pc, th[t].stack)
      /\ th'[t].kill = th[t].kill
  BY <1>1 DEF Keeps, Moves, SameBut
<1>6. fate' \in [Message -> Fates]
  BY <1>2, Parts, Types
<1> QED
  BY <1>1, <1>2, <1>3, <1>4, <1>5, <1>6, ReferencesOnly

(* After skynet_handle_retire the handle is not in the table, whoever took *)
(* it out.                                                                 *)
LEMMA InvRetire ==
    ASSUME ServerInv, NEW t \in Threads, Retire(t)
    PROVE  ServerInv'
<1> DEFINE s == th[t].kill
<1>1. /\ Moves(t, {"kill", "victim"}) /\ Keeps(th[t], th'[t])
      /\ s \in Service /\ th'[t].kill = NULL /\ th[t].victim = NULL
      /\ InFailed(th[t].pc, th[t].stack) => s = th[t].queue
      /\ s \in slot /\ refs[s] = 1 => th'[t].victim = s
      /\ s \in slot /\ refs[s] # 1 => th'[t].victim = NULL
      /\ s \notin slot => th'[t].victim = NULL
  BY Parts, RetireStep
<1>2. /\ UNCHANGED <<ctx, inited, mq, Q, total, quit, fate, kills>>
      /\ \/ s \in slot /\ slot' = slot \ {s} /\ refs' = [refs EXCEPT ![s] = @ - 1]
         \/ s \notin slot /\ slot' = slot /\ refs' = refs
  BY DEF Retire, Release
<1> HIDE DEF s
<1>3. RefInv' /\ refs' \in [Service -> Nat]
  <2>1. CASE s \in slot
    BY <1>1, <1>2, <2>1, RefRetire
  <2>2. CASE s \notin slot
    <3>1. OnlyOwn(t, "tgt") /\ th'[t].tgt = th[t].tgt
      BY <1>1 DEF Moves, SameBut, OnlyOwn, OwnNames
    <3> QED
      BY <1>1, <1>2, <2>2, <3>1, RefSame, Parts, Types
  <2> QED
    BY <2>1, <2>2
<1>4. /\ InDrop(th'[t].pc, th'[t].stack) => InDrop(th[t].pc, th[t].stack)
      /\ InFailed(th'[t].pc, th'[t].stack) => InFailed(th[t].pc, th[t].stack)
      /\ th'[t].ctx = th[t].ctx
  BY <1>1 DEF Keeps, Moves, SameBut
<1>5. fate' \in [Message -> Fates] /\ slot' \subseteq slot /\ s \notin slot'
  BY <1>2, Parts, Types
<1>6. InFailed(th'[t].pc, th'[t].stack) => th[t].queue \notin slot'
  BY <1>1, <1>4, <1>5
<1> QED
  BY <1>1, <1>2, <1>3, <1>4, <1>5, <1>6, ReferencesOnly

LEMMA InvDispatchGrab ==
    ASSUME ServerInv, NEW w \in Worker, DispatchGrab(w)
    PROVE  ServerInv'
<1> DEFINE s == th[w].q
<1>0. w \in Threads
  BY DEF Threads
<1>1. /\ Keeps(th[w], th'[w]) /\ s \in Service /\ th[w].ctx = NULL
      /\ s \in slot => Moves(w, {"ctx", "n"}) /\ th'[w].ctx = s
      /\ s \notin slot => Moves(w, {"dq", "q"})
  BY Parts, DispatchGrabStep
<1>2. /\ UNCHANGED <<ctx, slot, inited, mq, Q, total, quit, fate, kills>>
      /\ s \in slot => refs' = [refs EXCEPT ![s] = @ + 1]
      /\ s \notin slot => refs' = refs
  BY DEF DispatchGrab
<1>3. CASE s \in slot
  <2>1. /\ OnlyOwn(w, "ctx") /\ th'[w].victim = th[w].victim /\ th'[w].kill = th[w].kill
        /\ "ctx" \in OwnNames /\ Moves(w, {"ctx", "n"}) /\ th'[w].ctx = s
        /\ refs' = [refs EXCEPT ![s] = @ + 1]
    BY <1>1, <1>2, <1>3 DEF Moves, SameBut, OnlyOwn, OwnNames
  <2>2. RefInv' /\ refs' \in [Service -> Nat]
    <3> HIDE DEF s
    <3> QED
      BY <1>0, <1>1, <1>2, <1>3, <2>1, RefGrab
  <2>3. /\ InDrop(th'[w].pc, th'[w].stack) => InDrop(th[w].pc, th[w].stack)
        /\ InFailed(th'[w].pc, th'[w].stack) => InFailed(th[w].pc, th[w].stack)
    BY <1>1 DEF Keeps
  <2>4. fate' \in [Message -> Fates]
    BY <1>2, Parts, Types
  <2> QED
    BY <1>0, <1>2, <1>3, <2>1, <2>2, <2>3, <2>4, ReferencesOnly
<1>4. CASE s \notin slot
  <2>1. Moves(w, {"dq", "q"}) /\ refs' = refs
    BY <1>1, <1>2, <1>4
  <2>2. ThreadsOK' /\ th' \in [Threads -> Locals]
    BY <1>0, <2>1, Advance
  <2>3. ServerTypeOK'
    BY <1>2, <2>1, <2>2, Parts, Types, TypesNext
  <2>4. RefInv'
    BY <1>0, <1>2, <2>1, RefKeep
  <2>5. QueueInv'
    BY <1>4, QueueDispatchGrab
  <2> QED
    BY <2>2, <2>3, <2>4, <2>5, Whole
<1> QED
  BY <1>3, <1>4

LEMMA InvDelete ==
    ASSUME ServerInv, NEW t \in Threads, Delete(t)
    PROVE  ServerInv'
<1> DEFINE s == th[t].victim
<1>1. Moves(t, {"victim"}) /\ s \in Service
  BY Parts, DeleteStep
<1>2. ThreadsOK' /\ th' \in [Threads -> Locals]
  BY <1>1, Advance
<1>3. /\ UNCHANGED <<refs, slot, inited, quit, fate, kills>>
      /\ mq' = [mq EXCEPT ![s].release = TRUE]
      /\ Q' = IF mq[s].in_global THEN Q ELSE Append(Q, s)
      /\ ctx' = [ctx EXCEPT ![s] = "freed"] /\ total' = total - 1
  BY DEF Delete
<1> HIDE DEF s
<1>4. mq' \in [Service -> Queues]
  BY <1>1, <1>3, Parts, Types DEF Queues
<1>5. /\ Q' \in Seq(Service) /\ total' \in Int /\ ctx' \in [Service -> {"none", "alive", "freed"}]
  BY <1>1, <1>3, Parts, Types
<1>6. ServerTypeOK'
  BY <1>2, <1>3, <1>4, <1>5, Parts, Types, TypesNext
<1> QED
  BY <1>2, <1>6, RefDelete, QueueDelete, Whole

LEMMA InvSendPush ==
    ASSUME ServerInv, NEW t \in Threads, SendPush(t)
    PROVE  ServerInv'
<1> DEFINE s == th[t].tgt
           m == th[t].msg
<1>1. Moves(t, {}) /\ s \in Service /\ m \in Msg
  BY Parts, SendPushStep
<1>2. ThreadsOK' /\ th' \in [Threads -> Locals]
  BY <1>1, Advance
<1>3. /\ UNCHANGED <<ctx, refs, slot, inited, total, quit, kills>>
      /\ mq' = [mq EXCEPT ![s].msgs = Append(@, m), ![s].in_global = TRUE]
      /\ Q' = IF mq[s].in_global THEN Q ELSE Append(Q, s)
      /\ Becomes(m, "queued")
  BY DEF SendPush
<1> HIDE DEF s, m
<1>4. mq' \in [Service -> Queues]
  <2>1. mq \in [Service -> Queues] /\ mq[s] \in Queues
    BY <1>1, Parts, Types
  <2>2. Append(mq[s].msgs, m) \in Seq(Msg)
    BY <1>1, <2>1 DEF Queues
  <2>3. [mq[s] EXCEPT !.msgs = Append(mq[s].msgs, m), !.in_global = TRUE] \in Queues
    BY <2>1, <2>2 DEF Queues
  <2>4. mq' = [mq EXCEPT ![s] = [mq[s] EXCEPT !.msgs = Append(mq[s].msgs, m), !.in_global = TRUE]]
    BY <1>1, <1>3, <2>1 DEF Queues
  <2> QED
    BY <1>1, <2>1, <2>3, <2>4
<1>5. Q' \in Seq(Service)
  BY <1>1, <1>3, Parts, Types
<1>6. fate' \in [Message -> Fates]
  BY <1>1, <1>3, Parts, FateType DEF Fates
<1>7. ServerTypeOK'
  BY <1>2, <1>3, <1>4, <1>5, <1>6, Parts, Types, TypesNext
<1>8. RefInv'
  BY <1>1, <1>3, RefKeep
<1> QED
  BY <1>2, <1>7, <1>8, QueueSendPush, Whole

LEMMA InvLaunch ==
    ASSUME ServerInv, NEW t \in Threads, NEW s \in Service, Launch(t, s)
    PROVE  ServerInv'
<1>1. Moves(t, {"new", "queue"})
  BY Parts, LaunchStep
<1>2. ThreadsOK' /\ th' \in [Threads -> Locals]
  BY <1>1, Advance
<1>3. RefInv' /\ refs' \in [Service -> Nat]
  BY RefLaunch
<1>4. /\ UNCHANGED <<inited, Q, quit, fate, kills>>
      /\ ctx' = [ctx EXCEPT ![s] = "alive"] /\ slot' = slot \cup {s} /\ total' = total + 1
      /\ mq' = [mq EXCEPT ![s] = [msgs |-> << >>, in_global |-> TRUE, release |-> FALSE, freed |-> FALSE]]
  BY DEF Launch
<1>5. mq' \in [Service -> Queues]
  <2>1. << >> \in Seq(Msg)
    OBVIOUS
  <2>2. [msgs |-> << >>, in_global |-> TRUE, release |-> FALSE, freed |-> FALSE] \in Queues
    BY <2>1 DEF Queues
  <2> QED
    BY <1>4, <2>2, Parts, Types
<1>6. ctx' \in [Service -> {"none", "alive", "freed"}] /\ slot' \subseteq Service /\ total' \in Int
  BY <1>4, Parts, Types
<1>7. ServerTypeOK'
  BY <1>2, <1>3, <1>4, <1>5, <1>6, Parts, Types, TypesNext
<1> QED
  BY <1>2, <1>3, <1>7, QueueLaunch, Whole

LEMMA InvLaunched ==
    ASSUME ServerInv, NEW t \in Threads, Launched(t)
    PROVE  ServerInv'
<1> DEFINE s == th[t].queue
<1>1. Moves(t, {"queue"}) /\ s \in Service
  BY Parts, LaunchedStep
<1>2. ThreadsOK' /\ th' \in [Threads -> Locals]
  BY <1>1, Advance
<1>3. /\ UNCHANGED <<ctx, refs, slot, mq, total, quit, fate, kills>>
      /\ Q' = Append(Q, s) /\ inited' = IF ctx[s] = "alive" THEN inited \cup {s} ELSE inited
  BY DEF Launched
<1> HIDE DEF s
<1>4. Q' \in Seq(Service) /\ inited' \subseteq Service
  BY <1>1, <1>3, Parts, Types
<1>5. ServerTypeOK'
  BY <1>2, <1>3, <1>4, Parts, Types, TypesNext
<1>6. RefInv'
  BY <1>1, <1>3, RefKeep
<1> QED
  BY <1>2, <1>5, <1>6, QueueLaunched, Whole

LEMMA InvInitFailed ==
    ASSUME ServerInv, NEW t \in Threads, InitFailed(t)
    PROVE  ServerInv'
<1>1. Moves(t, {"dq", "queue"})
  BY Parts, InitFailedStep
<1>2. ThreadsOK' /\ th' \in [Threads -> Locals]
  BY <1>1, Advance
<1>3. UNCHANGED <<ctx, refs, slot, inited, mq, Q, total, quit, fate, kills>>
  BY DEF InitFailed, kernel
<1>4. ServerTypeOK'
  BY <1>2, <1>3, Parts, Types, TypesNext
<1>5. RefInv'
  BY <1>1, <1>3, RefKeep
<1> QED
  BY <1>2, <1>4, <1>5, QueueInitFailed, Whole

LEMMA InvMqRelease ==
    ASSUME ServerInv, NEW t \in Threads, MqRelease(t)
    PROVE  ServerInv'
<1> DEFINE s == th[t].dq
<1>1. Moves(t, {"dq"}) /\ s \in Service
  BY Parts, MqReleaseStep
<1>2. ThreadsOK' /\ th' \in [Threads -> Locals]
  BY <1>1, Advance
<1>3. /\ UNCHANGED <<ctx, refs, slot, inited, mq, total, quit, fate, kills>>
      /\ Q' = Q \/ Q' = Append(Q, s)
  BY DEF MqRelease
<1> HIDE DEF s
<1>4. Q' \in Seq(Service)
  <2>1. Q \in Seq(Service)
    BY Parts, Types
  <2>2. Append(Q, s) \in Seq(Service)
    BY <1>1, <2>1
  <2> QED
    BY <1>3, <2>1, <2>2
<1>5. ServerTypeOK'
  BY <1>2, <1>3, <1>4, Parts, Types, TypesNext
<1>6. RefInv'
  BY <1>1, <1>3, RefKeep
<1> QED
  BY <1>2, <1>5, <1>6, QueueMqRelease, Whole

LEMMA InvDrop ==
    ASSUME ServerInv, NEW t \in Threads, Drop(t)
    PROVE  ServerInv'
<1> DEFINE s == th[t].dq
           ms == mq[s].msgs
<1>1. Moves(t, {"dq", "dst", "msg"}) /\ s \in Service
  BY Parts, DropStep
<1>2. ThreadsOK' /\ th' \in [Threads -> Locals]
  BY <1>1, Advance
<1>3. /\ UNCHANGED <<ctx, refs, slot, inited, Q, total, quit, kills>>
      /\ \/ mq' = [mq EXCEPT ![s].freed = TRUE, ![s].in_global = FALSE] /\ fate' = fate
         \/ /\ ms # << >> /\ mq' = [mq EXCEPT ![s].msgs = Tail(ms)]
            /\ Becomes(Head(ms), "dropped")
  BY DEF Drop
<1>4. ms \in Seq(Msg) /\ (ms # << >> => Head(ms) \in Msg /\ Tail(ms) \in Seq(Msg))
  <2>1. ms \in Seq(Msg)
    BY <1>1, Parts, Types DEF Queues
  <2> HIDE DEF ms
  <2> QED
    BY <2>1
<1> HIDE DEF s, ms
<1>5. mq' \in [Service -> Queues]
  <2>1. mq \in [Service -> Queues] /\ mq[s] \in Queues
    BY <1>1, Parts, Types
  <2>2. CASE mq' = [mq EXCEPT ![s].freed = TRUE, ![s].in_global = FALSE]
    <3>1. [mq[s] EXCEPT !.freed = TRUE, !.in_global = FALSE] \in Queues
      BY <2>1 DEF Queues
    <3>2. mq' = [mq EXCEPT ![s] = [mq[s] EXCEPT !.freed = TRUE, !.in_global = FALSE]]
      BY <1>1, <2>1, <2>2 DEF Queues
    <3> QED
      BY <1>1, <2>1, <3>1, <3>2
  <2>3. CASE ms # << >> /\ mq' = [mq EXCEPT ![s].msgs = Tail(ms)]
    BY <1>1, <1>4, <2>1, <2>3 DEF Queues
  <2> QED
    BY <1>3, <2>2, <2>3
<1>6. fate' \in [Message -> Fates]
  BY <1>3, <1>4, Parts, Types, FateType DEF Fates
<1>7. ServerTypeOK'
  BY <1>2, <1>3, <1>5, <1>6, Parts, Types, TypesNext
<1>8. RefInv'
  BY <1>1, <1>3, RefKeep
<1> QED
  BY <1>2, <1>7, <1>8, QueueDrop, Whole

LEMMA InvWorkerPop ==
    ASSUME ServerInv, NEW w \in Worker, WorkerPop(w) \/ DispatchNext(w) \/ DispatchPushBack(w)
    PROVE  ServerInv'
<1>0. w \in Threads
  BY DEF Threads
<1>1. PICK F \in {{"q"}, {"nq"}, {"q", "nq"}} : Moves(w, F)
  BY Parts, WorkerPopStep, DispatchNextStep, DispatchPushBackStep
<1>2. ThreadsOK' /\ th' \in [Threads -> Locals]
  BY <1>0, <1>1, Advance
<1>3. /\ UNCHANGED <<ctx, refs, slot, inited, mq, total, quit, fate, kills>>
      /\ Q' = Q \/ Q' = Append(Q, th[w].q) \/ (Q # << >> /\ Q' = Tail(Q))
      /\ Q' = Append(Q, th[w].q) => DispatchPushBack(w) \/ Q' = Q \/ (Q # << >> /\ Q' = Tail(Q))
  BY DEF WorkerPop, DispatchNext, DispatchPushBack
<1>4. Q' \in Seq(Service)
  <2>1. DispatchPushBack(w) => th[w].q \in Service
    BY Parts, DispatchPushBackStep
  <2>2. Q \in Seq(Service)
    BY Parts, Types
  <2>3. /\ th[w].q \in Service => Append(Q, th[w].q) \in Seq(Service)
        /\ Q # << >> => Tail(Q) \in Seq(Service)
    BY <2>2
  <2> QED
    BY <1>3, <2>1, <2>2, <2>3
<1>5. ServerTypeOK'
  BY <1>2, <1>3, <1>4, Parts, Types, TypesNext
<1>6. RefInv'
  <2>1. "ctx" \notin F /\ "new" \notin F /\ "tgt" \notin F /\ "victim" \notin F
    BY <1>1
  <2> QED
    BY <1>0, <1>1, <1>3, <2>1, RefKeep
<1> QED
  BY <1>2, <1>5, <1>6, QueueWorkerPop, QueueDispatchNext, QueueDispatchPushBack, Whole

LEMMA InvDispatchPop ==
    ASSUME ServerInv, NEW w \in Worker, DispatchPop(w)
    PROVE  ServerInv'
<1> DEFINE s == th[w].q
           ms == mq[s].msgs
<1>0. w \in Threads
  BY DEF Threads
<1>1. Moves(w, {"q", "n"}) /\ s \in Service
  BY Parts, DispatchPopStep
<1>2. ThreadsOK' /\ th' \in [Threads -> Locals]
  BY <1>0, <1>1, Advance
<1>3. /\ UNCHANGED <<ctx, refs, slot, inited, Q, total, quit, kills>>
      /\ \/ mq' = [mq EXCEPT ![s].in_global = FALSE] /\ fate' = fate
         \/ /\ ms # << >> /\ mq' = [mq EXCEPT ![s].msgs = Tail(ms)]
            /\ Becomes(Head(ms), "dispatched")
  BY DEF DispatchPop, Dispatched
<1>4. ms \in Seq(Msg) /\ (ms # << >> => Head(ms) \in Msg /\ Tail(ms) \in Seq(Msg))
  <2>1. ms \in Seq(Msg)
    BY <1>1, Parts, Types DEF Queues
  <2> HIDE DEF ms
  <2> QED
    BY <2>1
<1> HIDE DEF s, ms
<1>5. mq' \in [Service -> Queues]
  <2>1. mq \in [Service -> Queues] /\ mq[s] \in Queues
    BY <1>1, Parts, Types
  <2>2. CASE mq' = [mq EXCEPT ![s].in_global = FALSE]
    BY <1>1, <2>1, <2>2 DEF Queues
  <2>3. CASE ms # << >> /\ mq' = [mq EXCEPT ![s].msgs = Tail(ms)]
    BY <1>1, <1>4, <2>1, <2>3 DEF Queues
  <2> QED
    BY <1>3, <2>2, <2>3
<1>6. fate' \in [Message -> Fates]
  BY <1>3, <1>4, Parts, Types, FateType DEF Fates
<1>7. ServerTypeOK'
  BY <1>2, <1>3, <1>5, <1>6, Parts, Types, TypesNext
<1>8. RefInv'
  BY <1>0, <1>1, <1>3, RefKeep
<1> QED
  BY <1>2, <1>7, <1>8, QueueDispatchPop, Whole

(* The shutdown wakes every sleeping worker; nobody else moves. *)
LEMMA InvShutdown ==
    ASSUME ServerInv, Shutdown
    PROVE  ServerInv'
<1>1. UNCHANGED <<ctx, refs, slot, inited, mq, Q, total, fate, kills>> /\ quit' = TRUE
  BY DEF Shutdown, kernel
<1>2. ASSUME NEW u \in Threads
      PROVE  /\ th'[u] \in Locals /\ SameBut(th[u], th'[u], {}) /\ ThreadOK(u, th'[u])
             /\ th'[u].stack = th[u].stack
             /\ th'[u].pc = th[u].pc \/ (th'[u].pc = "idle" /\ th[u].stack = << >>)
  <2> DEFINE r == th[u]
             b == [r EXCEPT !.pc = "idle"]
  <2>1. r \in Locals /\ ThreadOK(u, r)
    BY <1>2, Parts, Here
  <2>2. IF r.pc = "asleep" THEN th'[u] = b ELSE th'[u] = r
    BY <1>2 DEF Shutdown, At
  <2> HIDE DEF r
  <2>3. b \in Locals /\ b.pc = "idle" /\ b.stack = r.stack /\ SameBut(r, b, {})
    BY <2>1, LabelTypes DEF Locals, SameBut
  <2> HIDE DEF b
  <2>4. CASE r.pc = "asleep"
    <3>1. r.stack = << >>
      BY <2>1, <2>4 DEF ThreadOK, Shape, Bottom
    <3>2. ThreadOK(u, b)
      BY <2>1, <2>3, <2>4, <3>1, Differ DEF StacksDiffer, ThreadOK, Shape, Bottom, CalleeSet, LoopSet,
         SameBut, InCb, InRepop, InInit, InLaunched, InFailed, InRetire, InDrop
    <3> QED
      BY <2>2, <2>3, <2>4, <3>1, <3>2 DEF r
  <2>5. CASE r.pc # "asleep"
    BY <2>1, <2>2, <2>5 DEF r, SameBut
  <2> QED
    BY <2>4, <2>5
<1>3. th' \in [Threads -> Locals] /\ ThreadsOK'
  <2>1. th' = [t \in Threads |-> IF At(t, "asleep") THEN [th[t] EXCEPT !.pc = "idle"] ELSE th[t]]
    BY DEF Shutdown
  <2>2. th' = [t \in Threads |-> th'[t]]
    BY <2>1
  <2> QED
    BY <1>2, <2>2 DEF ThreadsOK
<1>4. ServerTypeOK'
  BY <1>1, <1>3, Parts, Types, TypesNext
<1>5. RefInv'
  <2>1. \A s \in Service : Holders(s)' = Holders(s)
    <3> SUFFICES ASSUME NEW s \in Service PROVE Holders(s)' = Holders(s)
      OBVIOUS
    <3>1. \A h \in Threads \X OwnNames : th'[h[1]][h[2]] = th[h[1]][h[2]]
      BY <1>2 DEF SameBut, OwnNames
    <3> QED
      BY <3>1 DEF Holders, OwnNames
  <2>2. \A u \in Threads : th'[u].victim = th[u].victim
    BY <1>2 DEF SameBut
  <2> QED
    BY <1>1, <2>1, <2>2, Parts DEF RefInv
<1>6. hand' = hand
  <2>1. \A h \in Hands : th'[h[1]][h[2]] = th[h[1]][h[2]]
    BY <1>2 DEF SameBut, Hands, HandNames
  <2> QED
    BY <2>1 DEF hand
<1>7. QueueInv'
  <2>1. Apart(Q, hand)' /\ QueueFlags'
    BY <1>1, <1>6, Parts DEF QueueInv, QueueFlags
  <2>2. DropsRetired'
    <3>1. \A u \in Threads : /\ th'[u].dq = th[u].dq /\ th'[u].queue = th[u].queue /\ th'[u].kill = th[u].kill
                             /\ InDrop(th'[u].pc, th'[u].stack) => InDrop(th[u].pc, th[u].stack)
                             /\ InFailed(th'[u].pc, th'[u].stack) => InFailed(th[u].pc, th[u].stack)
      BY <1>2, Differ DEF SameBut, InDrop, InFailed, StacksDiffer
    <3> QED
      BY <1>1, <3>1, Parts DEF QueueInv, DropsRetired
  <2>3. FoundInited'
    <3>1. \A u \in Threads : th'[u].q = th[u].q /\ th'[u].nq = th[u].nq /\ th'[u].ctx = th[u].ctx
      BY <1>2 DEF SameBut
    <3> QED
      BY <1>1, <3>1, Parts DEF QueueInv, FoundInited
  <2> QED
    BY <2>1, <2>2, <2>3 DEF QueueInv
<1> QED
  BY <1>3, <1>4, <1>5, <1>7, Whole

(* ------------------------------------------------------------------------ *)
(* The start, and the theorems.                                             *)

(* skynet_start: each service launched before the threads has its queue in *)
(* the global queue once.                                                  *)
LEMMA InitInv == ServerInit => ServerInv
<1> SUFFICES ASSUME ServerInit PROVE ServerInv
  OBVIOUS
<1>1. /\ Booted \subseteq Service /\ IsFiniteSet(Booted) /\ Cardinality(Booted) \in Nat
  BY ServerAssumption, FS_Subset, FS_CardinalityType
<1>2. ASSUME NEW t \in Threads
      PROVE  /\ th[t] \in Locals /\ ThreadOK(t, th[t])
             /\ th[t].ctx = NULL /\ th[t].new = NULL /\ th[t].tgt = NULL /\ th[t].victim = NULL
             /\ th[t].q = NULL /\ th[t].nq = NULL /\ th[t].queue = NULL /\ th[t].dq = NULL
             /\ ~InDrop(th[t].pc, th[t].stack) /\ ~InFailed(th[t].pc, th[t].stack)
  <2> DEFINE r == th[t]
             b == [Idle EXCEPT !.pc = "cb"]
  <2>1. /\ t \in Worker => r = Idle
        /\ t \notin Worker => r = b
    BY <1>2 DEF ServerInit
  <2>2. << >> \in Seq(Labels)
    OBVIOUS
  <2>3. /\ Idle \in Locals /\ Idle.pc = "idle" /\ Idle.stack = << >> /\ Idle.n = 0 /\ Idle.ctx = NULL
        /\ Idle.q = NULL /\ Idle.nq = NULL /\ Idle.new = NULL /\ Idle.queue = NULL /\ Idle.tgt = NULL
        /\ Idle.dst = NULL /\ Idle.msg = NULL /\ Idle.kill = NULL /\ Idle.dq = NULL /\ Idle.victim = NULL
    BY <2>2, LabelTypes DEF Idle, Locals
  <2>4. b \in Locals /\ b.pc = "cb" /\ b.stack = << >> /\ SameBut(Idle, b, {})
    BY <2>3, LabelTypes DEF Locals, SameBut
  <2> HIDE DEF r, b
  <2>5. CASE t \in Worker
    <3>1. r.pc = "idle" /\ r.stack = << >> /\ r = Idle
      BY <2>1, <2>3, <2>5
    <3> QED
      BY <2>3, <2>5, <3>1, Differ DEF StacksDiffer, ThreadOK, Shape, Bottom, CalleeSet, LoopSet,
         InCb, InRepop, InInit, InLaunched, InFailed, InRetire, InDrop, r
  <2>6. CASE t \notin Worker
    <3>1. r = b
      BY <2>1, <2>6
    <3> QED
      BY <2>3, <2>4, <2>6, <3>1, Differ DEF StacksDiffer, ThreadOK, Shape, Bottom, CalleeSet, LoopSet,
         SameBut, InCb, InRepop, InInit, InLaunched, InFailed, InRetire, InDrop, r
  <2> QED
    BY <2>5, <2>6
<1>3. th \in [Threads -> Locals] /\ ThreadsOK
  <2>1. th = [t \in Threads |-> th[t]]
    BY DEF ServerInit
  <2> QED
    BY <1>2, <2>1 DEF ThreadsOK
<1>4. Q \in Seq(Service) /\ Len(Q) = Cardinality(Booted)
  <2>1. Q \in [1..Cardinality(Booted) -> Service]
    BY <1>1 DEF ServerInit
  <2> QED
    BY <1>1, <2>1
<1>5. /\ \A i \in 1..Len(Q) : Q[i] \in Booted
      /\ \A s \in Booted : \E i \in 1..Len(Q) : Q[i] = s
      /\ \A i, j \in 1..Len(Q) : Q[i] = Q[j] => i = j
  <2> DEFINE n == Cardinality(Booted)
  <2>1. Q \in [1..n -> Booted] /\ \A s \in Booted : \E i \in 1..n : Q[i] = s
    BY DEF ServerInit
  <2>2. IsFiniteSet(1..n) /\ Cardinality(1..n) = n
    BY <1>1, FS_Interval
  <2>3. Q \in Surjection(1..n, Booted)
    BY <2>1 DEF Surjection
  <2>4. Q \in Injection(1..n, Booted)
    BY <2>2, <2>3, FS_Surjection
  <2>5. \A i, j \in 1..n : Q[i] = Q[j] => i = j
    BY <2>4 DEF Injection, IsInjective
  <2> QED
    BY <1>4, <2>1, <2>5
<1>6. /\ ctx = [s \in Service |-> IF s \in Booted THEN "alive" ELSE "none"]
      /\ refs = [s \in Service |-> IF s \in Booted THEN 1 ELSE 0]
      /\ slot = Booted /\ inited = Booted /\ total = Cardinality(Booted) /\ quit = FALSE
      /\ fate = [m \in Message |-> "unsent"] /\ kills = 0
      /\ \A s \in Service : /\ mq[s].msgs = << >> /\ (mq[s].in_global <=> s \in Booted)
                            /\ ~mq[s].release /\ (mq[s].freed <=> s \notin Booted)
  BY DEF ServerInit
<1>7. mq \in [Service -> Queues]
  <2>1. << >> \in Seq(Msg)
    OBVIOUS
  <2>2. \A s \in Service : [msgs |-> << >>, in_global |-> s \in Booted, release |-> FALSE,
                            freed |-> s \notin Booted] \in Queues
    BY <2>1 DEF Queues
  <2> QED
    BY <2>2 DEF ServerInit
<1>8. ServerTypeOK
  <2>1. /\ ctx \in [Service -> {"none", "alive", "freed"}] /\ refs \in [Service -> Nat]
        /\ fate \in [Message -> Fates]
    BY <1>6 DEF Fates
  <2>2. slot \subseteq Service /\ inited \subseteq Service
    BY <1>1, <1>6
  <2>3. kills \in Nat /\ total \in Int
    <3>1. kills = 0 /\ total = Cardinality(Booted)
      BY DEF ServerInit
    <3> QED
      BY <1>1, <3>1
  <2>4. quit \in BOOLEAN
    BY DEF ServerInit
  <2> QED
    BY <1>3, <1>4, <1>7, <2>1, <2>2, <2>3, <2>4 DEF ServerTypeOK, Queues, Fates
<1>9. RefInv
  <2>1. \A s \in Service : Holders(s) = {}
    <3>1. \A s \in Service : s # NULL
      BY LabelTypes
    <3> QED
      BY <1>2, <3>1 DEF Holders
  <2>2. \A s \in Service : Cardinality(Holders(s)) = 0
    BY <2>1, FS_EmptySet
  <2> QED
    BY <1>2, <1>6, <2>2 DEF RefInv
<1>10. \A a \in Hands : hand[a] = NULL
  BY <1>2 DEF hand, Hands, HandNames
<1>11. DOMAIN hand = Hands /\ \A i \in 1..Len(Q) : Q[i] # NULL
  BY <1>1, <1>5, LabelTypes DEF hand
<1>12. Apart(Q, hand)
  BY <1>5, <1>10, <1>11 DEF Apart
<1>13. \A s \in Service : Found(s, Q, hand) <=> s \in Booted
  BY <1>5, <1>10, <1>11, LabelTypes DEF Found
<1>14. QueueFlags
  BY <1>6, <1>13 DEF QueueFlags
<1>15. DropsRetired
  BY <1>2 DEF DropsRetired
<1>16. FoundInited
  BY <1>1, <1>2, <1>5, <1>6 DEF FoundInited
<1> QED
  BY <1>3, <1>8, <1>9, <1>12, <1>14, <1>15, <1>16 DEF ServerInv, QueueInv

LEMMA NextInv == ServerInv /\ [ServerNext]_serverVars => ServerInv'
<1> SUFFICES ASSUME ServerInv, [ServerNext]_serverVars PROVE ServerInv'
  OBVIOUS
<1>1. ASSUME NEW t \in Threads, Steps(t) PROVE ServerInv'
  BY <1>1, InvDelete, InvSendGrab, InvSendPush, InvSendRelease, InvRetire, InvRetireAll, InvLaunched,
     InvInitFailed, InvMqRelease, InvDrop DEF Steps
<1>2. ASSUME NEW w \in Worker, WorkerSteps(w) PROVE ServerInv'
  BY <1>2, InvWorkerPop, InvWorkerJump, InvDispatchGrab, InvDispatchPop, InvDispatchRelease
     DEF WorkerSteps
<1>3. ASSUME NEW w \in Worker, Wakeup(w) \/ InitOk(w) \/ InitFail(w) \/ Abort(w) PROVE ServerInv'
  <2>1. w \in Threads
    BY <1>3 DEF Threads
  <2> QED
    BY <1>3, <2>1, InvWorkerJump, InvInitOk, InvInitFail, InvAbort
<1>4. ASSUME NEW t \in Threads, NEW d \in Service, NEW m \in Message, Send(t, d, m) PROVE ServerInv'
  BY <1>4, InvSend
<1>5. ASSUME NEW t \in Threads, NEW s \in Service, Kill(t, s) \/ Launch(t, s) \/ Endless(t, s)
      PROVE  ServerInv'
  BY <1>5, InvKill, InvLaunch, InvEndless
<1>6. CASE Shutdown
  BY <1>6, InvShutdown
<1>7. CASE Finished \/ UNCHANGED serverVars
  <2>1. UNCHANGED <<ctx, refs, slot, inited, mq, Q, total, quit, th, fate, kills>>
    BY <1>7 DEF Finished, serverVars
  <2>2. hand' = hand
    BY <2>1 DEF hand
  <2>3. \A s \in Service : Holders(s)' = Holders(s)
    BY <2>1 DEF Holders
  <2>4. ServerTypeOK' /\ ThreadsOK'
    BY <2>1, Parts DEF ServerTypeOK, ThreadsOK
  <2>5. RefInv'
    BY <2>1, <2>3, Parts DEF RefInv
  <2>6. QueueInv'
    BY <2>1, <2>2, Parts DEF QueueInv, QueueFlags, DropsRetired, FoundInited
  <2> QED
    BY <2>4, <2>5, <2>6, Whole
<1> QED
  BY <1>1, <1>2, <1>3, <1>4, <1>5, <1>6, <1>7 DEF ServerNext

LEMMA Invariance == ServerSpec => []ServerInv
<1>1. ServerInit => ServerInv
  BY InitInv
<1>2. ServerInv /\ [ServerNext]_serverVars => ServerInv'
  BY NextInv
<1> QED
  BY <1>1, <1>2, PTL DEF ServerSpec

(* Every variable of the scheduler keeps its type: no count of references  *)
(* goes below zero, no batch of message_dispatch is negative, and a thread *)
(* returns to a label that called.                                         *)
THEOREM ServerTypeCorrect == ServerSpec => []ServerTypeOK
<1>1. ServerInv => ServerTypeOK
  BY DEF ServerInv
<1> QED
  BY <1>1, Invariance, PTL

(* skynet_context_grab and _release: however the threads interleave, the   *)
(* count of a context is the number of references they own and the one of  *)
(* the handle table, and a context whose count is zero is being deleted by *)
(* a thread.                                                               *)
THEOREM ReferencesCounted == ServerSpec => []RefCount
<1>1. ServerInv => RefCount
  <2> SUFFICES ASSUME ServerInv PROVE RefCount
    OBVIOUS
  <2>1. \A t \in Threads, s \in Service : th[t].victim = s => At(t, "delete")
    BY Parts, LabelTypes DEF ThreadsOK, ThreadOK, CalleeSet, At
  <2> QED
    BY <2>1, Parts DEF RefInv, RefCount
<1> QED
  BY <1>1, Invariance, PTL

(* skynet_mq_push, _pop, _mark_release and _release with                   *)
(* message_dispatch: the queue of a service is in one place, with one      *)
(* worker at most; while it has messages or its context is gone it is      *)
(* somewhere; and no callback runs before init is set.                     *)
THEOREM QueuesSafe == ServerSpec => []QueueSafe
<1>1. ServerInv => QueueSafe
  <2> SUFFICES ASSUME ServerInv PROVE QueueSafe
    OBVIOUS
  <2>0. DOMAIN hand = Hands /\ \A a \in Hands : hand[a] = th[a[1]][a[2]]
    BY DEF hand
  <2>1. ASSUME NEW s \in Service, NEW p \in Places(s)
        PROVE  \/ \E i \in 1..Len(Q) : p = <<"Q", i>> /\ Q[i] = s
               \/ p \in Hands /\ hand[p] = s
    BY <2>0, <2>1 DEF Places, Hands, HandNames
  <2>2. ASSUME NEW s \in Service PROVE Found(s, Q, hand) <=> Places(s) # {}
    <3>1. ASSUME Found(s, Q, hand) PROVE Places(s) # {}
      <4>1. CASE \E i \in 1..Len(Q) : Q[i] = s
        BY <4>1 DEF Places
      <4>2. CASE \E a \in Hands : hand[a] = s
        BY <2>0, <4>2 DEF Places, Hands, HandNames
      <4> QED
        BY <2>0, <3>1, <4>1, <4>2 DEF Found
    <3>2. ASSUME Places(s) # {} PROVE Found(s, Q, hand)
      <4>1. PICK p \in Places(s) : TRUE
        BY <3>2
      <4> QED
        BY <2>0, <2>1, <4>1 DEF Found
    <3> QED
      BY <3>1, <3>2
  <2>3. OneWorkerPerQueue
    <3> SUFFICES ASSUME NEW s \in Service, NEW p1 \in Places(s), NEW p2 \in Places(s)
                 PROVE  p1 = p2
      BY DEF OneWorkerPerQueue
    <3>1. Apart(Q, hand) /\ s # NULL
      BY Parts, LabelTypes DEF QueueInv
    <3>2. /\ (\E i \in 1..Len(Q) : p1 = <<"Q", i>> /\ Q[i] = s) \/ (p1 \in Hands /\ hand[p1] = s)
          /\ (\E i \in 1..Len(Q) : p2 = <<"Q", i>> /\ Q[i] = s) \/ (p2 \in Hands /\ hand[p2] = s)
      BY <2>1
    <3> QED
      BY <2>0, <3>1, <3>2 DEF Apart
  <2>4. NoQueueLost
    <3> SUFFICES ASSUME NEW s \in Service
                 PROVE  /\ ~mq[s].freed /\ (mq[s].msgs # << >> \/ mq[s].release) => Places(s) # {}
                        /\ mq[s].freed => Places(s) = {} /\ mq[s].msgs = << >> /\ ctx[s] # "alive"
      BY DEF NoQueueLost
    <3> QED
      BY <2>2, Parts DEF QueueInv, QueueFlags
  <2>5. DispatchedAfterInit
    <3> SUFFICES ASSUME NEW w \in Worker, th[w].pc = "cb" PROVE th[w].ctx \in inited
      BY DEF DispatchedAfterInit, At
    <3>1. w \in Threads
      BY DEF Threads
    <3>2. th[w].ctx # NULL
      BY <3>1, Parts DEF ThreadsOK, ThreadOK, LoopSet, InCb
    <3> QED
      BY <3>1, <3>2, OfThread
  <2> QED
    BY <2>3, <2>4, <2>5 DEF QueueSafe
<1> QED
  BY <1>1, Invariance, PTL

-----------------------------------------------------------------------------
(* The Lua runtime of a service (SkynetLua).                               *)

-----------------------------------------------------------------------------
(* The inductive invariant.                                                *)

Phase == {"new", "idle", "run", "wake", "err", "fork", "gone"}
Waiting == {"call", "sleep", "wait", "timeout"}
Status == Waiting \cup {"pool", "run", "forked", "dead"}

RunTypes ==
    /\ phase \in Phase /\ cur \in Co \cup {Nil} /\ (phase = "run" <=> cur # Nil) /\ frames \in Nat
    /\ status \in [Co -> Status] /\ waitsFor \in [Co -> Session \cup {0}]
    /\ coroutine_pool \in Seq(Co)
WaitTypes ==
    /\ session_id_coroutine \in [Session -> Co \cup {Nil, "BREAK"}]
    /\ sleep_session \in [Co -> Session \cup {0}] /\ watching_session \subseteq Session
    /\ session \in Session \cup {0} /\ timers \subseteq Session
    /\ peer \in [Session -> {"none", "called", "responded", "failed", "done"}]
ServeTypes ==
    /\ handling \in [Co -> Request \cup {0}] /\ session_response \subseteq Co
    /\ unresponse \subseteq Request /\ watching_service \in Int
    /\ requested \in [Request -> {"none", "call", "send"}]
    /\ responses \in [Request -> Nat] /\ errors \subseteq Request
QueueTypes ==
    /\ wakeup_queue \in Seq(Co) /\ error_queue \in Seq(Session) /\ fork_queue \subseteq Co
    /\ dead_service \in BOOLEAN /\ disturbed \in BOOLEAN
LuaTypes == RunTypes /\ WaitTypes /\ ServeTypes /\ QueueTypes

(* Where a coroutine is, and what it then is doing. *)
LuaPlaces ==
    /\ \A i \in DOMAIN coroutine_pool : status[coroutine_pool[i]] = "pool"
    /\ \A i, j \in DOMAIN coroutine_pool : coroutine_pool[i] = coroutine_pool[j] => i = j
    /\ \A c \in fork_queue : status[c] = "forked"
    /\ cur # Nil => status[cur] = "run"

(* A session leads to the coroutine that waits for it, and to no other. *)
Waits ==
    /\ \A c \in Co : IF status[c] \in Waiting
                       THEN waitsFor[c] \in 1..session /\ session_id_coroutine[waitsFor[c]] = c
                       ELSE waitsFor[c] = 0
    /\ \A c \in Co : sleep_session[c] = IF status[c] \in {"sleep", "wait"} THEN waitsFor[c] ELSE 0
    /\ \A c \in Co : status[c] = "call" <=> waitsFor[c] \in watching_session
    /\ \A c \in Co : status[c] \in {"sleep", "timeout"} => waitsFor[c] \in timers
    /\ \A s \in Session : session_id_coroutine[s] \in Co => waitsFor[session_id_coroutine[s]] = s
    /\ watching_session \subseteq 1..session

(* Who was woken still sleeps and is woken once, and the queues are empty  *)
(* wherever dispatch_message could leave them, unless the frames of        *)
(* suspend were unwound by an error or one was woken twice.                *)
Woken ==
    ~disturbed =>
        /\ \A i \in DOMAIN wakeup_queue : sleep_session[wakeup_queue[i]] # 0
        /\ \A i, j \in DOMAIN wakeup_queue : wakeup_queue[i] = wakeup_queue[j] => i = j
        /\ phase \in {"new", "idle", "fork"} =>
              wakeup_queue = << >> /\ error_queue = << >> /\ frames = 0
        /\ phase = "err" => wakeup_queue = << >>

(* A request has one coroutine, and either the coroutine or the closure    *)
(* that skynet.response returned may still answer it.                      *)
Answers ==
    /\ \A c, d \in Co : handling[c] = handling[d] /\ handling[c] # 0 => c = d
    /\ \A c \in Co : handling[c] # 0 => requested[handling[c]] # "none"
    /\ \A c \in Co : status[c] = "pool" => handling[c] = 0
    /\ \A c \in Co : handling[c] \in unresponse => c \in session_response
    /\ \A r \in Request :
          /\ responses[r] <= 1
          /\ responses[r] = 1 =>
                r \notin unresponse /\ \A c \in Co : handling[c] = r => c \in session_response
          /\ requested[r] = "none" => responses[r] = 0 /\ r \notin unresponse
    /\ phase = "gone" =>
          \A c \in Co : handling[c] # 0 /\ requested[handling[c]] = "call" => handling[c] \in errors

(* The peer is watched for what is handled and for what is deferred. *)
Handlers == {c \in Co : handling[c] # 0}
Watched == phase # "gone" => watching_service >= Cardinality(Handlers) + Cardinality(unresponse)

LuaInv == LuaTypes /\ LuaPlaces /\ Waits /\ Woken /\ Answers /\ Watched

-----------------------------------------------------------------------------
(* Sequences and sets.                                                     *)

(* co_create takes the last of the pool. *)
LEMMA Created ==
    ASSUME coroutine_pool \in Seq(Co), NEW c, CoCreate(c)
    PROVE  /\ c \in Co /\ coroutine_pool' \in Seq(Co) /\ Len(coroutine_pool) \in DOMAIN coroutine_pool
           /\ c = coroutine_pool[Len(coroutine_pool)]
           /\ \A i \in DOMAIN coroutine_pool' :
                 i \in DOMAIN coroutine_pool /\ i < Len(coroutine_pool) /\ coroutine_pool'[i] = coroutine_pool[i]
BY DEF CoCreate, Last, Front

(* What a queue holds after its first was taken. *)
LEMMA TailFacts ==
    ASSUME NEW S, NEW q \in Seq(S), q # << >>
    PROVE  /\ Head(q) \in S /\ Head(q) = q[1] /\ 1 \in DOMAIN q /\ Tail(q) \in Seq(S)
           /\ \A i \in DOMAIN Tail(q) : i \in Nat /\ i # 0 /\ i + 1 \in DOMAIN q /\ Tail(q)[i] = q[i + 1]
OBVIOUS

(* What a queue holds after one was put at its end. *)
LEMMA AppendFacts ==
    ASSUME NEW S, NEW q \in Seq(S), NEW x \in S
    PROVE  /\ Append(q, x) \in Seq(S)
           /\ \A i \in DOMAIN Append(q, x) :
                 IF i = Len(q) + 1 THEN Append(q, x)[i] = x
                 ELSE i \in DOMAIN q /\ Append(q, x)[i] = q[i]
OBVIOUS

(* And after several were. *)
LEMMA ConcatFacts ==
    ASSUME NEW S, NEW q \in Seq(S), NEW r \in Seq(S)
    PROVE  /\ q \o r \in Seq(S)
           /\ \A i \in DOMAIN (q \o r) :
                 \/ i \in DOMAIN q /\ (q \o r)[i] = q[i]
                 \/ i - Len(q) \in DOMAIN r /\ (q \o r)[i] = r[i - Len(q)]
OBVIOUS

(* The orders in which a finite set can be walked. *)
LEMMA OrderFacts ==
    ASSUME NEW S, IsFiniteSet(S)
    PROVE  /\ SetToSeqs(S) # {}
           /\ \A q \in SetToSeqs(S) :
                 q \in Seq(S) /\ \A i, j \in DOMAIN q : q[i] = q[j] => i = j
<1>1. Cardinality(S) \in Nat /\ ExistsBijection(1..Cardinality(S), S)
  BY FS_CardinalityType
<1>2. PICK f \in Bijection(1..Cardinality(S), S) : TRUE
  BY <1>1 DEF ExistsBijection
<1>3. f \in [1..Cardinality(S) -> S] /\ \A i, j \in 1..Cardinality(S) : f[i] = f[j] => i = j
  BY <1>2 DEF Bijection, Injection, IsInjective
<1>4. f \in SetToSeqs(S)
  BY <1>3 DEF SetToSeqs
<1>5. ASSUME NEW q \in SetToSeqs(S)
      PROVE  q \in Seq(S) /\ \A i, j \in DOMAIN q : q[i] = q[j] => i = j
  BY <1>1, <1>5 DEF SetToSeqs
<1> QED BY <1>4, <1>5

(* The bounds make sessions and requests finite. *)
LEMMA SessionsFinite == IsFiniteSet(Session) /\ IsFiniteSet(Request)
BY LuaAssumption, FS_Interval DEF Session, Request

-----------------------------------------------------------------------------
(* Types.                                                                  *)

(* Every variable has its type when the service is created. *)
LEMMA StartTypes == LuaInit => LuaTypes
<1> SUFFICES ASSUME LuaInit PROVE LuaTypes
  OBVIOUS
<1>1. coroutine_pool \in SetToSeqs(Co)
  BY OrderFacts, LuaAssumption DEF LuaInit
<1>2. coroutine_pool \in Seq(Co)
  BY <1>1, OrderFacts, LuaAssumption
<1>3. RunTypes
  BY <1>2 DEF LuaInit, RunTypes, Phase, Status
<1>4. WaitTypes
  BY DEF LuaInit, WaitTypes
<1>5. ServeTypes
  BY DEF LuaInit, ServeTypes
<1>6. QueueTypes
  <2>1. wakeup_queue \in Seq(Co) /\ error_queue \in Seq(Session) /\ fork_queue \subseteq Co
    BY DEF LuaInit
  <2> QED BY <2>1 DEF LuaInit, QueueTypes
<1> QED BY <1>3, <1>4, <1>5, <1>6 DEF LuaTypes

(* Who runs, and what every coroutine is doing. *)
LEMMA RunStep ==
    ASSUME LuaTypes, LuaNext
    PROVE  RunTypes'
<1>1. ASSUME LuaStart
      PROVE  RunTypes'
  BY <1>1, LuaAssumption
     DEF LuaStart, LuaTypes, RunTypes, WaitTypes, QueueTypes, Phase, Status, Waiting, runVars
<1>2. ASSUME NEW r \in Request, NEW kind \in {"call", "send"}, NEW c \in Co, DispatchRequest(r, kind, c)
      PROVE  RunTypes'
  <2>1. coroutine_pool' \in Seq(Co)
    BY <1>2, Created DEF DispatchRequest, LuaTypes, RunTypes
  <2>2. phase' \in Phase /\ cur' \in Co \cup {Nil} /\ (phase' = "run" <=> cur' # Nil) /\ frames' \in Nat
    BY <1>2, LuaAssumption DEF DispatchRequest, Runs, LuaTypes, RunTypes, Phase
  <2>3. status' \in [Co -> Status] /\ waitsFor' \in [Co -> Session \cup {0}]
    BY <1>2 DEF DispatchRequest, LuaTypes, RunTypes, WaitTypes, Status, Waiting
  <2> QED BY <2>1, <2>2, <2>3 DEF RunTypes
<1>3. ASSUME NEW s \in Session, DispatchTimer(s)
      PROVE  RunTypes'
  <2>1. phase' \in Phase /\ cur' \in Co \cup {Nil} /\ (phase' = "run" <=> cur' # Nil) /\ frames' \in Nat
    BY <1>3, LuaAssumption
       DEF DispatchTimer, Resumes, Runs, Unwinds, LuaTypes, RunTypes, WaitTypes, Phase, runVars
  <2>2. status' \in [Co -> Status] /\ waitsFor' \in [Co -> Session \cup {0}]
    BY <1>3, LuaAssumption
       DEF DispatchTimer, Resumes, Runs, Unwinds, LuaTypes, RunTypes, WaitTypes, Status, Waiting, runVars
  <2>3. coroutine_pool' \in Seq(Co)
    BY <1>3 DEF DispatchTimer, Resumes, Runs, Unwinds, LuaTypes, RunTypes, runVars
  <2> QED BY <2>1, <2>2, <2>3 DEF RunTypes
<1>4. ASSUME NEW s \in Session, DispatchResponse(s)
      PROVE  RunTypes'
  BY <1>4, LuaAssumption
     DEF DispatchResponse, Resumes, Runs, Unwinds, LuaTypes, RunTypes, WaitTypes, QueueTypes,
         Phase, Status, Waiting, runVars
<1>5. ASSUME NEW s \in Session, DispatchError(s)
      PROVE  RunTypes'
  BY <1>5, LuaAssumption
     DEF DispatchError, Suspended, LuaTypes, RunTypes, WaitTypes, QueueTypes, Phase, Status,
         Waiting, runVars
<1>6. ASSUME NEW failed \in SetToSeqs(watching_session), DispatchExit(failed)
      PROVE  RunTypes'
  BY <1>6, LuaAssumption
     DEF DispatchExit, Suspended, LuaTypes, RunTypes, WaitTypes, QueueTypes, Phase, Status,
         Waiting, runVars
<1>7. ASSUME DispatchOther
      PROVE  RunTypes'
  BY <1>7, LuaAssumption
     DEF DispatchOther, Suspended, LuaTypes, RunTypes, WaitTypes, QueueTypes, Phase, Status,
         Waiting, runVars
<1>8. ASSUME SkynetCall
      PROVE  RunTypes'
  BY <1>8, LuaAssumption
     DEF SkynetCall, Yields, Suspended, LuaTypes, RunTypes, WaitTypes, QueueTypes, Phase, Status,
         Waiting, runVars
<1>9. ASSUME SkynetSleep
      PROVE  RunTypes'
  BY <1>9, LuaAssumption
     DEF SkynetSleep, Yields, Suspended, LuaTypes, RunTypes, WaitTypes, QueueTypes, Phase,
         Status, Waiting, runVars
<1>10. ASSUME SkynetWait
      PROVE  RunTypes'
  BY <1>10, LuaAssumption
     DEF SkynetWait, Yields, Suspended, LuaTypes, RunTypes, WaitTypes, QueueTypes, Phase, Status,
         Waiting, runVars
<1>11. ASSUME NEW c \in Co, Timeout(c)
      PROVE  RunTypes'
  <2>1. coroutine_pool' \in Seq(Co)
    BY <1>11, Created DEF Timeout, LuaTypes, RunTypes
  <2>2. phase' \in Phase /\ cur' \in Co \cup {Nil} /\ (phase' = "run" <=> cur' # Nil) /\ frames' \in Nat
    BY <1>11, LuaAssumption DEF Timeout, LuaTypes, RunTypes, Phase
  <2>3. status' \in [Co -> Status] /\ waitsFor' \in [Co -> Session \cup {0}]
    BY <1>11 DEF Timeout, LuaTypes, RunTypes, WaitTypes, Status, Waiting
  <2> QED BY <2>1, <2>2, <2>3 DEF RunTypes
<1>12. ASSUME NEW c \in Co, Fork(c)
      PROVE  RunTypes'
  <2>1. coroutine_pool' \in Seq(Co)
    BY <1>12, Created DEF Fork, LuaTypes, RunTypes
  <2>2. phase' \in Phase /\ cur' \in Co \cup {Nil} /\ (phase' = "run" <=> cur' # Nil) /\ frames' \in Nat
    BY <1>12, LuaAssumption DEF Fork, LuaTypes, RunTypes, Phase
  <2>3. status' \in [Co -> Status] /\ waitsFor' \in [Co -> Session \cup {0}]
    BY <1>12 DEF Fork, LuaTypes, RunTypes, WaitTypes, Status, Waiting
  <2> QED BY <2>1, <2>2, <2>3 DEF RunTypes
<1>13. ASSUME NEW c \in Co, SkynetWakeup(c)
      PROVE  RunTypes'
  BY <1>13, LuaAssumption
     DEF SkynetWakeup, LuaTypes, RunTypes, WaitTypes, QueueTypes, Phase, Status, Waiting, runVars
<1>14. ASSUME NEW ok \in BOOLEAN, Ret(ok)
      PROVE  RunTypes'
  BY <1>14, LuaAssumption
     DEF Ret, Responds, LuaTypes, RunTypes, WaitTypes, QueueTypes, Phase, Status, Waiting, runVars
<1>15. ASSUME Response
      PROVE  RunTypes'
  BY <1>15, LuaAssumption
     DEF Response, LuaTypes, RunTypes, WaitTypes, QueueTypes, Phase, Status, Waiting, runVars
<1>16. ASSUME NEW r \in Request, NEW how \in {"ok", "fail", "TEST"}, Closure(r, how)
      PROVE  RunTypes'
  BY <1>16, LuaAssumption
     DEF Closure, Responds, LuaTypes, RunTypes, WaitTypes, QueueTypes, Phase, Status, Waiting,
         runVars
<1>17. ASSUME CoExit
      PROVE  RunTypes'
  BY <1>17, LuaAssumption
     DEF CoExit, Suspended, LuaTypes, RunTypes, WaitTypes, QueueTypes, Phase, Status, Waiting,
         runVars
<1>18. ASSUME Raise
      PROVE  RunTypes'
  BY <1>18, LuaAssumption
     DEF Raise, Unwinds, LuaTypes, RunTypes, WaitTypes, QueueTypes, Phase, Status, Waiting,
         runVars
<1>19. ASSUME Quit
      PROVE  RunTypes'
  BY <1>19, LuaAssumption
     DEF Quit, LuaTypes, RunTypes, WaitTypes, QueueTypes, Phase, Status, Waiting, runVars
<1>20. ASSUME DispatchWakeup
      PROVE  RunTypes'
  <2>1. wakeup_queue # << >> => Head(wakeup_queue) \in Co
    BY TailFacts DEF LuaTypes, QueueTypes
  <2>2. coroutine_pool' = coroutine_pool
    BY <1>20 DEF DispatchWakeup
  <2>3. CASE wakeup_queue # << >> /\ sleep_session[Head(wakeup_queue)] # 0
    <3> DEFINE c == Head(wakeup_queue)
    <3>1. /\ phase' = "run" /\ cur' = c /\ frames' = frames + 1 /\ status' = [status EXCEPT ![c] = "run"]
          /\ waitsFor' = [waitsFor EXCEPT ![c] = 0]
      BY <1>20, <2>3 DEF DispatchWakeup, Resumes, Runs
    <3>2. c \in Co
      BY <2>1, <2>3
    <3> HIDE DEF c
    <3> QED BY <2>2, <3>1, <3>2, LuaAssumption DEF LuaTypes, RunTypes, Phase, Status
  <2>4. CASE ~(wakeup_queue # << >> /\ sleep_session[Head(wakeup_queue)] # 0)
    BY <1>20, <2>2, <2>4, LuaAssumption DEF DispatchWakeup, LuaTypes, RunTypes, Phase
  <2> QED BY <2>3, <2>4
<1>21. ASSUME DispatchErrorQueue
      PROVE  RunTypes'
  BY <1>21, LuaAssumption
     DEF DispatchErrorQueue, Resumes, Runs, Unwinds, LuaTypes, RunTypes, WaitTypes, QueueTypes,
         Phase, Status, Waiting, runVars
<1>22. ASSUME SuspendReturns
      PROVE  RunTypes'
  BY <1>22, LuaAssumption
     DEF SuspendReturns, LuaTypes, RunTypes, WaitTypes, QueueTypes, Phase, Status, Waiting,
         runVars
<1>23. ASSUME NEW c \in Co, DispatchFork(c)
      PROVE  RunTypes'
  BY <1>23, LuaAssumption
     DEF DispatchFork, Runs, LuaTypes, RunTypes, WaitTypes, QueueTypes, Phase, Status, Waiting,
         runVars
<1>24. ASSUME DispatchReturns
      PROVE  RunTypes'
  BY <1>24, LuaAssumption
     DEF DispatchReturns, LuaTypes, RunTypes, WaitTypes, QueueTypes, Phase, Status, Waiting,
         runVars
<1> QED
  BY <1>1, <1>2, <1>3, <1>4, <1>5, <1>6, <1>7, <1>8, <1>9, <1>10, <1>11, <1>12,
     <1>13, <1>14, <1>15, <1>16, <1>17, <1>18, <1>19, <1>20, <1>21, <1>22, <1>23, <1>24
     DEF LuaNext, Dispatches, Body, Goes

(* Sessions, timers and what the peer knows of calls. *)
LEMMA WaitStep ==
    ASSUME LuaTypes, LuaNext
    PROVE  WaitTypes'
<1>1. ASSUME LuaStart
      PROVE  WaitTypes'
  BY <1>1, LuaAssumption DEF LuaStart, LuaTypes, RunTypes, WaitTypes, QueueTypes, waitVars
<1>2. ASSUME NEW r \in Request, NEW kind \in {"call", "send"}, NEW c \in Co, DispatchRequest(r, kind, c)
      PROVE  WaitTypes'
  BY <1>2, LuaAssumption
     DEF DispatchRequest, Runs, CoCreate, LuaTypes, RunTypes, WaitTypes, QueueTypes, waitVars
<1>3. ASSUME NEW s \in Session, DispatchTimer(s)
      PROVE  WaitTypes'
  BY <1>3, LuaAssumption
     DEF DispatchTimer, Resumes, Runs, Unwinds, LuaTypes, RunTypes, WaitTypes, QueueTypes,
         waitVars
<1>4. ASSUME NEW s \in Session, DispatchResponse(s)
      PROVE  WaitTypes'
  BY <1>4, LuaAssumption
     DEF DispatchResponse, Resumes, Runs, Unwinds, LuaTypes, RunTypes, WaitTypes, QueueTypes,
         waitVars
<1>5. ASSUME NEW s \in Session, DispatchError(s)
      PROVE  WaitTypes'
  BY <1>5, LuaAssumption
     DEF DispatchError, Suspended, LuaTypes, RunTypes, WaitTypes, QueueTypes, waitVars
<1>6. ASSUME NEW failed \in SetToSeqs(watching_session), DispatchExit(failed)
      PROVE  WaitTypes'
  BY <1>6, LuaAssumption
     DEF DispatchExit, Suspended, LuaTypes, RunTypes, WaitTypes, QueueTypes, waitVars
<1>7. ASSUME DispatchOther
      PROVE  WaitTypes'
  BY <1>7, LuaAssumption
     DEF DispatchOther, Suspended, LuaTypes, RunTypes, WaitTypes, QueueTypes, waitVars
<1>8. ASSUME SkynetCall
      PROVE  WaitTypes'
  BY <1>8, LuaAssumption
     DEF SkynetCall, Yields, Suspended, LuaTypes, RunTypes, WaitTypes, QueueTypes, waitVars
<1>9. ASSUME SkynetSleep
      PROVE  WaitTypes'
  BY <1>9, LuaAssumption
     DEF SkynetSleep, Yields, Suspended, LuaTypes, RunTypes, WaitTypes, QueueTypes, waitVars
<1>10. ASSUME SkynetWait
      PROVE  WaitTypes'
  BY <1>10, LuaAssumption
     DEF SkynetWait, Yields, Suspended, LuaTypes, RunTypes, WaitTypes, QueueTypes, waitVars
<1>11. ASSUME NEW c \in Co, Timeout(c)
      PROVE  WaitTypes'
  BY <1>11, LuaAssumption DEF Timeout, LuaTypes, RunTypes, WaitTypes, QueueTypes, waitVars
<1>12. ASSUME NEW c \in Co, Fork(c)
      PROVE  WaitTypes'
  BY <1>12, LuaAssumption DEF Fork, LuaTypes, RunTypes, WaitTypes, QueueTypes, waitVars
<1>13. ASSUME NEW c \in Co, SkynetWakeup(c)
      PROVE  WaitTypes'
  BY <1>13, LuaAssumption DEF SkynetWakeup, LuaTypes, RunTypes, WaitTypes, QueueTypes, waitVars
<1>14. ASSUME NEW ok \in BOOLEAN, Ret(ok)
      PROVE  WaitTypes'
  BY <1>14, LuaAssumption DEF Ret, Responds, LuaTypes, RunTypes, WaitTypes, QueueTypes, waitVars
<1>15. ASSUME Response
      PROVE  WaitTypes'
  BY <1>15, LuaAssumption DEF Response, LuaTypes, RunTypes, WaitTypes, QueueTypes, waitVars
<1>16. ASSUME NEW r \in Request, NEW how \in {"ok", "fail", "TEST"}, Closure(r, how)
      PROVE  WaitTypes'
  BY <1>16, LuaAssumption
     DEF Closure, Responds, LuaTypes, RunTypes, WaitTypes, QueueTypes, waitVars
<1>17. ASSUME CoExit
      PROVE  WaitTypes'
  BY <1>17, LuaAssumption
     DEF CoExit, Suspended, LuaTypes, RunTypes, WaitTypes, QueueTypes, waitVars
<1>18. ASSUME Raise
      PROVE  WaitTypes'
  BY <1>18, LuaAssumption DEF Raise, Unwinds, LuaTypes, RunTypes, WaitTypes, QueueTypes, waitVars
<1>19. ASSUME Quit
      PROVE  WaitTypes'
  BY <1>19, LuaAssumption DEF Quit, LuaTypes, RunTypes, WaitTypes, QueueTypes, waitVars
<1>20. ASSUME DispatchWakeup
      PROVE  WaitTypes'
  BY <1>20, LuaAssumption
     DEF DispatchWakeup, Resumes, Runs, LuaTypes, RunTypes, WaitTypes, QueueTypes, waitVars
<1>21. ASSUME DispatchErrorQueue
      PROVE  WaitTypes'
  BY <1>21, LuaAssumption
     DEF DispatchErrorQueue, Resumes, Runs, Unwinds, LuaTypes, RunTypes, WaitTypes, QueueTypes,
         waitVars
<1>22. ASSUME SuspendReturns
      PROVE  WaitTypes'
  BY <1>22, LuaAssumption DEF SuspendReturns, LuaTypes, RunTypes, WaitTypes, QueueTypes, waitVars
<1>23. ASSUME NEW c \in Co, DispatchFork(c)
      PROVE  WaitTypes'
  BY <1>23, LuaAssumption
     DEF DispatchFork, Runs, LuaTypes, RunTypes, WaitTypes, QueueTypes, waitVars
<1>24. ASSUME DispatchReturns
      PROVE  WaitTypes'
  BY <1>24, LuaAssumption DEF DispatchReturns, LuaTypes, RunTypes, WaitTypes, QueueTypes, waitVars
<1> QED
  BY <1>1, <1>2, <1>3, <1>4, <1>5, <1>6, <1>7, <1>8, <1>9, <1>10, <1>11, <1>12,
     <1>13, <1>14, <1>15, <1>16, <1>17, <1>18, <1>19, <1>20, <1>21, <1>22, <1>23, <1>24
     DEF LuaNext, Dispatches, Body, Goes

(* Requests and their answers. *)
LEMMA ServeStep ==
    ASSUME LuaTypes, LuaNext
    PROVE  ServeTypes'
<1>1. ASSUME LuaStart
      PROVE  ServeTypes'
  BY <1>1, LuaAssumption DEF LuaStart, LuaTypes, RunTypes, ServeTypes, serveVars
<1>2. ASSUME NEW r \in Request, NEW kind \in {"call", "send"}, NEW c \in Co, DispatchRequest(r, kind, c)
      PROVE  ServeTypes'
  BY <1>2, LuaAssumption
     DEF DispatchRequest, Runs, CoCreate, LuaTypes, RunTypes, ServeTypes, serveVars
<1>3. ASSUME NEW s \in Session, DispatchTimer(s)
      PROVE  ServeTypes'
  BY <1>3, LuaAssumption
     DEF DispatchTimer, Resumes, Runs, Unwinds, LuaTypes, RunTypes, ServeTypes, serveVars
<1>4. ASSUME NEW s \in Session, DispatchResponse(s)
      PROVE  ServeTypes'
  BY <1>4, LuaAssumption
     DEF DispatchResponse, Resumes, Runs, Unwinds, LuaTypes, RunTypes, ServeTypes, serveVars
<1>5. ASSUME NEW s \in Session, DispatchError(s)
      PROVE  ServeTypes'
  BY <1>5, LuaAssumption DEF DispatchError, Suspended, LuaTypes, RunTypes, ServeTypes, serveVars
<1>6. ASSUME NEW failed \in SetToSeqs(watching_session), DispatchExit(failed)
      PROVE  ServeTypes'
  BY <1>6, LuaAssumption DEF DispatchExit, Suspended, LuaTypes, RunTypes, ServeTypes, serveVars
<1>7. ASSUME DispatchOther
      PROVE  ServeTypes'
  BY <1>7, LuaAssumption DEF DispatchOther, Suspended, LuaTypes, RunTypes, ServeTypes, serveVars
<1>8. ASSUME SkynetCall
      PROVE  ServeTypes'
  BY <1>8, LuaAssumption
     DEF SkynetCall, Yields, Suspended, LuaTypes, RunTypes, ServeTypes, serveVars
<1>9. ASSUME SkynetSleep
      PROVE  ServeTypes'
  BY <1>9, LuaAssumption
     DEF SkynetSleep, Yields, Suspended, LuaTypes, RunTypes, ServeTypes, serveVars
<1>10. ASSUME SkynetWait
      PROVE  ServeTypes'
  BY <1>10, LuaAssumption
     DEF SkynetWait, Yields, Suspended, LuaTypes, RunTypes, ServeTypes, serveVars
<1>11. ASSUME NEW c \in Co, Timeout(c)
      PROVE  ServeTypes'
  BY <1>11, LuaAssumption DEF Timeout, LuaTypes, RunTypes, ServeTypes, serveVars
<1>12. ASSUME NEW c \in Co, Fork(c)
      PROVE  ServeTypes'
  BY <1>12, LuaAssumption DEF Fork, LuaTypes, RunTypes, ServeTypes, serveVars
<1>13. ASSUME NEW c \in Co, SkynetWakeup(c)
      PROVE  ServeTypes'
  BY <1>13, LuaAssumption DEF SkynetWakeup, LuaTypes, RunTypes, ServeTypes, serveVars
<1>14. ASSUME NEW ok \in BOOLEAN, Ret(ok)
      PROVE  ServeTypes'
  <2>1. cur \in Co /\ handling[cur] \in Request
    BY <1>14 DEF Ret, LuaTypes, RunTypes, ServeTypes
  <2>2. session_response' \subseteq Co /\ UNCHANGED <<handling, unresponse, watching_service, requested>>
    BY <1>14, <2>1 DEF Ret, LuaTypes, ServeTypes
  <2>3. responses' \in [Request -> Nat] /\ errors' \subseteq Request
    BY <1>14, <2>1 DEF Ret, Responds, LuaTypes, ServeTypes
  <2> QED BY <2>2, <2>3 DEF LuaTypes, ServeTypes
<1>15. ASSUME Response
      PROVE  ServeTypes'
  BY <1>15, LuaAssumption DEF Response, LuaTypes, RunTypes, ServeTypes, serveVars
<1>16. ASSUME NEW r \in Request, NEW how \in {"ok", "fail", "TEST"}, Closure(r, how)
      PROVE  ServeTypes'
  BY <1>16, LuaAssumption DEF Closure, Responds, LuaTypes, RunTypes, ServeTypes, serveVars
<1>17. ASSUME CoExit
      PROVE  ServeTypes'
  BY <1>17, LuaAssumption DEF CoExit, Suspended, LuaTypes, RunTypes, ServeTypes, serveVars
<1>18. ASSUME Raise
      PROVE  ServeTypes'
  BY <1>18, LuaAssumption DEF Raise, Unwinds, LuaTypes, RunTypes, ServeTypes, serveVars
<1>19. ASSUME Quit
      PROVE  ServeTypes'
  BY <1>19, LuaAssumption DEF Quit, LuaTypes, RunTypes, ServeTypes, serveVars
<1>20. ASSUME DispatchWakeup
      PROVE  ServeTypes'
  BY <1>20, LuaAssumption
     DEF DispatchWakeup, Resumes, Runs, LuaTypes, RunTypes, ServeTypes, serveVars
<1>21. ASSUME DispatchErrorQueue
      PROVE  ServeTypes'
  BY <1>21, LuaAssumption
     DEF DispatchErrorQueue, Resumes, Runs, Unwinds, LuaTypes, RunTypes, ServeTypes, serveVars
<1>22. ASSUME SuspendReturns
      PROVE  ServeTypes'
  BY <1>22, LuaAssumption DEF SuspendReturns, LuaTypes, RunTypes, ServeTypes, serveVars
<1>23. ASSUME NEW c \in Co, DispatchFork(c)
      PROVE  ServeTypes'
  BY <1>23, LuaAssumption DEF DispatchFork, Runs, LuaTypes, RunTypes, ServeTypes, serveVars
<1>24. ASSUME DispatchReturns
      PROVE  ServeTypes'
  BY <1>24, LuaAssumption DEF DispatchReturns, LuaTypes, RunTypes, ServeTypes, serveVars
<1> QED
  BY <1>1, <1>2, <1>3, <1>4, <1>5, <1>6, <1>7, <1>8, <1>9, <1>10, <1>11, <1>12,
     <1>13, <1>14, <1>15, <1>16, <1>17, <1>18, <1>19, <1>20, <1>21, <1>22, <1>23, <1>24
     DEF LuaNext, Dispatches, Body, Goes

(* The queues of suspend and dispatch_message. *)
LEMMA QueueStep ==
    ASSUME LuaTypes, LuaNext
    PROVE  QueueTypes'
<1>1. ASSUME LuaStart
      PROVE  QueueTypes'
  BY <1>1, LuaAssumption DEF LuaStart, LuaTypes, RunTypes, WaitTypes, QueueTypes, queueVars
<1>2. ASSUME NEW r \in Request, NEW kind \in {"call", "send"}, NEW c \in Co, DispatchRequest(r, kind, c)
      PROVE  QueueTypes'
  BY <1>2, LuaAssumption
     DEF DispatchRequest, Runs, CoCreate, LuaTypes, RunTypes, WaitTypes, QueueTypes, queueVars
<1>3. ASSUME NEW s \in Session, DispatchTimer(s)
      PROVE  QueueTypes'
  BY <1>3, LuaAssumption
     DEF DispatchTimer, Resumes, Runs, Unwinds, LuaTypes, RunTypes, WaitTypes, QueueTypes,
         queueVars
<1>4. ASSUME NEW s \in Session, DispatchResponse(s)
      PROVE  QueueTypes'
  BY <1>4, LuaAssumption
     DEF DispatchResponse, Resumes, Runs, Unwinds, LuaTypes, RunTypes, WaitTypes, QueueTypes,
         queueVars
<1>5. ASSUME NEW s \in Session, DispatchError(s)
      PROVE  QueueTypes'
  BY <1>5, LuaAssumption
     DEF DispatchError, Suspended, LuaTypes, RunTypes, WaitTypes, QueueTypes, queueVars
<1>6. ASSUME NEW failed \in SetToSeqs(watching_session), DispatchExit(failed)
      PROVE  QueueTypes'
  <2>1. failed \in Seq(Session)
    BY OrderFacts, SessionsFinite, FS_Subset DEF LuaTypes, WaitTypes
  <2>2. error_queue' \in Seq(Session)
    BY <1>6, <2>1, ConcatFacts DEF DispatchExit, LuaTypes, QueueTypes
  <2> QED BY <1>6, <2>2 DEF DispatchExit, LuaTypes, QueueTypes
<1>7. ASSUME DispatchOther
      PROVE  QueueTypes'
  BY <1>7, LuaAssumption
     DEF DispatchOther, Suspended, LuaTypes, RunTypes, WaitTypes, QueueTypes, queueVars
<1>8. ASSUME SkynetCall
      PROVE  QueueTypes'
  BY <1>8, LuaAssumption
     DEF SkynetCall, Yields, Suspended, LuaTypes, RunTypes, WaitTypes, QueueTypes, queueVars
<1>9. ASSUME SkynetSleep
      PROVE  QueueTypes'
  BY <1>9, LuaAssumption
     DEF SkynetSleep, Yields, Suspended, LuaTypes, RunTypes, WaitTypes, QueueTypes, queueVars
<1>10. ASSUME SkynetWait
      PROVE  QueueTypes'
  BY <1>10, LuaAssumption
     DEF SkynetWait, Yields, Suspended, LuaTypes, RunTypes, WaitTypes, QueueTypes, queueVars
<1>11. ASSUME NEW c \in Co, Timeout(c)
      PROVE  QueueTypes'
  BY <1>11, LuaAssumption DEF Timeout, LuaTypes, RunTypes, WaitTypes, QueueTypes, queueVars
<1>12. ASSUME NEW c \in Co, Fork(c)
      PROVE  QueueTypes'
  BY <1>12, LuaAssumption DEF Fork, LuaTypes, RunTypes, WaitTypes, QueueTypes, queueVars
<1>13. ASSUME NEW c \in Co, SkynetWakeup(c)
      PROVE  QueueTypes'
  BY <1>13, LuaAssumption DEF SkynetWakeup, LuaTypes, RunTypes, WaitTypes, QueueTypes, queueVars
<1>14. ASSUME NEW ok \in BOOLEAN, Ret(ok)
      PROVE  QueueTypes'
  BY <1>14, LuaAssumption DEF Ret, Responds, LuaTypes, RunTypes, WaitTypes, QueueTypes, queueVars
<1>15. ASSUME Response
      PROVE  QueueTypes'
  BY <1>15, LuaAssumption DEF Response, LuaTypes, RunTypes, WaitTypes, QueueTypes, queueVars
<1>16. ASSUME NEW r \in Request, NEW how \in {"ok", "fail", "TEST"}, Closure(r, how)
      PROVE  QueueTypes'
  BY <1>16, LuaAssumption
     DEF Closure, Responds, LuaTypes, RunTypes, WaitTypes, QueueTypes, queueVars
<1>17. ASSUME CoExit
      PROVE  QueueTypes'
  BY <1>17, LuaAssumption
     DEF CoExit, Suspended, LuaTypes, RunTypes, WaitTypes, QueueTypes, queueVars
<1>18. ASSUME Raise
      PROVE  QueueTypes'
  BY <1>18, LuaAssumption DEF Raise, Unwinds, LuaTypes, RunTypes, WaitTypes, QueueTypes, queueVars
<1>19. ASSUME Quit
      PROVE  QueueTypes'
  BY <1>19, LuaAssumption DEF Quit, LuaTypes, RunTypes, WaitTypes, QueueTypes, queueVars
<1>20. ASSUME DispatchWakeup
      PROVE  QueueTypes'
  BY <1>20, LuaAssumption
     DEF DispatchWakeup, Resumes, Runs, LuaTypes, RunTypes, WaitTypes, QueueTypes, queueVars
<1>21. ASSUME DispatchErrorQueue
      PROVE  QueueTypes'
  <2>1. error_queue' \in Seq(Session)
    BY <1>21, TailFacts DEF DispatchErrorQueue, LuaTypes, QueueTypes
  <2>2. disturbed' \in BOOLEAN
    BY <1>21 DEF DispatchErrorQueue, LuaTypes, QueueTypes
  <2> QED BY <1>21, <2>1, <2>2 DEF DispatchErrorQueue, LuaTypes, QueueTypes
<1>22. ASSUME SuspendReturns
      PROVE  QueueTypes'
  BY <1>22, LuaAssumption DEF SuspendReturns, LuaTypes, RunTypes, WaitTypes, QueueTypes, queueVars
<1>23. ASSUME NEW c \in Co, DispatchFork(c)
      PROVE  QueueTypes'
  BY <1>23, LuaAssumption
     DEF DispatchFork, Runs, LuaTypes, RunTypes, WaitTypes, QueueTypes, queueVars
<1>24. ASSUME DispatchReturns
      PROVE  QueueTypes'
  BY <1>24, LuaAssumption
     DEF DispatchReturns, LuaTypes, RunTypes, WaitTypes, QueueTypes, queueVars
<1> QED
  BY <1>1, <1>2, <1>3, <1>4, <1>5, <1>6, <1>7, <1>8, <1>9, <1>10, <1>11, <1>12,
     <1>13, <1>14, <1>15, <1>16, <1>17, <1>18, <1>19, <1>20, <1>21, <1>22, <1>23, <1>24
     DEF LuaNext, Dispatches, Body, Goes

-----------------------------------------------------------------------------
(* How a step moves a coroutine.                                           *)

(* One that does not wait goes on to w, which is no waiting either. *)
Moved(c, w) ==
    /\ status[c] \notin Waiting /\ w \in Status \ Waiting
    /\ status' = [status EXCEPT ![c] = w] /\ UNCHANGED <<waitsFor, waitVars>>

(* One that does not wait begins to wait, with a new session. *)
Yielded(c, w) ==
    LET s == session + 1 IN
    /\ status[c] \notin Waiting /\ w \in Waiting /\ s \in Session /\ session' = s
    /\ status' = [status EXCEPT ![c] = w] /\ waitsFor' = [waitsFor EXCEPT ![c] = s]
    /\ session_id_coroutine' = [session_id_coroutine EXCEPT ![s] = c]
    /\ sleep_session' = IF w \in {"sleep", "wait"} THEN [sleep_session EXCEPT ![c] = s] ELSE sleep_session
    /\ watching_session' = IF w = "call" THEN watching_session \cup {s} ELSE watching_session
    /\ timers' = IF w \in {"sleep", "timeout"} THEN timers \cup {s} ELSE timers
    /\ peer' = IF w = "call" THEN [peer EXCEPT ![s] = "called"] ELSE peer

(* The one that waits for session s is resumed. *)
Resumed(c, s) ==
    /\ status[c] \in Waiting /\ waitsFor[c] = s /\ cur' = c
    /\ status' = [status EXCEPT ![c] = "run"] /\ waitsFor' = [waitsFor EXCEPT ![c] = 0]
    /\ sleep_session' = [sleep_session EXCEPT ![c] = 0] /\ watching_session' = watching_session \ {s}
    /\ \E x \in {Nil, "BREAK"} : session_id_coroutine' = [session_id_coroutine EXCEPT ![s] = x]
    /\ timers \ {s} \subseteq timers'

(* Nobody is. *)
Missed ==
    /\ cur' = Nil /\ UNCHANGED <<status, waitsFor, sleep_session, watching_session>>
    /\ \/ UNCHANGED <<session_id_coroutine, timers>>
       \/ \E s \in Session :
             /\ session_id_coroutine[s] \notin Co
             /\ session_id_coroutine' = [session_id_coroutine EXCEPT ![s] = Nil]
             /\ timers \ {s} \subseteq timers'

(* A session in the table is waited for. *)
LEMMA SessionKnown ==
    ASSUME LuaTypes, Waits, NEW s \in Session, session_id_coroutine[s] \in Co
    PROVE  /\ waitsFor[session_id_coroutine[s]] = s /\ status[session_id_coroutine[s]] \in Waiting
<1>1. waitsFor[session_id_coroutine[s]] = s /\ s # 0
  BY LuaAssumption DEF Waits, Session
<1> QED BY <1>1 DEF Waits

(* A coroutine with a sleep_session sleeps. *)
LEMMA SleeperKnown ==
    ASSUME LuaTypes, Waits, NEW c \in Co, sleep_session[c] # 0
    PROVE  /\ status[c] \in {"sleep", "wait"} /\ waitsFor[c] = sleep_session[c]
           /\ sleep_session[c] \in Session
BY DEF LuaTypes, WaitTypes, Waits

(* A timer resumes the coroutine that sleeps for it, if it still does. *)
LEMMA TimerResumes ==
    ASSUME LuaTypes, Waits, NEW s \in Session, DispatchTimer(s)
    PROVE  Missed \/ \E c \in Co : Resumed(c, s)
<1>1. CASE session_id_coroutine[s] \in Co
  <2> DEFINE c == session_id_coroutine[s]
  <2>1. Resumes(c, s, 0) /\ session_id_coroutine' = [session_id_coroutine EXCEPT ![s] = Nil]
        /\ timers' = timers \ {s}
    BY <1>1 DEF DispatchTimer
  <2>2. c \in Co /\ waitsFor[c] = s /\ status[c] \in Waiting
    BY <1>1, SessionKnown
  <2> HIDE DEF c
  <2>3. Resumed(c, s)
    BY <2>1, <2>2 DEF Resumes, Runs, Resumed
  <2> QED BY <2>2, <2>3
<1>2. CASE session_id_coroutine[s] \notin Co
  BY <1>2 DEF DispatchTimer, Unwinds, Missed
<1> QED BY <1>1, <1>2

(* A response resumes the caller, if he still waits. *)
LEMMA ResponseResumes ==
    ASSUME LuaTypes, Waits, NEW s \in Session, DispatchResponse(s)
    PROVE  Missed \/ \E c \in Co : Resumed(c, s)
<1>1. CASE session_id_coroutine[s] \in Co
  <2> DEFINE c == session_id_coroutine[s]
  <2>1. Resumes(c, s, 0) /\ session_id_coroutine' = [session_id_coroutine EXCEPT ![s] = Nil]
        /\ timers' = timers
    BY <1>1 DEF DispatchResponse
  <2>2. c \in Co /\ waitsFor[c] = s /\ status[c] \in Waiting
    BY <1>1, SessionKnown
  <2> HIDE DEF c
  <2>3. Resumed(c, s)
    BY <2>1, <2>2 DEF Resumes, Runs, Resumed
  <2> QED BY <2>2, <2>3
<1>2. CASE session_id_coroutine[s] \notin Co
  BY <1>2 DEF DispatchResponse, Unwinds, Missed
<1> QED BY <1>1, <1>2

(* A failure resumes the caller, if he still waits. *)
LEMMA ErrorResumes ==
    ASSUME LuaTypes, Waits, DispatchErrorQueue
    PROVE  Missed \/ \E c \in Co : Resumed(c, Head(error_queue))
<1> DEFINE s == Head(error_queue)
<1>0. s \in Session
  BY TailFacts DEF DispatchErrorQueue, LuaTypes, QueueTypes
<1>1. CASE session_id_coroutine[s] \in Co
  <2> DEFINE c == session_id_coroutine[s]
  <2>1. Resumes(c, s, frames) /\ session_id_coroutine' = [session_id_coroutine EXCEPT ![s] = Nil]
        /\ timers' = timers
    BY <1>1 DEF DispatchErrorQueue
  <2>2. c \in Co /\ waitsFor[c] = s /\ status[c] \in Waiting
    BY <1>0, <1>1, SessionKnown
  <2> HIDE DEF c, s
  <2>3. Resumed(c, s)
    BY <2>1, <2>2 DEF Resumes, Runs, Resumed
  <2> QED BY <2>2, <2>3 DEF s
<1>2. CASE session_id_coroutine[s] \notin Co
  <2>1. /\ cur' = Nil /\ UNCHANGED <<status, waitsFor, sleep_session, watching_session, timers>>
        /\ session_id_coroutine' = [session_id_coroutine EXCEPT ![s] = Nil]
    BY <1>2 DEF DispatchErrorQueue, Unwinds
  <2> HIDE DEF s
  <2> QED BY <1>0, <1>2, <2>1 DEF Missed
<1> QED BY <1>1, <1>2

(* dispatch_wakeup resumes the first woken coroutine that still sleeps. *)
LEMMA WakeupResumes ==
    ASSUME LuaTypes, Waits, DispatchWakeup
    PROVE  \/ /\ Missed /\ phase' = "err" /\ frames' = frames /\ sleep_session' = sleep_session
              /\ wakeup_queue = << >> \/ sleep_session[Head(wakeup_queue)] = 0
           \/ /\ wakeup_queue # << >> /\ phase' = "run" /\ Head(wakeup_queue) \in Co
              /\ \E s \in Session : Resumed(Head(wakeup_queue), s)
<1>1. CASE wakeup_queue # << >> /\ sleep_session[Head(wakeup_queue)] # 0
  <2> DEFINE c == Head(wakeup_queue)
             s == sleep_session[c]
  <2>1. c \in Co
    BY <1>1, TailFacts DEF LuaTypes, QueueTypes
  <2>2. /\ Resumes(c, s, frames + 1) /\ timers' = timers
        /\ session_id_coroutine' =
              [session_id_coroutine EXCEPT ![s] = IF status[c] = "wait" THEN Nil ELSE "BREAK"]
    BY <1>1 DEF DispatchWakeup
  <2>3. status[c] \in {"sleep", "wait"} /\ waitsFor[c] = s /\ s \in Session
    BY <1>1, <2>1, SleeperKnown
  <2> HIDE DEF s
  <2>4. Resumed(c, s) /\ phase' = "run"
    <3> HIDE DEF c
    <3> QED BY <2>2, <2>3 DEF Resumes, Runs, Resumed, Waiting
  <2> QED BY <1>1, <2>1, <2>3, <2>4
<1>2. CASE ~(wakeup_queue # << >> /\ sleep_session[Head(wakeup_queue)] # 0)
  <2>1. phase = "wake" /\ phase' = "err"
        /\ UNCHANGED <<cur, frames, status, waitsFor, session_id_coroutine, sleep_session, watching_session, timers>>
    BY <1>2 DEF DispatchWakeup
  <2>2. cur = Nil
    BY <2>1 DEF LuaTypes, RunTypes
  <2> QED BY <1>2, <2>1, <2>2 DEF Missed
<1> QED BY <1>1, <1>2

-----------------------------------------------------------------------------
(* Sessions lead to those who wait.                                        *)

(* The tables are right for those who do not begin or cease to wait. *)
LEMMA WaitsMoved ==
    ASSUME LuaTypes, Waits, NEW c \in Co, NEW w, Moved(c, w)
    PROVE  Waits'
BY DEF LuaTypes, RunTypes, Moved, Waits, waitVars, Waiting

(* They are after one began to wait: its session is new. *)
LEMMA WaitsYielded ==
    ASSUME LuaTypes, Waits, NEW c \in Co, NEW w, Yielded(c, w)
    PROVE  Waits'
<1> DEFINE s == session + 1
<1>1. /\ s \in Session /\ s \notin 1..session /\ 1..session \subseteq 1..s /\ session' = s /\ s # 0
      /\ 0 \notin Session /\ s \in 1..s
  BY LuaAssumption DEF Yielded, Session, LuaTypes, WaitTypes
<1>2. /\ status[c] \notin Waiting /\ w \in Waiting
      /\ status' = [status EXCEPT ![c] = w] /\ waitsFor' = [waitsFor EXCEPT ![c] = s]
      /\ session_id_coroutine' = [session_id_coroutine EXCEPT ![s] = c]
      /\ sleep_session' = IF w \in {"sleep", "wait"} THEN [sleep_session EXCEPT ![c] = s] ELSE sleep_session
      /\ watching_session' = IF w = "call" THEN watching_session \cup {s} ELSE watching_session
      /\ timers' = IF w \in {"sleep", "timeout"} THEN timers \cup {s} ELSE timers
  BY DEF Yielded
<1> HIDE DEF s
<1>3. /\ status \in [Co -> Status] /\ waitsFor \in [Co -> Session \cup {0}]
      /\ session_id_coroutine \in [Session -> Co \cup {Nil, "BREAK"}]
      /\ sleep_session \in [Co -> Session \cup {0}]
  BY DEF LuaTypes, RunTypes, WaitTypes
<1>4. ASSUME NEW d \in Co
      PROVE  /\ IF status'[d] \in Waiting
                  THEN waitsFor'[d] \in 1..session' /\ session_id_coroutine'[waitsFor'[d]] = d
                  ELSE waitsFor'[d] = 0
             /\ sleep_session'[d] = IF status'[d] \in {"sleep", "wait"} THEN waitsFor'[d] ELSE 0
             /\ status'[d] = "call" <=> waitsFor'[d] \in watching_session'
             /\ status'[d] \in {"sleep", "timeout"} => waitsFor'[d] \in timers'
  <2>1. CASE d = c
    <3>1. status'[d] = w /\ waitsFor'[d] = s /\ session_id_coroutine'[s] = c
      BY <1>1, <1>2, <1>3, <2>1
    <3>2. sleep_session'[d] = IF w \in {"sleep", "wait"} THEN s ELSE 0
      BY <1>2, <1>3, <2>1 DEF Waits, Waiting
    <3>3. s \notin watching_session
      BY <1>1 DEF Waits
    <3> QED BY <1>1, <1>2, <2>1, <3>1, <3>2, <3>3
  <2>2. CASE d # c
    <3>1. status'[d] = status[d] /\ waitsFor'[d] = waitsFor[d] /\ sleep_session'[d] = sleep_session[d]
      BY <1>2, <1>3, <2>2
    <3>2. waitsFor[d] # s
      BY <1>1 DEF Waits
    <3>3. waitsFor[d] \in Session => session_id_coroutine'[waitsFor[d]] = session_id_coroutine[waitsFor[d]]
      BY <1>2, <1>3, <3>2
    <3>4. status[d] \in Waiting => waitsFor[d] \in Session
      BY <1>1, <1>3, LuaAssumption DEF Waits, Session
    <3> QED BY <1>1, <1>2, <3>1, <3>2, <3>3, <3>4 DEF Waits
  <2> QED BY <2>1, <2>2
<1>5. ASSUME NEW u \in Session, session_id_coroutine'[u] \in Co
      PROVE  waitsFor'[session_id_coroutine'[u]] = u
  <2>1. CASE u = s
    BY <1>2, <1>3, <2>1
  <2>2. CASE u # s
    <3>1. session_id_coroutine'[u] = session_id_coroutine[u] /\ waitsFor[session_id_coroutine[u]] = u /\ u # 0
      BY <1>1, <1>2, <1>3, <1>5, <2>2 DEF Waits
    <3>2. session_id_coroutine[u] # c
      BY <1>2, <3>1 DEF Waits
    <3> QED BY <1>2, <1>3, <1>5, <3>1, <3>2
  <2> QED BY <2>1, <2>2
<1>6. watching_session' \subseteq 1..session'
  BY <1>1, <1>2 DEF Waits
<1> QED BY <1>4, <1>5, <1>6 DEF Waits

(* They are after one was resumed: nobody else waited for its session. *)
LEMMA WaitsResumed ==
    ASSUME LuaTypes, Waits, NEW c \in Co, NEW s \in Session, Resumed(c, s), session' = session
    PROVE  Waits'
<1>1. PICK x \in {Nil, "BREAK"} : session_id_coroutine' = [session_id_coroutine EXCEPT ![s] = x]
  BY DEF Resumed
<1>2. /\ status[c] \in Waiting /\ waitsFor[c] = s /\ 0 \notin Session
      /\ status' = [status EXCEPT ![c] = "run"] /\ waitsFor' = [waitsFor EXCEPT ![c] = 0]
      /\ sleep_session' = [sleep_session EXCEPT ![c] = 0] /\ watching_session' = watching_session \ {s}
      /\ timers \ {s} \subseteq timers'
  BY LuaAssumption DEF Resumed, Session
<1>3. /\ status \in [Co -> Status] /\ waitsFor \in [Co -> Session \cup {0}]
      /\ session_id_coroutine \in [Session -> Co \cup {Nil, "BREAK"}]
      /\ sleep_session \in [Co -> Session \cup {0}] /\ watching_session \subseteq Session
  BY DEF LuaTypes, RunTypes, WaitTypes
<1>4. ASSUME NEW d \in Co
      PROVE  /\ IF status'[d] \in Waiting
                  THEN waitsFor'[d] \in 1..session' /\ session_id_coroutine'[waitsFor'[d]] = d
                  ELSE waitsFor'[d] = 0
             /\ sleep_session'[d] = IF status'[d] \in {"sleep", "wait"} THEN waitsFor'[d] ELSE 0
             /\ status'[d] = "call" <=> waitsFor'[d] \in watching_session'
             /\ status'[d] \in {"sleep", "timeout"} => waitsFor'[d] \in timers'
  <2>1. CASE d = c
    <3>1. status'[d] = "run" /\ waitsFor'[d] = 0 /\ sleep_session'[d] = 0
      BY <1>2, <1>3, <2>1
    <3>2. 0 \notin watching_session'
      BY <1>2, <1>3
    <3> QED BY <3>1, <3>2 DEF Waiting
  <2>2. CASE d # c
    <3>1. status'[d] = status[d] /\ waitsFor'[d] = waitsFor[d] /\ sleep_session'[d] = sleep_session[d]
      BY <1>2, <1>3, <2>2
    <3>2. waitsFor[d] # s
      BY <1>2, <2>2 DEF Waits
    <3>3. waitsFor[d] \in Session => session_id_coroutine'[waitsFor[d]] = session_id_coroutine[waitsFor[d]]
      BY <1>1, <1>3, <3>2
    <3>4. status[d] \in Waiting => waitsFor[d] \in Session
      BY <1>2, <1>3, LuaAssumption DEF Waits, Session
    <3> QED BY <1>2, <3>1, <3>2, <3>3, <3>4 DEF Waits
  <2> QED BY <2>1, <2>2
<1>5. ASSUME NEW u \in Session, session_id_coroutine'[u] \in Co
      PROVE  waitsFor'[session_id_coroutine'[u]] = u
  <2>1. u # s
    BY <1>1, <1>3, <1>5, LuaAssumption
  <2>2. session_id_coroutine'[u] = session_id_coroutine[u] /\ waitsFor[session_id_coroutine[u]] = u
    BY <1>1, <1>3, <1>5, <2>1 DEF Waits
  <2>3. session_id_coroutine[u] # c
    BY <1>2, <2>1, <2>2
  <2> QED BY <1>2, <1>3, <1>5, <2>2, <2>3
<1>6. watching_session' \subseteq 1..session'
  BY <1>2 DEF Waits
<1> QED BY <1>4, <1>5, <1>6 DEF Waits

(* They are after a message that nobody waited for. *)
LEMMA WaitsMissed ==
    ASSUME LuaTypes, Waits, Missed, session' = session
    PROVE  Waits'
<1>1. UNCHANGED <<status, waitsFor, sleep_session, watching_session>>
  BY DEF Missed
<1>2. CASE UNCHANGED <<session_id_coroutine, timers>>
  BY <1>1, <1>2 DEF Waits
<1>3. ASSUME NEW s \in Session, session_id_coroutine[s] \notin Co,
             session_id_coroutine' = [session_id_coroutine EXCEPT ![s] = Nil], timers \ {s} \subseteq timers'
      PROVE  Waits'
  <2>1. session_id_coroutine \in [Session -> Co \cup {Nil, "BREAK"}]
    BY DEF LuaTypes, WaitTypes
  <2>2. \A d \in Co : waitsFor[d] = s => status[d] \notin Waiting
    BY <1>3 DEF Waits
  <2>3. \A d \in Co : status[d] \in Waiting => session_id_coroutine'[waitsFor[d]] = d
    <3> SUFFICES ASSUME NEW d \in Co, status[d] \in Waiting
                 PROVE  session_id_coroutine'[waitsFor[d]] = d
      OBVIOUS
    <3>1. waitsFor[d] # s /\ session_id_coroutine[waitsFor[d]] = d /\ waitsFor[d] # 0
      BY <2>2 DEF Waits, LuaTypes, WaitTypes
    <3>2. waitsFor[d] \in Session
      BY <3>1 DEF LuaTypes, RunTypes
    <3> QED BY <1>3, <2>1, <3>1, <3>2
  <2>4. \A u \in Session : session_id_coroutine'[u] \in Co => session_id_coroutine'[u] = session_id_coroutine[u]
    BY <1>3, <2>1, LuaAssumption
  <2>5. \A d \in Co : status[d] \in {"sleep", "timeout"} => waitsFor[d] \in timers'
    BY <1>3, <2>2 DEF Waits, Waiting
  <2> QED BY <1>1, <2>3, <2>4, <2>5 DEF Waits
<1> QED BY <1>2, <1>3 DEF Missed

(* The coroutine that runs. *)
LEMMA Runner ==
    ASSUME LuaTypes, LuaPlaces, phase = "run"
    PROVE  cur \in Co /\ cur # Nil /\ status[cur] = "run"
BY DEF LuaTypes, RunTypes, LuaPlaces

(* The coroutine that co_create returns. *)
LEMMA Fresh ==
    ASSUME LuaTypes, LuaPlaces, NEW c, CoCreate(c)
    PROVE  /\ c \in Co /\ status[c] = "pool"
           /\ \A i \in DOMAIN coroutine_pool' : coroutine_pool'[i] # c /\ status[coroutine_pool'[i]] = "pool"
           /\ \A i, j \in DOMAIN coroutine_pool' : coroutine_pool'[i] = coroutine_pool'[j] => i = j
<1>1. coroutine_pool \in Seq(Co)
  BY DEF LuaTypes, RunTypes
<1>2. /\ c \in Co /\ Len(coroutine_pool) \in DOMAIN coroutine_pool
      /\ c = coroutine_pool[Len(coroutine_pool)]
      /\ \A i \in DOMAIN coroutine_pool' :
            i \in DOMAIN coroutine_pool /\ i < Len(coroutine_pool) /\ coroutine_pool'[i] = coroutine_pool[i]
  BY <1>1, Created
<1>3. status[c] = "pool"
  BY <1>2 DEF LuaPlaces
<1>4. ASSUME NEW i \in DOMAIN coroutine_pool'
      PROVE  coroutine_pool'[i] # c /\ status[coroutine_pool'[i]] = "pool"
  BY <1>1, <1>2 DEF LuaPlaces
<1>5. \A i, j \in DOMAIN coroutine_pool' : coroutine_pool'[i] = coroutine_pool'[j] => i = j
  BY <1>2 DEF LuaPlaces
<1> QED BY <1>2, <1>3, <1>4, <1>5

(* What each handler does to the coroutines. *)
LEMMA RequestMoves ==
    ASSUME LuaTypes, LuaPlaces, NEW r, NEW kind, NEW c, DispatchRequest(r, kind, c)
    PROVE  c \in Co /\ Moved(c, "run")
<1>1. c \in Co /\ status[c] = "pool"
  BY Fresh DEF DispatchRequest
<1> QED BY <1>1 DEF DispatchRequest, Moved, Status, Waiting

LEMMA ForkMoves ==
    ASSUME LuaTypes, LuaPlaces, NEW c, Fork(c)
    PROVE  c \in Co /\ Moved(c, "forked")
<1>1. c \in Co /\ status[c] = "pool"
  BY Fresh DEF Fork
<1> QED BY <1>1 DEF Fork, Moved, Status, Waiting

LEMMA ForkedMoves ==
    ASSUME LuaTypes, LuaPlaces, NEW c, DispatchFork(c)
    PROVE  c \in Co /\ status[c] = "forked" /\ Moved(c, "run")
<1>1. c \in Co /\ status[c] = "forked"
  BY DEF DispatchFork, LuaPlaces, LuaTypes, QueueTypes
<1> QED BY <1>1 DEF DispatchFork, Moved, Status, Waiting

LEMMA ExitMoves ==
    ASSUME LuaTypes, LuaPlaces, CoExit
    PROVE  cur \in Co /\ Moved(cur, "pool")
BY Runner DEF CoExit, Moved, Status, Waiting

LEMMA RaiseMoves ==
    ASSUME LuaTypes, LuaPlaces, Raise
    PROVE  cur \in Co /\ Moved(cur, "dead")
BY Runner DEF Raise, Moved, Status, Waiting

(* The handlers that begin to wait. *)
LEMMA CallYields ==
    ASSUME LuaTypes, LuaPlaces, SkynetCall
    PROVE  cur \in Co /\ Yielded(cur, "call")
<1>1. cur \in Co /\ status[cur] = "run"
  BY Runner DEF SkynetCall, Yields
<1> QED BY <1>1 DEF SkynetCall, Yields, Yielded, Waiting

LEMMA SleepYields ==
    ASSUME LuaTypes, LuaPlaces, SkynetSleep
    PROVE  cur \in Co /\ Yielded(cur, "sleep")
<1>1. cur \in Co /\ status[cur] = "run"
  BY Runner DEF SkynetSleep, Yields
<1> QED BY <1>1 DEF SkynetSleep, Yields, Yielded, Waiting

LEMMA WaitYields ==
    ASSUME LuaTypes, LuaPlaces, SkynetWait
    PROVE  cur \in Co /\ Yielded(cur, "wait")
<1>1. cur \in Co /\ status[cur] = "run"
  BY Runner DEF SkynetWait, Yields
<1> QED BY <1>1 DEF SkynetWait, Yields, Yielded, Waiting

LEMMA TimeoutYields ==
    ASSUME LuaTypes, LuaPlaces, NEW c, Timeout(c)
    PROVE  c \in Co /\ Yielded(c, "timeout")
<1>1. c \in Co /\ status[c] = "pool"
  BY Fresh DEF Timeout
<1> QED BY <1>1 DEF Timeout, Yielded, Waiting

(* No coroutine that waits is forgotten. *)
LEMMA WaitsStep ==
    ASSUME LuaTypes, LuaPlaces, Waits, LuaNext
    PROVE  Waits'
<1>1. ASSUME LuaStart
      PROVE  Waits'
  BY <1>1 DEF LuaStart, Waits, runVars, waitVars
<1>2. ASSUME NEW r \in Request, NEW kind \in {"call", "send"}, NEW c \in Co, DispatchRequest(r, kind, c)
      PROVE  Waits'
  BY <1>2, RequestMoves, WaitsMoved
<1>3. ASSUME NEW s \in Session, DispatchTimer(s)
      PROVE  Waits'
  <2>1. session' = session
    BY <1>3 DEF DispatchTimer
  <2> QED BY <1>3, <2>1, TimerResumes, WaitsResumed, WaitsMissed
<1>4. ASSUME NEW s \in Session, DispatchResponse(s)
      PROVE  Waits'
  <2>1. session' = session
    BY <1>4 DEF DispatchResponse
  <2> QED BY <1>4, <2>1, ResponseResumes, WaitsResumed, WaitsMissed
<1>5. ASSUME NEW s \in Session, DispatchError(s)
      PROVE  Waits'
  BY <1>5 DEF DispatchError, Suspended, Waits, runVars, waitVars
<1>6. ASSUME NEW failed \in SetToSeqs(watching_session), DispatchExit(failed)
      PROVE  Waits'
  BY <1>6 DEF DispatchExit, Suspended, Waits, runVars, waitVars
<1>7. ASSUME DispatchOther
      PROVE  Waits'
  BY <1>7 DEF DispatchOther, Suspended, Waits, runVars, waitVars
<1>8. ASSUME SkynetCall
      PROVE  Waits'
  BY <1>8, CallYields, WaitsYielded
<1>9. ASSUME SkynetSleep
      PROVE  Waits'
  BY <1>9, SleepYields, WaitsYielded
<1>10. ASSUME SkynetWait
      PROVE  Waits'
  BY <1>10, WaitYields, WaitsYielded
<1>11. ASSUME NEW c \in Co, Timeout(c)
      PROVE  Waits'
  BY <1>11, TimeoutYields, WaitsYielded
<1>12. ASSUME NEW c \in Co, Fork(c)
      PROVE  Waits'
  BY <1>12, ForkMoves, WaitsMoved
<1>13. ASSUME NEW c \in Co, SkynetWakeup(c)
      PROVE  Waits'
  BY <1>13 DEF SkynetWakeup, Waits, runVars, waitVars
<1>14. ASSUME NEW ok \in BOOLEAN, Ret(ok)
      PROVE  Waits'
  BY <1>14 DEF Ret, Responds, Waits, runVars, waitVars
<1>15. ASSUME Response
      PROVE  Waits'
  BY <1>15 DEF Response, Waits, runVars, waitVars
<1>16. ASSUME NEW r \in Request, NEW how \in {"ok", "fail", "TEST"}, Closure(r, how)
      PROVE  Waits'
  BY <1>16 DEF Closure, Responds, Waits, runVars, waitVars
<1>17. ASSUME CoExit
      PROVE  Waits'
  BY <1>17, ExitMoves, WaitsMoved
<1>18. ASSUME Raise
      PROVE  Waits'
  BY <1>18, RaiseMoves, WaitsMoved
<1>19. ASSUME Quit
      PROVE  Waits'
  BY <1>19 DEF Quit, Waits, runVars, waitVars
<1>20. ASSUME DispatchWakeup
      PROVE  Waits'
  <2>1. session' = session
    BY <1>20 DEF DispatchWakeup
  <2> QED BY <1>20, <2>1, WakeupResumes, WaitsResumed, WaitsMissed
<1>21. ASSUME DispatchErrorQueue
      PROVE  Waits'
  <2>1. session' = session /\ Head(error_queue) \in Session
    BY <1>21, TailFacts DEF DispatchErrorQueue, LuaTypes, QueueTypes
  <2> QED BY <1>21, <2>1, ErrorResumes, WaitsResumed, WaitsMissed
<1>22. ASSUME SuspendReturns
      PROVE  Waits'
  BY <1>22 DEF SuspendReturns, Waits, runVars, waitVars
<1>23. ASSUME NEW c \in Co, DispatchFork(c)
      PROVE  Waits'
  BY <1>23, ForkedMoves, WaitsMoved
<1>24. ASSUME DispatchReturns
      PROVE  Waits'
  BY <1>24 DEF DispatchReturns, Waits, runVars, waitVars
<1> QED
  BY <1>1, <1>2, <1>3, <1>4, <1>5, <1>6, <1>7, <1>8, <1>9, <1>10, <1>11, <1>12,
     <1>13, <1>14, <1>15, <1>16, <1>17, <1>18, <1>19, <1>20, <1>21, <1>22, <1>23, <1>24
     DEF LuaNext, Dispatches, Body, Goes

-----------------------------------------------------------------------------
(* Where the coroutines are.                                               *)

(* One that waited is neither in the pool nor forked. *)
LEMMA PlacesResumed ==
    ASSUME LuaTypes, LuaPlaces, NEW c \in Co, NEW s, Resumed(c, s), UNCHANGED <<coroutine_pool, fork_queue>>
    PROVE  LuaPlaces'
<1>1. /\ cur' = c /\ status' = [status EXCEPT ![c] = "run"] /\ status \in [Co -> Status]
      /\ status[c] \in Waiting /\ coroutine_pool \in Seq(Co) /\ fork_queue \subseteq Co
  BY DEF Resumed, LuaTypes, RunTypes, QueueTypes
<1>2. \A d \in Co : status[d] \in {"pool", "forked"} => status'[d] = status[d]
  BY <1>1 DEF Waiting
<1>3. \A i \in DOMAIN coroutine_pool : coroutine_pool[i] \in Co
  BY <1>1
<1> QED BY <1>1, <1>2, <1>3 DEF LuaPlaces

(* Nobody moves. *)
LEMMA PlacesMissed ==
    ASSUME LuaPlaces, Missed, UNCHANGED <<coroutine_pool, fork_queue>>
    PROVE  LuaPlaces'
BY DEF LuaPlaces, Missed

(* One that is neither in the pool nor forked goes elsewhere. *)
LEMMA PlacesMoved ==
    ASSUME LuaTypes, LuaPlaces, NEW c \in Co, NEW w \in Status, status' = [status EXCEPT ![c] = w],
           status[c] \notin {"pool", "forked"}, UNCHANGED <<coroutine_pool, fork_queue>>, cur' = Nil
    PROVE  LuaPlaces'
<1>1. status \in [Co -> Status] /\ coroutine_pool \in Seq(Co) /\ fork_queue \subseteq Co
  BY DEF LuaTypes, RunTypes, QueueTypes
<1>2. \A d \in Co : status[d] \in {"pool", "forked"} => status'[d] = status[d]
  BY <1>1
<1>3. \A i \in DOMAIN coroutine_pool : coroutine_pool[i] \in Co
  BY <1>1
<1> QED BY <1>1, <1>2, <1>3 DEF LuaPlaces

(* One that was created gets its first state. *)
LEMMA PlacesCreated ==
    ASSUME LuaTypes, LuaPlaces, NEW c, CoCreate(c), NEW w \in Status \ {"pool"},
           status' = [status EXCEPT ![c] = w],
           fork_queue' = fork_queue \/ (w = "forked" /\ fork_queue' = fork_queue \cup {c}),
           cur' \in {cur, Nil} \/ (w = "run" /\ cur' = c)
    PROVE  LuaPlaces'
<1>1. /\ c \in Co /\ status[c] = "pool" /\ coroutine_pool' \in Seq(Co)
      /\ \A i \in DOMAIN coroutine_pool' : coroutine_pool'[i] # c /\ status[coroutine_pool'[i]] = "pool"
      /\ \A i, j \in DOMAIN coroutine_pool' : coroutine_pool'[i] = coroutine_pool'[j] => i = j
  BY Fresh, Created DEF LuaTypes, RunTypes
<1>2. status \in [Co -> Status] /\ fork_queue \subseteq Co /\ cur \in Co \cup {Nil}
  BY DEF LuaTypes, RunTypes, QueueTypes
<1>3. status'[c] = w /\ \A d \in Co : d # c => status'[d] = status[d]
  BY <1>1, <1>2
<1>4. \A i \in DOMAIN coroutine_pool' : status'[coroutine_pool'[i]] = "pool"
  BY <1>1, <1>3
<1>5. \A d \in fork_queue' : status'[d] = "forked"
  BY <1>1, <1>2, <1>3 DEF LuaPlaces
<1>6. cur' # Nil => status'[cur'] = "run"
  BY <1>1, <1>2, <1>3 DEF LuaPlaces
<1> QED BY <1>1, <1>4, <1>5, <1>6 DEF LuaPlaces

(* A coroutine is in the pool, forked or running when its state says so. *)
LEMMA PlacesStep ==
    ASSUME LuaTypes, LuaPlaces, Waits, LuaNext
    PROVE  LuaPlaces'
<1>1. ASSUME LuaStart
      PROVE  LuaPlaces'
  BY <1>1 DEF LuaStart, LuaPlaces, LuaTypes, RunTypes, runVars, queueVars
<1>2. ASSUME NEW r \in Request, NEW kind \in {"call", "send"}, NEW c \in Co, DispatchRequest(r, kind, c)
      PROVE  LuaPlaces'
  <2>1. /\ CoCreate(c) /\ status' = [status EXCEPT ![c] = "run"]
        /\ fork_queue' = fork_queue /\ cur' = c
    BY <1>2 DEF DispatchRequest, Runs, queueVars
  <2> QED BY <2>1, PlacesCreated DEF Status, Waiting
<1>3. ASSUME NEW s \in Session, DispatchTimer(s)
      PROVE  LuaPlaces'
  <2>1. UNCHANGED <<coroutine_pool, fork_queue>>
    BY <1>3 DEF DispatchTimer, queueVars
  <2> QED BY <1>3, <2>1, TimerResumes, PlacesResumed, PlacesMissed
<1>4. ASSUME NEW s \in Session, DispatchResponse(s)
      PROVE  LuaPlaces'
  <2>1. UNCHANGED <<coroutine_pool, fork_queue>>
    BY <1>4 DEF DispatchResponse, queueVars
  <2> QED BY <1>4, <2>1, ResponseResumes, PlacesResumed, PlacesMissed
<1>5. ASSUME NEW s \in Session, DispatchError(s)
      PROVE  LuaPlaces'
  BY <1>5
     DEF DispatchError, Suspended, LuaPlaces, LuaTypes, RunTypes, runVars, queueVars
<1>6. ASSUME NEW failed \in SetToSeqs(watching_session), DispatchExit(failed)
      PROVE  LuaPlaces'
  BY <1>6
     DEF DispatchExit, Suspended, LuaPlaces, LuaTypes, RunTypes, runVars, queueVars
<1>7. ASSUME DispatchOther
      PROVE  LuaPlaces'
  BY <1>7
     DEF DispatchOther, Suspended, LuaPlaces, LuaTypes, RunTypes, runVars, queueVars
<1>8. ASSUME SkynetCall
      PROVE  LuaPlaces'
  <2>1. /\ cur \in Co /\ status[cur] = "run" /\ status' = [status EXCEPT ![cur] = "call"]
        /\ UNCHANGED <<coroutine_pool, fork_queue>> /\ cur' = Nil
    BY <1>8, Runner DEF SkynetCall, Yields, Suspended, queueVars
  <2> QED BY <2>1, PlacesMoved DEF Status, Waiting
<1>9. ASSUME SkynetSleep
      PROVE  LuaPlaces'
  <2>1. /\ cur \in Co /\ status[cur] = "run" /\ status' = [status EXCEPT ![cur] = "sleep"]
        /\ UNCHANGED <<coroutine_pool, fork_queue>> /\ cur' = Nil
    BY <1>9, Runner DEF SkynetSleep, Yields, Suspended, queueVars
  <2> QED BY <2>1, PlacesMoved DEF Status, Waiting
<1>10. ASSUME SkynetWait
      PROVE  LuaPlaces'
  <2>1. /\ cur \in Co /\ status[cur] = "run" /\ status' = [status EXCEPT ![cur] = "wait"]
        /\ UNCHANGED <<coroutine_pool, fork_queue>> /\ cur' = Nil
    BY <1>10, Runner DEF SkynetWait, Yields, Suspended, queueVars
  <2> QED BY <2>1, PlacesMoved DEF Status, Waiting
<1>11. ASSUME NEW c \in Co, Timeout(c)
      PROVE  LuaPlaces'
  <2>1. /\ CoCreate(c) /\ status' = [status EXCEPT ![c] = "timeout"]
        /\ fork_queue' = fork_queue /\ cur' = cur
    BY <1>11 DEF Timeout, queueVars
  <2> QED BY <2>1, PlacesCreated DEF Status, Waiting
<1>12. ASSUME NEW c \in Co, Fork(c)
      PROVE  LuaPlaces'
  <2>1. /\ CoCreate(c) /\ status' = [status EXCEPT ![c] = "forked"]
        /\ fork_queue' = fork_queue \cup {c} /\ cur' = cur
    BY <1>12 DEF Fork
  <2> QED BY <2>1, PlacesCreated DEF Status, Waiting
<1>13. ASSUME NEW c \in Co, SkynetWakeup(c)
      PROVE  LuaPlaces'
  BY <1>13 DEF SkynetWakeup, LuaPlaces, LuaTypes, RunTypes, runVars, queueVars
<1>14. ASSUME NEW ok \in BOOLEAN, Ret(ok)
      PROVE  LuaPlaces'
  BY <1>14 DEF Ret, Responds, LuaPlaces, LuaTypes, RunTypes, runVars, queueVars
<1>15. ASSUME Response
      PROVE  LuaPlaces'
  BY <1>15 DEF Response, LuaPlaces, LuaTypes, RunTypes, runVars, queueVars
<1>16. ASSUME NEW r \in Request, NEW how \in {"ok", "fail", "TEST"}, Closure(r, how)
      PROVE  LuaPlaces'
  BY <1>16 DEF Closure, Responds, LuaPlaces, LuaTypes, RunTypes, runVars, queueVars
<1>17. ASSUME CoExit
      PROVE  LuaPlaces'
  <2>1. /\ cur \in Co /\ status[cur] = "run" /\ status' = [status EXCEPT ![cur] = "pool"]
        /\ coroutine_pool' = Append(coroutine_pool, cur) /\ fork_queue' = fork_queue /\ cur' = Nil
    BY <1>17, Runner DEF CoExit, Suspended, queueVars
  <2>2. status \in [Co -> Status] /\ coroutine_pool \in Seq(Co) /\ fork_queue \subseteq Co
    BY DEF LuaTypes, RunTypes, QueueTypes
  <2>3. status'[cur] = "pool" /\ \A d \in Co : d # cur => status'[d] = status[d]
    BY <2>1, <2>2
  <2>4. \A i \in DOMAIN coroutine_pool' :
           IF i = Len(coroutine_pool) + 1 THEN coroutine_pool'[i] = cur
           ELSE i \in DOMAIN coroutine_pool /\ coroutine_pool'[i] = coroutine_pool[i]
    BY <2>1, <2>2, AppendFacts
  <2>5. \A i \in DOMAIN coroutine_pool :
         /\ coroutine_pool[i] \in Co /\ coroutine_pool[i] # cur
         /\ status[coroutine_pool[i]] = "pool"
    BY <2>1, <2>2 DEF LuaPlaces
  <2>6. \A i \in DOMAIN coroutine_pool' : status'[coroutine_pool'[i]] = "pool"
    BY <2>3, <2>4, <2>5
  <2>7. \A i, j \in DOMAIN coroutine_pool' : coroutine_pool'[i] = coroutine_pool'[j] => i = j
    BY <2>4, <2>5 DEF LuaPlaces
  <2>8. \A d \in fork_queue' : status'[d] = "forked"
    BY <2>1, <2>2, <2>3 DEF LuaPlaces
  <2> QED BY <2>1, <2>6, <2>7, <2>8 DEF LuaPlaces
<1>18. ASSUME Raise
      PROVE  LuaPlaces'
  <2>1. /\ cur \in Co /\ status[cur] = "run" /\ status' = [status EXCEPT ![cur] = "dead"]
        /\ UNCHANGED <<coroutine_pool, fork_queue>> /\ cur' = Nil
    BY <1>18, Runner DEF Raise, Unwinds, queueVars
  <2> QED BY <2>1, PlacesMoved DEF Status, Waiting
<1>19. ASSUME Quit
      PROVE  LuaPlaces'
  BY <1>19 DEF Quit, LuaPlaces, LuaTypes, RunTypes, runVars, queueVars
<1>20. ASSUME DispatchWakeup
      PROVE  LuaPlaces'
  <2>1. UNCHANGED <<coroutine_pool, fork_queue>>
    BY <1>20 DEF DispatchWakeup, queueVars
  <2> QED BY <1>20, <2>1, WakeupResumes, PlacesResumed, PlacesMissed
<1>21. ASSUME DispatchErrorQueue
      PROVE  LuaPlaces'
  <2>1. UNCHANGED <<coroutine_pool, fork_queue>>
    BY <1>21 DEF DispatchErrorQueue, queueVars
  <2> QED BY <1>21, <2>1, ErrorResumes, PlacesResumed, PlacesMissed
<1>22. ASSUME SuspendReturns
      PROVE  LuaPlaces'
  BY <1>22 DEF SuspendReturns, LuaPlaces, LuaTypes, RunTypes, runVars, queueVars
<1>23. ASSUME NEW c \in Co, DispatchFork(c)
      PROVE  LuaPlaces'
  <2>1. /\ c \in Co /\ status[c] = "forked" /\ status' = [status EXCEPT ![c] = "run"]
        /\ coroutine_pool' = coroutine_pool /\ fork_queue' = fork_queue \ {c} /\ cur' = c
    BY <1>23, ForkedMoves DEF DispatchFork, Runs
  <2>2. status \in [Co -> Status] /\ coroutine_pool \in Seq(Co) /\ fork_queue \subseteq Co
    BY DEF LuaTypes, RunTypes, QueueTypes
  <2>3. status'[c] = "run" /\ \A d \in Co : d # c => status'[d] = status[d]
    BY <2>1, <2>2
  <2>4. \A i \in DOMAIN coroutine_pool : coroutine_pool[i] \in Co
    BY <2>2
  <2> QED BY <2>1, <2>2, <2>3, <2>4 DEF LuaPlaces
<1>24. ASSUME DispatchReturns
      PROVE  LuaPlaces'
  BY <1>24 DEF DispatchReturns, LuaPlaces, LuaTypes, RunTypes, runVars, queueVars
<1> QED
  BY <1>1, <1>2, <1>3, <1>4, <1>5, <1>6, <1>7, <1>8, <1>9, <1>10, <1>11, <1>12,
     <1>13, <1>14, <1>15, <1>16, <1>17, <1>18, <1>19, <1>20, <1>21, <1>22, <1>23, <1>24
     DEF LuaNext, Dispatches, Body, Goes

-----------------------------------------------------------------------------
(* The queues that suspend serves.                                         *)

(* Nobody who was woken, and no call that failed, is left between messages. *)
LEMMA WokenStep ==
    ASSUME LuaTypes, LuaPlaces, Woken, LuaNext, ~disturbed'
    PROVE  Woken'
<1>1. ASSUME LuaStart
      PROVE  Woken'
  BY <1>1 DEF LuaStart, Woken, runVars, waitVars, queueVars
<1>2. ASSUME NEW r \in Request, NEW kind \in {"call", "send"}, NEW c \in Co, DispatchRequest(r, kind, c)
      PROVE  Woken'
  BY <1>2 DEF DispatchRequest, Runs, CoCreate, Woken, runVars, waitVars, queueVars
<1>3. ASSUME NEW s \in Session, DispatchTimer(s)
      PROVE  Woken'
  <2>1. /\ wakeup_queue = << >> /\ error_queue = << >> /\ wakeup_queue' = << >>
        /\ error_queue' = << >> /\ (phase' = "run" \/ (phase' = "fork" /\ frames' = 0))
    BY <1>3 DEF Woken, DispatchTimer, Resumes, Runs, Unwinds, queueVars
  <2> QED BY <2>1 DEF Woken
<1>4. ASSUME NEW s \in Session, DispatchResponse(s)
      PROVE  Woken'
  <2>1. /\ wakeup_queue = << >> /\ error_queue = << >> /\ wakeup_queue' = << >>
        /\ error_queue' = << >> /\ (phase' = "run" \/ (phase' = "fork" /\ frames' = 0))
    BY <1>4 DEF Woken, DispatchResponse, Resumes, Runs, Unwinds, queueVars
  <2> QED BY <2>1 DEF Woken
<1>5. ASSUME NEW s \in Session, DispatchError(s)
      PROVE  Woken'
  BY <1>5 DEF DispatchError, Suspended, Woken, runVars, waitVars, queueVars
<1>6. ASSUME NEW failed \in SetToSeqs(watching_session), DispatchExit(failed)
      PROVE  Woken'
  BY <1>6 DEF DispatchExit, Suspended, Woken, runVars, waitVars, queueVars
<1>7. ASSUME DispatchOther
      PROVE  Woken'
  BY <1>7 DEF DispatchOther, Suspended, Woken, runVars, waitVars, queueVars
<1>8. ASSUME SkynetCall
      PROVE  Woken'
  BY <1>8 DEF SkynetCall, Yields, Suspended, Woken, runVars, waitVars, queueVars
<1>9. ASSUME SkynetSleep
      PROVE  Woken'
  <2>1. /\ cur \in Co /\ phase' = "wake" /\ wakeup_queue' = wakeup_queue /\ session + 1 # 0
        /\ sleep_session' = [sleep_session EXCEPT ![cur] = session + 1] /\ disturbed' = disturbed
    BY <1>9, Runner DEF SkynetSleep, Yields, Suspended, queueVars, LuaTypes, WaitTypes, Session
  <2>2. sleep_session \in [Co -> Session \cup {0}] /\ wakeup_queue \in Seq(Co)
    BY DEF LuaTypes, WaitTypes, QueueTypes
  <2>3. \A d \in Co : sleep_session[d] # 0 => sleep_session'[d] # 0
    BY <2>1, <2>2
  <2>4. \A i \in DOMAIN wakeup_queue : wakeup_queue[i] \in Co
    BY <2>2
  <2> QED BY <2>1, <2>3, <2>4 DEF Woken
<1>10. ASSUME SkynetWait
      PROVE  Woken'
  <2>1. /\ cur \in Co /\ phase' = "wake" /\ wakeup_queue' = wakeup_queue /\ session + 1 # 0
        /\ sleep_session' = [sleep_session EXCEPT ![cur] = session + 1] /\ disturbed' = disturbed
    BY <1>10, Runner DEF SkynetWait, Yields, Suspended, queueVars, LuaTypes, WaitTypes, Session
  <2>2. sleep_session \in [Co -> Session \cup {0}] /\ wakeup_queue \in Seq(Co)
    BY DEF LuaTypes, WaitTypes, QueueTypes
  <2>3. \A d \in Co : sleep_session[d] # 0 => sleep_session'[d] # 0
    BY <2>1, <2>2
  <2>4. \A i \in DOMAIN wakeup_queue : wakeup_queue[i] \in Co
    BY <2>2
  <2> QED BY <2>1, <2>3, <2>4 DEF Woken
<1>11. ASSUME NEW c \in Co, Timeout(c)
      PROVE  Woken'
  BY <1>11 DEF Timeout, Woken, runVars, waitVars, queueVars
<1>12. ASSUME NEW c \in Co, Fork(c)
      PROVE  Woken'
  BY <1>12 DEF Fork, Woken, runVars, waitVars, queueVars
<1>13. ASSUME NEW c \in Co, SkynetWakeup(c)
      PROVE  Woken'
  <2>1. /\ wakeup_queue' = Append(wakeup_queue, c) /\ sleep_session' = sleep_session /\ sleep_session[c] # 0
        /\ phase' = "run" /\ ~disturbed /\ ~Contains(wakeup_queue, c)
    BY <1>13 DEF SkynetWakeup, runVars, waitVars
  <2>2. wakeup_queue \in Seq(Co)
    BY DEF LuaTypes, QueueTypes
  <2>3. \A i \in DOMAIN wakeup_queue' :
           IF i = Len(wakeup_queue) + 1 THEN wakeup_queue'[i] = c
           ELSE i \in DOMAIN wakeup_queue /\ wakeup_queue'[i] = wakeup_queue[i]
    BY <2>1, <2>2, AppendFacts
  <2>4. \A i \in DOMAIN wakeup_queue : wakeup_queue[i] # c
    BY <2>1, <2>2 DEF Contains
  <2>5. \A i \in DOMAIN wakeup_queue' : sleep_session'[wakeup_queue'[i]] # 0
    BY <2>1, <2>3 DEF Woken
  <2>6. \A i, j \in DOMAIN wakeup_queue' : wakeup_queue'[i] = wakeup_queue'[j] => i = j
    BY <2>1, <2>3, <2>4 DEF Woken
  <2> QED BY <2>1, <2>5, <2>6 DEF Woken
<1>14. ASSUME NEW ok \in BOOLEAN, Ret(ok)
      PROVE  Woken'
  BY <1>14 DEF Ret, Responds, Woken, runVars, waitVars, queueVars
<1>15. ASSUME Response
      PROVE  Woken'
  BY <1>15 DEF Response, Woken, runVars, waitVars, queueVars
<1>16. ASSUME NEW r \in Request, NEW how \in {"ok", "fail", "TEST"}, Closure(r, how)
      PROVE  Woken'
  BY <1>16 DEF Closure, Responds, Woken, runVars, waitVars, queueVars
<1>17. ASSUME CoExit
      PROVE  Woken'
  BY <1>17 DEF CoExit, Suspended, Woken, runVars, waitVars, queueVars
<1>18. ASSUME Raise
      PROVE  Woken'
  BY <1>18 DEF Raise, Unwinds, Woken, runVars, waitVars, queueVars
<1>19. ASSUME Quit
      PROVE  Woken'
  BY <1>19 DEF Quit, Woken, runVars, waitVars, queueVars
<1>20. ASSUME DispatchWakeup
      PROVE  Woken'
  <2>1. ~disturbed /\ wakeup_queue \in Seq(Co) /\ sleep_session \in [Co -> Session \cup {0}]
    BY <1>20 DEF DispatchWakeup, LuaTypes, WaitTypes, QueueTypes
  <2>2. CASE wakeup_queue = << >>
    BY <1>20, <2>1, <2>2 DEF DispatchWakeup, Woken
  <2>3. CASE wakeup_queue # << >>
    <3> DEFINE c == Head(wakeup_queue)
    <3>1. /\ c \in Co /\ c = wakeup_queue[1] /\ 1 \in DOMAIN wakeup_queue
          /\ \A i \in DOMAIN Tail(wakeup_queue) :
                i \in Nat /\ i # 0 /\ i + 1 \in DOMAIN wakeup_queue /\ Tail(wakeup_queue)[i] = wakeup_queue[i + 1]
      BY <2>1, <2>3, TailFacts
    <3>2. sleep_session[c] # 0
      BY <2>1, <3>1 DEF Woken
    <3>3. /\ wakeup_queue' = Tail(wakeup_queue) /\ phase' = "run"
          /\ sleep_session' = [sleep_session EXCEPT ![c] = 0]
      BY <1>20, <2>3, <3>2 DEF DispatchWakeup, Resumes, Runs
    <3> HIDE DEF c
    <3>4. \A i \in DOMAIN wakeup_queue' :
           /\ wakeup_queue'[i] # c /\ wakeup_queue'[i] \in Co
           /\ sleep_session[wakeup_queue'[i]] # 0
      <4> SUFFICES ASSUME NEW i \in DOMAIN wakeup_queue'
                   PROVE  /\ wakeup_queue'[i] # c /\ wakeup_queue'[i] \in Co
                          /\ sleep_session[wakeup_queue'[i]] # 0
        OBVIOUS
      <4>1. i \in Nat /\ i # 0 /\ i + 1 \in DOMAIN wakeup_queue /\ wakeup_queue'[i] = wakeup_queue[i + 1]
        BY <3>1, <3>3
      <4>2. wakeup_queue[i + 1] # c
        BY <2>1, <3>1, <4>1 DEF Woken
      <4> QED BY <2>1, <4>1, <4>2 DEF Woken
    <3>5. \A i, j \in DOMAIN wakeup_queue' : wakeup_queue'[i] = wakeup_queue'[j] => i = j
      <4> SUFFICES ASSUME NEW i \in DOMAIN wakeup_queue', NEW j \in DOMAIN wakeup_queue',
                          wakeup_queue'[i] = wakeup_queue'[j]
                   PROVE  i = j
        OBVIOUS
      <4>1. /\ i \in Nat /\ i + 1 \in DOMAIN wakeup_queue /\ wakeup_queue'[i] = wakeup_queue[i + 1]
            /\ j \in Nat /\ j + 1 \in DOMAIN wakeup_queue /\ wakeup_queue'[j] = wakeup_queue[j + 1]
        BY <3>1, <3>3
      <4>2. i + 1 = j + 1
        BY <2>1, <4>1 DEF Woken
      <4> QED BY <4>1, <4>2
    <3>6. \A i \in DOMAIN wakeup_queue' : sleep_session'[wakeup_queue'[i]] # 0
      BY <2>1, <3>3, <3>4
    <3> QED BY <3>3, <3>5, <3>6 DEF Woken
  <2> QED BY <2>2, <2>3
<1>21. ASSUME DispatchErrorQueue
      PROVE  Woken'
  <2>1. ~disturbed /\ wakeup_queue = << >> /\ wakeup_queue' = << >> /\ phase' = "run"
    BY <1>21 DEF DispatchErrorQueue, Resumes, Runs, Unwinds, Woken
  <2> QED BY <2>1 DEF Woken
<1>22. ASSUME SuspendReturns
      PROVE  Woken'
  BY <1>22 DEF SuspendReturns, Woken, LuaTypes, RunTypes, waitVars, queueVars
<1>23. ASSUME NEW c \in Co, DispatchFork(c)
      PROVE  Woken'
  BY <1>23 DEF DispatchFork, Runs, Woken, runVars, waitVars, queueVars
<1>24. ASSUME DispatchReturns
      PROVE  Woken'
  BY <1>24 DEF DispatchReturns, Woken, runVars, waitVars, queueVars
<1> QED
  BY <1>1, <1>2, <1>3, <1>4, <1>5, <1>6, <1>7, <1>8, <1>9, <1>10, <1>11, <1>12,
     <1>13, <1>14, <1>15, <1>16, <1>17, <1>18, <1>19, <1>20, <1>21, <1>22, <1>23, <1>24
     DEF LuaNext, Dispatches, Body, Goes

-----------------------------------------------------------------------------
(* Requests and their answers.                                             *)

(* A step that does not touch the requests and returns nobody to the pool. *)
LEMMA AnswersKept ==
    ASSUME LuaTypes, Answers, UNCHANGED <<handling, session_response, unresponse, requested, responses>>,
           \A c \in Co : status'[c] = "pool" => status[c] = "pool", phase' # "gone"
    PROVE  Answers'
BY DEF Answers

(* No request is answered twice or left to an exit. *)
LEMMA AnswersStep ==
    ASSUME LuaTypes, LuaPlaces, Waits, Answers, LuaNext
    PROVE  Answers'
<1>1. ASSUME LuaStart
      PROVE  Answers'
  <2>1. UNCHANGED <<handling, session_response, unresponse, requested, responses>> /\ phase' # "gone"
    BY <1>1 DEF LuaStart, serveVars
  <2>2. \A c \in Co : status'[c] = "pool" => status[c] = "pool"
    BY <1>1 DEF LuaStart, runVars
  <2> QED BY <2>1, <2>2, AnswersKept
<1>2. ASSUME NEW r \in Request, NEW kind \in {"call", "send"}, NEW c \in Co, DispatchRequest(r, kind, c)
      PROVE  Answers'
  <2>1. c \in Co /\ status[c] = "pool" /\ status' = [status EXCEPT ![c] = "run"]
    BY <1>2, Fresh DEF DispatchRequest
  <2>2. /\ requested[r] = "none" /\ requested' = [requested EXCEPT ![r] = kind] /\ kind # "none"
        /\ handling' = [handling EXCEPT ![c] = r] /\ phase' = "run" /\ r # 0
        /\ UNCHANGED <<session_response, unresponse, responses>>
    BY <1>2, LuaAssumption DEF DispatchRequest, Runs, Request
  <2>3. /\ handling \in [Co -> Request \cup {0}] /\ requested \in [Request -> {"none", "call", "send"}]
        /\ status \in [Co -> Status] /\ unresponse \subseteq Request /\ 0 \notin Request
    BY LuaAssumption DEF LuaTypes, RunTypes, ServeTypes, Request
  <2>4. handling[c] = 0 /\ (\A d \in Co : handling[d] # r) /\ r \notin unresponse /\ responses[r] = 0
    BY <2>1, <2>2 DEF Answers
  <2>5. handling'[c] = r /\ \A d \in Co : d # c => handling'[d] = handling[d]
    BY <2>1, <2>2, <2>3
  <2>6. requested'[r] = kind /\ \A q \in Request : q # r => requested'[q] = requested[q]
    BY <2>2, <2>3
  <2>7. status'[c] = "run" /\ \A d \in Co : d # c => status'[d] = status[d]
    BY <2>1, <2>3
  <2>8. \A d, e \in Co : handling'[d] = handling'[e] /\ handling'[d] # 0 => d = e
    BY <2>4, <2>5 DEF Answers
  <2>9. \A d \in Co : handling'[d] # 0 => requested'[handling'[d]] # "none"
    BY <2>2, <2>3, <2>4, <2>5, <2>6 DEF Answers
  <2>10. \A d \in Co :
         /\ status'[d] = "pool" => handling'[d] = 0
         /\ handling'[d] \in unresponse' => d \in session_response'
    BY <2>2, <2>4, <2>5, <2>7 DEF Answers
  <2>11. \A q \in Request :
            /\ responses'[q] <= 1
            /\ responses'[q] = 1 =>
                  q \notin unresponse' /\ \A d \in Co : handling'[d] = q => d \in session_response'
            /\ requested'[q] = "none" => responses'[q] = 0 /\ q \notin unresponse'
    BY <2>2, <2>4, <2>5, <2>6 DEF Answers
  <2>12. phase' # "gone"
    BY <2>2
  <2> QED BY <2>8, <2>9, <2>10, <2>11, <2>12 DEF Answers
<1>3. ASSUME NEW s \in Session, DispatchTimer(s)
      PROVE  Answers'
  <2>1. UNCHANGED <<handling, session_response, unresponse, requested, responses>> /\ phase' # "gone"
    BY <1>3 DEF DispatchTimer, Resumes, Runs, Unwinds, serveVars
  <2>2. \A d \in Co : status'[d] = "pool" => status[d] = "pool"
    BY <1>3, TimerResumes DEF Missed, Resumed, LuaTypes, RunTypes
  <2> QED BY <2>1, <2>2, AnswersKept
<1>4. ASSUME NEW s \in Session, DispatchResponse(s)
      PROVE  Answers'
  <2>1. UNCHANGED <<handling, session_response, unresponse, requested, responses>> /\ phase' # "gone"
    BY <1>4 DEF DispatchResponse, Resumes, Runs, Unwinds, serveVars
  <2>2. \A d \in Co : status'[d] = "pool" => status[d] = "pool"
    BY <1>4, ResponseResumes DEF Missed, Resumed, LuaTypes, RunTypes
  <2> QED BY <2>1, <2>2, AnswersKept
<1>5. ASSUME NEW s \in Session, DispatchError(s)
      PROVE  Answers'
  <2>1. UNCHANGED <<handling, session_response, unresponse, requested, responses>> /\ phase' # "gone"
    BY <1>5 DEF DispatchError, Suspended, serveVars
  <2>2. \A c \in Co : status'[c] = "pool" => status[c] = "pool"
    BY <1>5 DEF DispatchError, Suspended, runVars
  <2> QED BY <2>1, <2>2, AnswersKept
<1>6. ASSUME NEW failed \in SetToSeqs(watching_session), DispatchExit(failed)
      PROVE  Answers'
  <2>1. UNCHANGED <<handling, session_response, unresponse, requested, responses>> /\ phase' # "gone"
    BY <1>6 DEF DispatchExit, Suspended, serveVars
  <2>2. \A c \in Co : status'[c] = "pool" => status[c] = "pool"
    BY <1>6 DEF DispatchExit, Suspended, runVars
  <2> QED BY <2>1, <2>2, AnswersKept
<1>7. ASSUME DispatchOther
      PROVE  Answers'
  <2>1. UNCHANGED <<handling, session_response, unresponse, requested, responses>> /\ phase' # "gone"
    BY <1>7 DEF DispatchOther, Suspended, serveVars
  <2>2. \A c \in Co : status'[c] = "pool" => status[c] = "pool"
    BY <1>7 DEF DispatchOther, Suspended, runVars
  <2> QED BY <2>1, <2>2, AnswersKept
<1>8. ASSUME SkynetCall
      PROVE  Answers'
  <2>1. UNCHANGED <<handling, session_response, unresponse, requested, responses>> /\ phase' # "gone"
    BY <1>8 DEF SkynetCall, Yields, Suspended, serveVars
  <2>2. \A d \in Co : status'[d] = "pool" => status[d] = "pool"
    BY <1>8, CallYields DEF Yielded, LuaTypes, RunTypes, Waiting
  <2> QED BY <2>1, <2>2, AnswersKept
<1>9. ASSUME SkynetSleep
      PROVE  Answers'
  <2>1. UNCHANGED <<handling, session_response, unresponse, requested, responses>> /\ phase' # "gone"
    BY <1>9 DEF SkynetSleep, Yields, Suspended, serveVars
  <2>2. \A d \in Co : status'[d] = "pool" => status[d] = "pool"
    BY <1>9, SleepYields DEF Yielded, LuaTypes, RunTypes, Waiting
  <2> QED BY <2>1, <2>2, AnswersKept
<1>10. ASSUME SkynetWait
      PROVE  Answers'
  <2>1. UNCHANGED <<handling, session_response, unresponse, requested, responses>> /\ phase' # "gone"
    BY <1>10 DEF SkynetWait, Yields, Suspended, serveVars
  <2>2. \A d \in Co : status'[d] = "pool" => status[d] = "pool"
    BY <1>10, WaitYields DEF Yielded, LuaTypes, RunTypes, Waiting
  <2> QED BY <2>1, <2>2, AnswersKept
<1>11. ASSUME NEW c \in Co, Timeout(c)
      PROVE  Answers'
  <2>1. UNCHANGED <<handling, session_response, unresponse, requested, responses>> /\ phase' # "gone"
    BY <1>11 DEF Timeout, serveVars
  <2>2. \A d \in Co : status'[d] = "pool" => status[d] = "pool"
    BY <1>11, TimeoutYields DEF Yielded, LuaTypes, RunTypes, Waiting
  <2> QED BY <2>1, <2>2, AnswersKept
<1>12. ASSUME NEW c \in Co, Fork(c)
      PROVE  Answers'
  <2>1. UNCHANGED <<handling, session_response, unresponse, requested, responses>> /\ phase' # "gone"
    BY <1>12 DEF Fork, serveVars
  <2>2. \A d \in Co : status'[d] = "pool" => status[d] = "pool"
    BY <1>12, ForkMoves DEF Moved, LuaTypes, RunTypes, Waiting
  <2> QED BY <2>1, <2>2, AnswersKept
<1>13. ASSUME NEW c \in Co, SkynetWakeup(c)
      PROVE  Answers'
  <2>1. UNCHANGED <<handling, session_response, unresponse, requested, responses>> /\ phase' # "gone"
    BY <1>13 DEF SkynetWakeup, runVars, serveVars
  <2>2. \A d \in Co : status'[d] = "pool" => status[d] = "pool"
    BY <1>13 DEF SkynetWakeup, runVars
  <2> QED BY <2>1, <2>2, AnswersKept
<1>14. ASSUME NEW ok \in BOOLEAN, Ret(ok)
      PROVE  Answers'
  <2> DEFINE r == handling[cur]
  <2>1. cur \in Co /\ status[cur] = "run"
    BY <1>14, Runner DEF Ret
  <2>2. /\ r # 0 /\ cur \notin session_response /\ session_response' = session_response \cup {cur}
        /\ UNCHANGED <<handling, status, unresponse, requested>> /\ phase' # "gone"
    BY <1>14 DEF Ret, runVars
  <2>3. responses' = responses \/ responses' = [responses EXCEPT ![r] = responses[r] + 1]
    BY <1>14 DEF Ret, Responds
  <2>4. r \in Request /\ responses \in [Request -> Nat] /\ unresponse \subseteq Request
    BY <2>1, <2>2 DEF LuaTypes, ServeTypes
  <2>5. responses[r] = 0 /\ r \notin unresponse /\ requested[r] # "none"
    <3>1. responses[r] # 1 /\ responses[r] <= 1 /\ r \notin unresponse /\ requested[r] # "none"
      BY <2>1, <2>2, <2>4 DEF Answers
    <3>2. responses[r] \in Nat
      BY <2>4
    <3> QED BY <3>1, <3>2
  <2>6. \A d \in Co : handling[d] = r => d = cur
    BY <2>1, <2>2 DEF Answers
  <2> HIDE DEF r
  <2>7. \A q \in Request : responses'[q] = responses[q] \/ (q = r /\ responses'[q] = 1)
    BY <2>3, <2>4, <2>5
  <2>8. \A q \in Request :
            /\ responses'[q] <= 1
            /\ responses'[q] = 1 =>
                  q \notin unresponse' /\ \A d \in Co : handling'[d] = q => d \in session_response'
            /\ requested'[q] = "none" => responses'[q] = 0 /\ q \notin unresponse'
    BY <2>2, <2>5, <2>6, <2>7 DEF Answers
  <2> QED BY <2>2, <2>8 DEF Answers
<1>15. ASSUME Response
      PROVE  Answers'
  <2> DEFINE r == handling[cur]
  <2>1. cur \in Co /\ status[cur] = "run"
    BY <1>15, Runner DEF Response
  <2>2. /\ r # 0 /\ cur \notin session_response /\ session_response' = session_response \cup {cur}
        /\ unresponse' = unresponse \cup {r}
        /\ UNCHANGED <<handling, status, responses, requested>> /\ phase' # "gone"
    BY <1>15 DEF Response, runVars
  <2>3. r \in Request /\ requested[r] # "none" /\ responses[r] # 1
    BY <2>1, <2>2 DEF LuaTypes, ServeTypes, Answers
  <2>4. \A d \in Co : handling[d] = r => d = cur
    BY <2>1, <2>2 DEF Answers
  <2> HIDE DEF r
  <2>5. \A d \in Co : handling'[d] \in unresponse' => d \in session_response'
    BY <2>2, <2>4 DEF Answers
  <2>6. \A q \in Request :
            /\ responses'[q] <= 1
            /\ responses'[q] = 1 =>
                  q \notin unresponse' /\ \A d \in Co : handling'[d] = q => d \in session_response'
            /\ requested'[q] = "none" => responses'[q] = 0 /\ q \notin unresponse'
    BY <2>2, <2>3 DEF Answers
  <2> QED BY <2>2, <2>5, <2>6 DEF Answers
<1>16. ASSUME NEW r \in Request, NEW how \in {"ok", "fail", "TEST"}, Closure(r, how)
      PROVE  Answers'
  <2>1. /\ r \in unresponse /\ unresponse' = unresponse \ {r} /\ phase' # "gone"
        /\ UNCHANGED <<handling, status, session_response, requested>>
    BY <1>16 DEF Closure, runVars
  <2>2. responses' = responses \/ responses' = [responses EXCEPT ![r] = responses[r] + 1]
    BY <1>16 DEF Closure, Responds
  <2>3. responses \in [Request -> Nat] /\ responses[r] \in Nat
    BY DEF LuaTypes, ServeTypes
  <2>4. responses[r] <= 1 /\ responses[r] # 1 /\ requested[r] # "none"
    BY <2>1 DEF Answers
  <2>5. responses[r] = 0
    BY <2>3, <2>4
  <2>6. \A q \in Request : responses'[q] = responses[q] \/ (q = r /\ responses'[q] = 1)
    BY <2>2, <2>3, <2>5
  <2>7. \A d \in Co : handling[d] = r => d \in session_response
    BY <2>1 DEF Answers
  <2>8. \A q \in Request :
            /\ responses'[q] <= 1
            /\ responses'[q] = 1 =>
                  q \notin unresponse' /\ \A d \in Co : handling'[d] = q => d \in session_response'
            /\ requested'[q] = "none" => responses'[q] = 0 /\ q \notin unresponse'
    BY <2>1, <2>4, <2>6, <2>7 DEF Answers
  <2> QED BY <2>1, <2>8 DEF Answers
<1>17. ASSUME CoExit
      PROVE  Answers'
  <2>1. cur \in Co /\ status[cur] = "run" /\ status' = [status EXCEPT ![cur] = "pool"]
    BY <1>17, Runner DEF CoExit
  <2>2. /\ handling' = [handling EXCEPT ![cur] = 0] /\ session_response' = session_response \ {cur}
        /\ UNCHANGED <<unresponse, requested, responses>> /\ phase' # "gone"
    BY <1>17 DEF CoExit, Suspended
  <2>3. /\ handling \in [Co -> Request \cup {0}] /\ status \in [Co -> Status]
        /\ unresponse \subseteq Request /\ 0 \notin Request
    BY LuaAssumption DEF LuaTypes, RunTypes, ServeTypes, Request
  <2>4. /\ handling'[cur] = 0 /\ \A d \in Co : d # cur => handling'[d] = handling[d]
        /\ \A d \in Co : d # cur => status'[d] = status[d]
    BY <2>1, <2>2, <2>3
  <2>5. \A d, e \in Co : handling'[d] = handling'[e] /\ handling'[d] # 0 => d = e
    BY <2>4 DEF Answers
  <2>6. \A d \in Co :
         /\ handling'[d] # 0 => requested'[handling'[d]] # "none"
         /\ status'[d] = "pool" => handling'[d] = 0
         /\ handling'[d] \in unresponse' => d \in session_response'
    BY <2>2, <2>3, <2>4 DEF Answers
  <2>7. \A q \in Request :
            /\ responses'[q] <= 1
            /\ responses'[q] = 1 =>
                  q \notin unresponse' /\ \A d \in Co : handling'[d] = q => d \in session_response'
            /\ requested'[q] = "none" => responses'[q] = 0 /\ q \notin unresponse'
    BY <2>2, <2>3, <2>4 DEF Answers
  <2>8. phase' # "gone"
    BY <2>2
  <2> QED BY <2>5, <2>6, <2>7, <2>8 DEF Answers
<1>18. ASSUME Raise
      PROVE  Answers'
  <2>1. cur \in Co /\ status[cur] = "run" /\ status' = [status EXCEPT ![cur] = "dead"]
    BY <1>18, Runner DEF Raise
  <2>2. /\ handling' = [handling EXCEPT ![cur] = 0] /\ session_response' = session_response
        /\ UNCHANGED <<unresponse, requested, responses>> /\ phase' # "gone"
    BY <1>18 DEF Raise, Unwinds
  <2>3. /\ handling \in [Co -> Request \cup {0}] /\ status \in [Co -> Status]
        /\ unresponse \subseteq Request /\ 0 \notin Request
    BY LuaAssumption DEF LuaTypes, RunTypes, ServeTypes, Request
  <2>4. /\ handling'[cur] = 0 /\ \A d \in Co : d # cur => handling'[d] = handling[d]
        /\ \A d \in Co : d # cur => status'[d] = status[d]
    BY <2>1, <2>2, <2>3
  <2>5. \A d, e \in Co : handling'[d] = handling'[e] /\ handling'[d] # 0 => d = e
    BY <2>4 DEF Answers
  <2>6. \A d \in Co :
         /\ handling'[d] # 0 => requested'[handling'[d]] # "none"
         /\ status'[d] = "pool" => handling'[d] = 0
         /\ handling'[d] \in unresponse' => d \in session_response'
    BY <2>2, <2>3, <2>4 DEF Answers
  <2>7. \A q \in Request :
            /\ responses'[q] <= 1
            /\ responses'[q] = 1 =>
                  q \notin unresponse' /\ \A d \in Co : handling'[d] = q => d \in session_response'
            /\ requested'[q] = "none" => responses'[q] = 0 /\ q \notin unresponse'
    BY <2>2, <2>3, <2>4 DEF Answers
  <2>8. phase' # "gone"
    BY <2>2
  <2> QED BY <2>5, <2>6, <2>7, <2>8 DEF Answers
<1>19. ASSUME Quit
      PROVE  Answers'
  <2>1. /\ UNCHANGED <<handling, status, session_response, requested, responses>>
        /\ unresponse' = {} /\ \A c \in Co : handling[c] # 0 /\ requested[handling[c]] = "call" => handling[c] \in errors'
    BY <1>19 DEF Quit
  <2> QED BY <2>1 DEF Answers
<1>20. ASSUME DispatchWakeup
      PROVE  Answers'
  <2>1. UNCHANGED <<handling, session_response, unresponse, requested, responses>> /\ phase' # "gone"
    BY <1>20 DEF DispatchWakeup, Resumes, Runs, serveVars
  <2>2. \A d \in Co : status'[d] = "pool" => status[d] = "pool"
    BY <1>20, WakeupResumes DEF Missed, Resumed, LuaTypes, RunTypes
  <2> QED BY <2>1, <2>2, AnswersKept
<1>21. ASSUME DispatchErrorQueue
      PROVE  Answers'
  <2>1. UNCHANGED <<handling, session_response, unresponse, requested, responses>> /\ phase' # "gone"
    BY <1>21 DEF DispatchErrorQueue, Resumes, Runs, Unwinds, serveVars
  <2>2. \A d \in Co : status'[d] = "pool" => status[d] = "pool"
    BY <1>21, ErrorResumes DEF Missed, Resumed, LuaTypes, RunTypes
  <2> QED BY <2>1, <2>2, AnswersKept
<1>22. ASSUME SuspendReturns
      PROVE  Answers'
  <2>1. UNCHANGED <<handling, session_response, unresponse, requested, responses>> /\ phase' # "gone"
    BY <1>22 DEF SuspendReturns, serveVars
  <2>2. \A c \in Co : status'[c] = "pool" => status[c] = "pool"
    BY <1>22 DEF SuspendReturns, runVars
  <2> QED BY <2>1, <2>2, AnswersKept
<1>23. ASSUME NEW c \in Co, DispatchFork(c)
      PROVE  Answers'
  <2>1. UNCHANGED <<handling, session_response, unresponse, requested, responses>> /\ phase' # "gone"
    BY <1>23 DEF DispatchFork, Runs, serveVars
  <2>2. \A d \in Co : status'[d] = "pool" => status[d] = "pool"
    BY <1>23, ForkedMoves DEF Moved, LuaTypes, RunTypes, Waiting
  <2> QED BY <2>1, <2>2, AnswersKept
<1>24. ASSUME DispatchReturns
      PROVE  Answers'
  <2>1. UNCHANGED <<handling, session_response, unresponse, requested, responses>> /\ phase' # "gone"
    BY <1>24 DEF DispatchReturns, serveVars
  <2>2. \A c \in Co : status'[c] = "pool" => status[c] = "pool"
    BY <1>24 DEF DispatchReturns, runVars
  <2> QED BY <2>1, <2>2, AnswersKept
<1> QED
  BY <1>1, <1>2, <1>3, <1>4, <1>5, <1>6, <1>7, <1>8, <1>9, <1>10, <1>11, <1>12,
     <1>13, <1>14, <1>15, <1>16, <1>17, <1>18, <1>19, <1>20, <1>21, <1>22, <1>23, <1>24
     DEF LuaNext, Dispatches, Body, Goes

-----------------------------------------------------------------------------
(* How often the peer is watched.                                          *)

(* What is counted is finite. *)
LEMMA CountsFinite ==
    ASSUME LuaTypes
    PROVE  /\ IsFiniteSet(Handlers) /\ IsFiniteSet(unresponse)
           /\ Cardinality(Handlers) \in Nat /\ Cardinality(unresponse) \in Nat
<1>1. Handlers \in SUBSET Co /\ unresponse \in SUBSET Request
  BY DEF Handlers, LuaTypes, ServeTypes
<1>2. IsFiniteSet(Handlers) /\ IsFiniteSet(unresponse)
  BY <1>1, FS_Subset, SessionsFinite, LuaAssumption
<1> QED BY <1>2, FS_CardinalityType

(* A handler that ends. *)
LEMMA HandlerEnds ==
    ASSUME LuaTypes, NEW c \in Co, handling' = [handling EXCEPT ![c] = 0]
    PROVE  Cardinality(Handlers') = IF handling[c] # 0 THEN Cardinality(Handlers) - 1 ELSE Cardinality(Handlers)
<1>1. handling \in [Co -> Request \cup {0}]
  BY DEF LuaTypes, ServeTypes
<1>2. Handlers' = Handlers \ {c}
  BY <1>1 DEF Handlers
<1>3. Cardinality(Handlers \ {c}) = IF c \in Handlers THEN Cardinality(Handlers) - 1 ELSE Cardinality(Handlers)
  BY CountsFinite, FS_RemoveElement
<1>4. c \in Handlers <=> handling[c] # 0
  BY DEF Handlers
<1> QED BY <1>2, <1>3, <1>4

(* The peer is watched for every request in hand and every answer deferred. *)
LEMMA WatchedStep ==
    ASSUME LuaTypes, LuaPlaces, Answers, Watched, LuaNext
    PROVE  Watched'
<1>1. ASSUME LuaStart
      PROVE  Watched'
  <2>1. phase # "gone" /\ UNCHANGED <<handling, unresponse, watching_service>>
    BY <1>1 DEF LuaStart, serveVars
  <2> QED BY <2>1 DEF Watched, Handlers
<1>2. ASSUME NEW r \in Request, NEW kind \in {"call", "send"}, NEW c \in Co, DispatchRequest(r, kind, c)
      PROVE  Watched'
  <2>1. /\ phase # "gone" /\ handling' = [handling EXCEPT ![c] = r] /\ unresponse' = unresponse
        /\ watching_service' = watching_service + 1
    BY <1>2 DEF DispatchRequest
  <2>2. handling[c] = 0 /\ r # 0 /\ handling \in [Co -> Request \cup {0}] /\ watching_service \in Int
    BY <1>2, Fresh, LuaAssumption DEF DispatchRequest, Answers, Request, LuaTypes, ServeTypes
  <2>3. Handlers' = Handlers \cup {c} /\ c \notin Handlers
    BY <2>1, <2>2 DEF Handlers
  <2>4. Cardinality(Handlers') = Cardinality(Handlers) + 1
    BY <2>3, CountsFinite, FS_AddElement
  <2> QED BY <2>1, <2>2, <2>4, CountsFinite DEF Watched
<1>3. ASSUME NEW s \in Session, DispatchTimer(s)
      PROVE  Watched'
  <2>1. phase # "gone" /\ UNCHANGED <<handling, unresponse, watching_service>>
    BY <1>3 DEF DispatchTimer, Resumes, Runs, Unwinds, serveVars
  <2> QED BY <2>1 DEF Watched, Handlers
<1>4. ASSUME NEW s \in Session, DispatchResponse(s)
      PROVE  Watched'
  <2>1. phase # "gone" /\ UNCHANGED <<handling, unresponse, watching_service>>
    BY <1>4 DEF DispatchResponse, Resumes, Runs, Unwinds, serveVars
  <2> QED BY <2>1 DEF Watched, Handlers
<1>5. ASSUME NEW s \in Session, DispatchError(s)
      PROVE  Watched'
  <2>1. phase # "gone" /\ UNCHANGED <<handling, unresponse, watching_service>>
    BY <1>5 DEF DispatchError, Suspended, serveVars
  <2> QED BY <2>1 DEF Watched, Handlers
<1>6. ASSUME NEW failed \in SetToSeqs(watching_session), DispatchExit(failed)
      PROVE  Watched'
  <2>1. phase # "gone" /\ UNCHANGED <<handling, unresponse, watching_service>>
    BY <1>6 DEF DispatchExit, Suspended, serveVars
  <2> QED BY <2>1 DEF Watched, Handlers
<1>7. ASSUME DispatchOther
      PROVE  Watched'
  <2>1. phase # "gone" /\ UNCHANGED <<handling, unresponse, watching_service>>
    BY <1>7 DEF DispatchOther, Suspended, serveVars
  <2> QED BY <2>1 DEF Watched, Handlers
<1>8. ASSUME SkynetCall
      PROVE  Watched'
  <2>1. phase # "gone" /\ UNCHANGED <<handling, unresponse, watching_service>>
    BY <1>8 DEF SkynetCall, Yields, Suspended, serveVars
  <2> QED BY <2>1 DEF Watched, Handlers
<1>9. ASSUME SkynetSleep
      PROVE  Watched'
  <2>1. phase # "gone" /\ UNCHANGED <<handling, unresponse, watching_service>>
    BY <1>9 DEF SkynetSleep, Yields, Suspended, serveVars
  <2> QED BY <2>1 DEF Watched, Handlers
<1>10. ASSUME SkynetWait
      PROVE  Watched'
  <2>1. phase # "gone" /\ UNCHANGED <<handling, unresponse, watching_service>>
    BY <1>10 DEF SkynetWait, Yields, Suspended, serveVars
  <2> QED BY <2>1 DEF Watched, Handlers
<1>11. ASSUME NEW c \in Co, Timeout(c)
      PROVE  Watched'
  <2>1. phase # "gone" /\ UNCHANGED <<handling, unresponse, watching_service>>
    BY <1>11 DEF Timeout, serveVars
  <2> QED BY <2>1 DEF Watched, Handlers
<1>12. ASSUME NEW c \in Co, Fork(c)
      PROVE  Watched'
  <2>1. phase # "gone" /\ UNCHANGED <<handling, unresponse, watching_service>>
    BY <1>12 DEF Fork, serveVars
  <2> QED BY <2>1 DEF Watched, Handlers
<1>13. ASSUME NEW c \in Co, SkynetWakeup(c)
      PROVE  Watched'
  <2>1. phase # "gone" /\ UNCHANGED <<handling, unresponse, watching_service>>
    BY <1>13 DEF SkynetWakeup, serveVars
  <2> QED BY <2>1 DEF Watched, Handlers
<1>14. ASSUME NEW ok \in BOOLEAN, Ret(ok)
      PROVE  Watched'
  <2>1. phase # "gone" /\ UNCHANGED <<handling, unresponse, watching_service>>
    BY <1>14 DEF Ret, Responds, serveVars
  <2> QED BY <2>1 DEF Watched, Handlers
<1>15. ASSUME Response
      PROVE  Watched'
  <2>1. /\ phase # "gone" /\ handling' = handling /\ unresponse' = unresponse \cup {handling[cur]}
        /\ watching_service' = watching_service + 1
    BY <1>15 DEF Response
  <2>2. Cardinality(unresponse') <= Cardinality(unresponse) + 1 /\ Cardinality(unresponse') \in Nat
    <3>1. IsFiniteSet(unresponse) /\ Cardinality(unresponse) \in Nat
      BY CountsFinite
    <3>2. Cardinality(unresponse \cup {handling[cur]}) =
             IF handling[cur] \in unresponse THEN Cardinality(unresponse) ELSE Cardinality(unresponse) + 1
      BY <3>1, FS_AddElement
    <3> QED BY <2>1, <3>1, <3>2
  <2>3. Handlers' = Handlers /\ watching_service \in Int
    BY <2>1 DEF Handlers, LuaTypes, ServeTypes
  <2> QED BY <2>1, <2>2, <2>3, CountsFinite DEF Watched
<1>16. ASSUME NEW r \in Request, NEW how \in {"ok", "fail", "TEST"}, Closure(r, how)
      PROVE  Watched'
  <2>1. /\ phase # "gone" /\ handling' = handling /\ r \in unresponse /\ unresponse' = unresponse \ {r}
        /\ watching_service' = watching_service - 1
    BY <1>16 DEF Closure
  <2>2. Cardinality(unresponse') = Cardinality(unresponse) - 1
    BY <2>1, CountsFinite, FS_RemoveElement
  <2>3. Handlers' = Handlers /\ watching_service \in Int
    BY <2>1 DEF Handlers, LuaTypes, ServeTypes
  <2> QED BY <2>1, <2>2, <2>3, CountsFinite DEF Watched
<1>17. ASSUME CoExit
      PROVE  Watched'
  <2>1. /\ phase # "gone" /\ cur \in Co /\ handling' = [handling EXCEPT ![cur] = 0] /\ unresponse' = unresponse
        /\ watching_service' = IF handling[cur] # 0 THEN watching_service - 1 ELSE watching_service
    BY <1>17, Runner DEF CoExit
  <2>2. Cardinality(Handlers') =
           IF handling[cur] # 0 THEN Cardinality(Handlers) - 1 ELSE Cardinality(Handlers)
    BY <2>1, HandlerEnds
  <2>3. watching_service \in Int
    BY DEF LuaTypes, ServeTypes
  <2> QED BY <2>1, <2>2, <2>3, CountsFinite DEF Watched
<1>18. ASSUME Raise
      PROVE  Watched'
  <2>1. /\ phase # "gone" /\ cur \in Co /\ handling' = [handling EXCEPT ![cur] = 0]
        /\ UNCHANGED <<unresponse, watching_service>>
    BY <1>18, Runner DEF Raise
  <2>2. Cardinality(Handlers') =
           IF handling[cur] # 0 THEN Cardinality(Handlers) - 1 ELSE Cardinality(Handlers)
    BY <2>1, HandlerEnds
  <2>3. watching_service \in Int
    BY DEF LuaTypes, ServeTypes
  <2> QED BY <2>1, <2>2, <2>3, CountsFinite DEF Watched
<1>19. ASSUME Quit
      PROVE  Watched'
  BY <1>19 DEF Quit, Watched
<1>20. ASSUME DispatchWakeup
      PROVE  Watched'
  <2>1. phase # "gone" /\ UNCHANGED <<handling, unresponse, watching_service>>
    BY <1>20 DEF DispatchWakeup, Resumes, Runs, serveVars
  <2> QED BY <2>1 DEF Watched, Handlers
<1>21. ASSUME DispatchErrorQueue
      PROVE  Watched'
  <2>1. phase # "gone" /\ UNCHANGED <<handling, unresponse, watching_service>>
    BY <1>21 DEF DispatchErrorQueue, Resumes, Runs, Unwinds, serveVars
  <2> QED BY <2>1 DEF Watched, Handlers
<1>22. ASSUME SuspendReturns
      PROVE  Watched'
  <2>1. phase # "gone" /\ UNCHANGED <<handling, unresponse, watching_service>>
    BY <1>22 DEF SuspendReturns, serveVars
  <2> QED BY <2>1 DEF Watched, Handlers
<1>23. ASSUME NEW c \in Co, DispatchFork(c)
      PROVE  Watched'
  <2>1. phase # "gone" /\ UNCHANGED <<handling, unresponse, watching_service>>
    BY <1>23 DEF DispatchFork, Runs, serveVars
  <2> QED BY <2>1 DEF Watched, Handlers
<1>24. ASSUME DispatchReturns
      PROVE  Watched'
  <2>1. phase # "gone" /\ UNCHANGED <<handling, unresponse, watching_service>>
    BY <1>24 DEF DispatchReturns, serveVars
  <2> QED BY <2>1 DEF Watched, Handlers
<1> QED
  BY <1>1, <1>2, <1>3, <1>4, <1>5, <1>6, <1>7, <1>8, <1>9, <1>10, <1>11, <1>12,
     <1>13, <1>14, <1>15, <1>16, <1>17, <1>18, <1>19, <1>20, <1>21, <1>22, <1>23, <1>24
     DEF LuaNext, Dispatches, Body, Goes

-----------------------------------------------------------------------------
(* Results.                                                                *)

(* The invariant holds at first, *)
LEMMA LuaStarts == LuaInit => LuaInv
<1> SUFFICES ASSUME LuaInit PROVE LuaInv
  OBVIOUS
<1>1. LuaTypes
  BY StartTypes
<1>2. coroutine_pool \in SetToSeqs(Co)
  BY OrderFacts, LuaAssumption DEF LuaInit
<1>3. coroutine_pool \in Seq(Co) /\ \A i, j \in DOMAIN coroutine_pool : coroutine_pool[i] = coroutine_pool[j] => i = j
  BY <1>2, OrderFacts, LuaAssumption
<1>4. LuaPlaces
  <2>1. status = [c \in Co |-> "pool"] /\ fork_queue = {} /\ cur = Nil
    BY DEF LuaInit
  <2>2. \A i \in DOMAIN coroutine_pool : coroutine_pool[i] \in Co
    BY <1>3
  <2> QED BY <1>3, <2>1, <2>2 DEF LuaPlaces
<1>5. Waits
  BY LuaAssumption DEF LuaInit, Waits, Waiting
<1>6. Woken
  BY DEF LuaInit, Woken
<1>7. Answers
  BY DEF LuaInit, Answers
<1>8. Handlers = {} /\ unresponse = {} /\ watching_service = 0
  BY DEF LuaInit, Handlers
<1>9. Watched
  BY <1>8, FS_EmptySet DEF Watched
<1> QED BY <1>1, <1>4, <1>5, <1>6, <1>7, <1>9 DEF LuaInv

(* and every step keeps it. *)
LEMMA LuaSteps == LuaInv /\ [LuaNext]_luaVars => LuaInv'
<1> SUFFICES ASSUME LuaInv, [LuaNext]_luaVars PROVE LuaInv'
  OBVIOUS
<1>1. CASE LuaNext
  <2>1. LuaTypes'
    BY <1>1, RunStep, WaitStep, ServeStep, QueueStep DEF LuaInv, LuaTypes
  <2>2. LuaPlaces' /\ Waits'
    BY <1>1, PlacesStep, WaitsStep DEF LuaInv
  <2>3. Woken'
    <3>1. CASE disturbed'
      BY <3>1 DEF Woken
    <3>2. CASE ~disturbed'
      BY <1>1, <3>2, WokenStep DEF LuaInv
    <3> QED BY <3>1, <3>2
  <2>4. Answers' /\ Watched'
    BY <1>1, AnswersStep, WatchedStep DEF LuaInv
  <2> QED BY <2>1, <2>2, <2>3, <2>4 DEF LuaInv
<1>2. CASE UNCHANGED luaVars
  <2>1. UNCHANGED <<phase, cur, frames, status, waitsFor, coroutine_pool, session_id_coroutine, sleep_session,
                    watching_session, session, timers, peer, handling, session_response, unresponse>>
    BY <1>2 DEF luaVars, runVars, waitVars, serveVars
  <2>2. UNCHANGED <<watching_service, requested, responses, errors, wakeup_queue, error_queue, fork_queue,
                    dead_service, disturbed>>
    BY <1>2 DEF luaVars, serveVars, queueVars
  <2>3. LuaTypes'
    BY <2>1, <2>2 DEF LuaInv, LuaTypes, RunTypes, WaitTypes, ServeTypes, QueueTypes
  <2>4. LuaPlaces' /\ Waits'
    BY <2>1, <2>2 DEF LuaInv, LuaPlaces, Waits
  <2>5. Woken' /\ Answers'
    BY <2>1, <2>2 DEF LuaInv, Woken, Answers
  <2>6. Watched'
    BY <2>1, <2>2 DEF LuaInv, Watched, Handlers
  <2> QED BY <2>3, <2>4, <2>5, <2>6 DEF LuaInv
<1> QED BY <1>1, <1>2

(* The invariant holds in every state that a Lua service can reach, in     *)
(* whatever order messages come and whatever its coroutines do.            *)
THEOREM LuaCorrect == LuaSpec => []LuaInv
<1>1. LuaInit => LuaInv
  BY LuaStarts
<1>2. LuaInv /\ [LuaNext]_luaVars => LuaInv'
  BY LuaSteps
<1> QED BY <1>1, <1>2, PTL DEF LuaSpec

(* One coroutine runs at a time, sessions lead to coroutines, and the peer *)
(* is watched at least as often as suspend will take from the count, so    *)
(* release_watching never finds nothing to take from (skynet.lua).         *)
THEOREM LuaTypeCorrect == LuaSpec => []LuaTypeOK
<1>1. LuaInv => LuaTypeOK
  BY DEF LuaInv, LuaTypes, RunTypes, WaitTypes, Phase, Watched, Handlers, LuaTypeOK
<1> QED BY <1>1, LuaCorrect, PTL

(* However coroutines are woken, fail, raise and exit: none that waits is  *)
(* forgotten by the tables of skynet.lua, none is left in the queues of    *)
(* suspend between messages, and no request is answered twice or left to   *)
(* skynet.exit.                                                            *)
THEOREM ServiceSafe == LuaSpec => []LuaSafe
<1>1. LuaInv => WaitersKnown
  BY DEF LuaInv, Waits, Waiting, WaitersKnown, LuaTypes, RunTypes, WaitTypes
<1>2. LuaInv => QueuesDrained
  BY DEF LuaInv, Woken, QueuesDrained
<1>3. LuaInv => RequestsAnswered
  BY DEF LuaInv, Answers, RequestsAnswered
<1> QED BY <1>1, <1>2, <1>3, LuaCorrect, PTL DEF LuaSafe

(* Only skynet.exit ends the service. *)
LEMMA OnlyQuitLeaves ==
    ASSUME LuaNext
    PROVE  phase' # "gone" \/ Quit
<1>1. ASSUME LuaStart
      PROVE  phase' # "gone" \/ Quit
  BY <1>1 DEF LuaStart, runVars
<1>2. ASSUME NEW r \in Request, NEW kind \in {"call", "send"}, NEW c \in Co, DispatchRequest(r, kind, c)
      PROVE  phase' # "gone" \/ Quit
  BY <1>2 DEF DispatchRequest, Runs, CoCreate, runVars
<1>3. ASSUME NEW s \in Session, DispatchTimer(s)
      PROVE  phase' # "gone" \/ Quit
  BY <1>3 DEF DispatchTimer, Resumes, Runs, Unwinds, runVars
<1>4. ASSUME NEW s \in Session, DispatchResponse(s)
      PROVE  phase' # "gone" \/ Quit
  BY <1>4 DEF DispatchResponse, Resumes, Runs, Unwinds, runVars
<1>5. ASSUME NEW s \in Session, DispatchError(s)
      PROVE  phase' # "gone" \/ Quit
  BY <1>5 DEF DispatchError, Suspended, runVars
<1>6. ASSUME NEW failed \in SetToSeqs(watching_session), DispatchExit(failed)
      PROVE  phase' # "gone" \/ Quit
  BY <1>6 DEF DispatchExit, Suspended, runVars
<1>7. ASSUME DispatchOther
      PROVE  phase' # "gone" \/ Quit
  BY <1>7 DEF DispatchOther, Suspended, runVars
<1>8. ASSUME SkynetCall
      PROVE  phase' # "gone" \/ Quit
  BY <1>8 DEF SkynetCall, Yields, Suspended, runVars
<1>9. ASSUME SkynetSleep
      PROVE  phase' # "gone" \/ Quit
  BY <1>9 DEF SkynetSleep, Yields, Suspended, runVars
<1>10. ASSUME SkynetWait
      PROVE  phase' # "gone" \/ Quit
  BY <1>10 DEF SkynetWait, Yields, Suspended, runVars
<1>11. ASSUME NEW c \in Co, Timeout(c)
      PROVE  phase' # "gone" \/ Quit
  BY <1>11 DEF Timeout, runVars
<1>12. ASSUME NEW c \in Co, Fork(c)
      PROVE  phase' # "gone" \/ Quit
  BY <1>12 DEF Fork, runVars
<1>13. ASSUME NEW c \in Co, SkynetWakeup(c)
      PROVE  phase' # "gone" \/ Quit
  BY <1>13 DEF SkynetWakeup, runVars
<1>14. ASSUME NEW ok \in BOOLEAN, Ret(ok)
      PROVE  phase' # "gone" \/ Quit
  BY <1>14 DEF Ret, Responds, runVars
<1>15. ASSUME Response
      PROVE  phase' # "gone" \/ Quit
  BY <1>15 DEF Response, runVars
<1>16. ASSUME NEW r \in Request, NEW how \in {"ok", "fail", "TEST"}, Closure(r, how)
      PROVE  phase' # "gone" \/ Quit
  BY <1>16 DEF Closure, Responds, runVars
<1>17. ASSUME CoExit
      PROVE  phase' # "gone" \/ Quit
  BY <1>17 DEF CoExit, Suspended, runVars
<1>18. ASSUME Raise
      PROVE  phase' # "gone" \/ Quit
  BY <1>18 DEF Raise, Unwinds, runVars
<1>19. ASSUME Quit
      PROVE  phase' # "gone" \/ Quit
  BY <1>19
<1>20. ASSUME DispatchWakeup
      PROVE  phase' # "gone" \/ Quit
  BY <1>20 DEF DispatchWakeup, Resumes, Runs, runVars
<1>21. ASSUME DispatchErrorQueue
      PROVE  phase' # "gone" \/ Quit
  BY <1>21 DEF DispatchErrorQueue, Resumes, Runs, Unwinds, runVars
<1>22. ASSUME SuspendReturns
      PROVE  phase' # "gone" \/ Quit
  BY <1>22 DEF SuspendReturns, runVars
<1>23. ASSUME NEW c \in Co, DispatchFork(c)
      PROVE  phase' # "gone" \/ Quit
  BY <1>23 DEF DispatchFork, Runs, runVars
<1>24. ASSUME DispatchReturns
      PROVE  phase' # "gone" \/ Quit
  BY <1>24 DEF DispatchReturns, runVars
<1> QED
  BY <1>1, <1>2, <1>3, <1>4, <1>5, <1>6, <1>7, <1>8, <1>9, <1>10, <1>11, <1>12,
     <1>13, <1>14, <1>15, <1>16, <1>17, <1>18, <1>19, <1>20, <1>21, <1>22, <1>23, <1>24
     DEF LuaNext, Dispatches, Body, Goes

(* skynet.exit answers with an error every call whose answer was deferred  *)
(* by skynet.response, unless the caller is gone.                          *)
THEOREM DeferredNotLost == LuaSpec => DeferredAnswered
<1>1. ASSUME LuaInv, [LuaNext]_luaVars
      PROVE  [phase' = "gone" =>
                \A r \in unresponse : requested[r] = "call" => dead_service \/ r \in errors']_luaVars
  <2> SUFFICES ASSUME LuaNext, phase' = "gone", NEW r \in unresponse, requested[r] = "call",
                      ~dead_service
               PROVE  r \in errors'
    BY <1>1
  <2>1. Quit
    BY OnlyQuitLeaves
  <2> QED BY <2>1 DEF Quit
<1> QED BY <1>1, LuaCorrect, PTL DEF LuaSpec, DeferredAnswered
=============================================================================
