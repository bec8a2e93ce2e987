-------------------------- MODULE PrimitivesProofs --------------------------
(***************************************************************************)
(* Proofs about what the rest of the program stands on, for every value of *)
(* the constants: the critical section of skynet.queue, for any set of     *)
(* coroutines and any nesting; the reader-writer lock, for any number of   *)
(* threads; the ring buffer of a message queue, for every initial size and *)
(* every place of head and tail when it doubles; the handle table and the  *)
(* list of names, for any number of services and any width of the handles; *)
(* the timing wheel, for every size of its lists and every clock.          *)
(***************************************************************************)
EXTENDS SkynetQueue, RWLock, SkynetMq, SkynetHandle, SkynetTimer,
        SequenceTheorems, FiniteSetTheorems, DataTheorems, TLAPS

-----------------------------------------------------------------------------
(* The critical section                                                    *)

(* The owner, its position and the reference count agree. *)
OwnerInv ==
    /\ \A t \in Thread : pc[t] \in {"in", "woken"} <=> current_thread = t
    /\ \A t \in Thread : pc[t] = "in" => ref = depth[t] /\ ref > 0
    /\ \A t \in Thread : pc[t] # "in" => depth[t] = 0
    /\ \A t \in Thread : pc[t] = "woken" => ref = 0
    /\ current_thread = None => ref = 0 /\ thread_queue = << >>

(* The queue holds exactly the waiting coroutines, each once. *)
QueueInv ==
    /\ \A i \in 1..Len(thread_queue) : pc[thread_queue[i]] = "waiting"
    /\ \A t \in Thread : pc[t] = "waiting" =>
          \E i \in 1..Len(thread_queue) : thread_queue[i] = t
    /\ \A i, j \in 1..Len(thread_queue) :
          thread_queue[i] = thread_queue[j] => i = j

IInv == TypeOK /\ OwnerInv /\ QueueInv

(* Initially the section is free and the invariant holds. *)
LEMMA InitIInv == Init => IInv
BY QueueAssumption DEF Init, IInv, TypeOK, OwnerInv, QueueInv

(* A call that waits joins the queue once and leaves the owner alone. *)
LEMMA CallWaitIInv == ASSUME IInv, NEW t \in Thread, CallWait(t) PROVE IInv'
<1>1. TypeOK'
  BY DEF IInv, TypeOK, CallWait
<1>2. OwnerInv'
  BY QueueAssumption DEF IInv, TypeOK, OwnerInv, CallWait
<1>3. QueueInv'
  <2> DEFINE q == Append(thread_queue, t)
             L == Len(thread_queue)
  <2>1. /\ thread_queue \in Seq(Thread) /\ pc \in [Thread -> {"out", "waiting", "woken", "in"}]
        /\ pc[t] = "out" /\ thread_queue' = q /\ pc' = [pc EXCEPT ![t] = "waiting"]
    BY DEF IInv, TypeOK, CallWait
  <2>2. /\ L \in Nat /\ Len(q) = L + 1 /\ q[L + 1] = t
        /\ \A i \in 1..L : q[i] = thread_queue[i] /\ thread_queue[i] \in Thread
    BY <2>1, AppendProperties, ElementOfSeq
  <2>3. /\ \A i \in 1..L : pc[thread_queue[i]] = "waiting"
        /\ \A i, j \in 1..L : thread_queue[i] = thread_queue[j] => i = j
        /\ \A x \in Thread : pc[x] = "waiting" => \E i \in 1..L : thread_queue[i] = x
    BY DEF IInv, QueueInv
  <2> HIDE DEF q, L
  <2>4. \A i \in 1..(L + 1) : i \in 1..L \/ i = L + 1
    BY <2>2
  <2>5. \A i \in 1..L : q[i] # t
    BY <2>1, <2>2, <2>3
  <2>6. \A i \in 1..(L + 1) : pc'[q[i]] = "waiting"
    BY <2>1, <2>2, <2>3, <2>4, <2>5
  <2>7. \A i, j \in 1..(L + 1) : q[i] = q[j] => i = j
    BY <2>2, <2>3, <2>4, <2>5
  <2>8. ASSUME NEW x \in Thread, pc'[x] = "waiting" PROVE \E i \in 1..(L + 1) : q[i] = x
    <3>1. CASE x = t
      BY <2>2, <3>1
    <3>2. CASE x # t
      <4>1. pc[x] = "waiting"
        BY <2>1, <2>8, <3>2
      <4>2. PICK i \in 1..L : thread_queue[i] = x
        BY <2>3, <4>1
      <4>3. i \in 1..(L + 1) /\ q[i] = x
        BY <2>2, <4>2
      <4> QED BY <4>3
    <3> QED BY <3>1, <3>2
  <2> QED BY <2>1, <2>2, <2>6, <2>7, <2>8 DEF QueueInv
<1> QED BY <1>1, <1>2, <1>3 DEF IInv

(* A call that enters at once finds nobody waiting for it to leave. *)
LEMMA CallEnterIInv == ASSUME IInv, NEW t \in Thread, CallEnter(t) PROVE IInv'
<1>1. TypeOK'
  BY DEF IInv, TypeOK, CallEnter, Enter
<1>2. OwnerInv'
  BY QueueAssumption DEF IInv, TypeOK, OwnerInv, CallEnter, Enter
<1>3. QueueInv'
  BY DEF IInv, TypeOK, QueueInv, CallEnter, Enter
<1> QED BY <1>1, <1>2, <1>3 DEF IInv

(* A woken coroutine finds the section handed over to it. *)
LEMMA ResumeIInv == ASSUME IInv, NEW t \in Thread, Resume(t) PROVE IInv'
<1>1. TypeOK'
  BY DEF IInv, TypeOK, Resume, Enter
<1>2. OwnerInv'
  BY QueueAssumption DEF IInv, TypeOK, OwnerInv, Resume, Enter
<1>3. QueueInv'
  BY DEF IInv, TypeOK, QueueInv, Resume, Enter
<1> QED BY <1>1, <1>2, <1>3 DEF IInv

(* The last exit hands the section to the head of the queue, which is then *)
(* the owner though it has not run yet.                                     *)
LEMMA ReturnIInv == ASSUME IInv, NEW t \in Thread, Return(t) PROVE IInv'
<1>1. CASE ref' # 0
  <2>1. TypeOK'
    BY <1>1 DEF IInv, TypeOK, OwnerInv, Return
  <2>2. OwnerInv'
    BY <1>1 DEF IInv, TypeOK, OwnerInv, Return
  <2>3. QueueInv'
    BY <1>1 DEF IInv, TypeOK, QueueInv, Return
  <2> QED BY <2>1, <2>2, <2>3 DEF IInv
<1>2. CASE ref' = 0 /\ thread_queue = << >>
  <2>0. depth[t] = ref /\ ref \in Nat \ {0} /\ UNCHANGED thread_queue
    BY <1>2 DEF IInv, TypeOK, OwnerInv, Return
  <2>1. TypeOK'
    BY <2>0, <1>2 DEF IInv, TypeOK, Return
  <2>2. OwnerInv'
    BY <1>2, QueueAssumption DEF IInv, TypeOK, OwnerInv, Return
  <2>3. QueueInv'
    BY <1>2 DEF IInv, TypeOK, QueueInv, Return
  <2> QED BY <2>1, <2>2, <2>3 DEF IInv
<1>3. CASE ref' = 0 /\ thread_queue # << >>
  <2> DEFINE h == Head(thread_queue)
  <2>1. /\ h \in Thread /\ h = thread_queue[1] /\ h # t /\ pc[h] = "waiting"
        /\ Len(thread_queue) \in Nat \ {0}
    BY <1>3 DEF IInv, TypeOK, QueueInv, Return
  <2>2. /\ current_thread' = h
        /\ thread_queue' = Tail(thread_queue)
        /\ pc' = [pc EXCEPT ![t] = "out", ![h] = "woken"]
        /\ depth' = [depth EXCEPT ![t] = @ - 1]
        /\ ref' = ref - 1
    BY <1>3 DEF Return
  <2>3. /\ Len(thread_queue') = Len(thread_queue) - 1
        /\ \A i \in 1..Len(thread_queue') : thread_queue'[i] = thread_queue[i+1]
    BY <1>3, <2>2 DEF IInv, TypeOK
  <2>4. TypeOK'
    BY <1>3, <2>1, <2>2 DEF IInv, TypeOK, OwnerInv, Return
  <2>5. OwnerInv'
    <3>1. /\ pc[t] = "in" /\ ref = depth[t] /\ ref' = 0 /\ depth'[t] = 0 /\ h # None
          /\ \A s \in Thread : /\ s # t => depth'[s] = depth[s]
                               /\ s # t /\ s # h => pc'[s] = pc[s]
          /\ pc'[t] = "out" /\ pc'[h] = "woken"
      BY <1>3, <2>1, <2>2, QueueAssumption DEF IInv, TypeOK, OwnerInv, Return
    <3>2. \A s \in Thread : s # t => pc[s] \notin {"in", "woken"} /\ depth[s] = 0
      BY <3>1 DEF IInv, OwnerInv
    <3> HIDE DEF h
    <3>3. \A s \in Thread : /\ pc'[s] # "in" /\ depth'[s] = 0
                            /\ pc'[s] = "woken" <=> s = h
      BY <2>1, <3>1, <3>2
    <3> QED BY <2>2, <3>1, <3>3 DEF OwnerInv
  <2>6. QueueInv'
    <3> HIDE DEF h
    <3>1. \A i \in 1..Len(thread_queue') :
             i+1 \in 1..Len(thread_queue) /\ i+1 # 1
      BY <2>1, <2>3
    <3>2. \A i \in 1..Len(thread_queue') : pc'[thread_queue'[i]] = "waiting"
      <4> SUFFICES ASSUME NEW i \in 1..Len(thread_queue')
                   PROVE  pc'[thread_queue'[i]] = "waiting"
        OBVIOUS
      <4>1. /\ thread_queue[i+1] \in Thread
            /\ pc[thread_queue[i+1]] = "waiting"
            /\ thread_queue[i+1] # thread_queue[1]
        BY <2>1, <3>1 DEF IInv, TypeOK, QueueInv
      <4>2. thread_queue[i+1] # t
        BY <4>1 DEF Return
      <4> QED BY <4>1, <4>2, <2>1, <2>2, <2>3 DEF IInv, TypeOK
    <3>3. ASSUME NEW s \in Thread, pc'[s] = "waiting"
          PROVE  \E i \in 1..Len(thread_queue') : thread_queue'[i] = s
      <4>1. pc[s] = "waiting" /\ s # h
        BY <3>3, <2>1, <2>2 DEF IInv, TypeOK
      <4>2. PICK j \in 1..Len(thread_queue) : thread_queue[j] = s
        BY <4>1 DEF IInv, QueueInv
      <4>3. j - 1 \in 1..Len(thread_queue') /\ (j - 1) + 1 = j
        BY <4>1, <4>2, <2>1, <2>3
      <4> QED BY <4>2, <4>3, <2>3
    <3>4. \A i, j \in 1..Len(thread_queue') :
             thread_queue'[i] = thread_queue'[j] => i = j
      BY <2>3, <3>1 DEF IInv, QueueInv
    <3> QED BY <3>2, <3>3, <3>4 DEF QueueInv
  <2> QED BY <2>4, <2>5, <2>6 DEF IInv
<1> QED BY <1>1, <1>2, <1>3

(* The strengthened invariant holds in every reachable state. *)
THEOREM Invariance == Spec => []IInv
<1>1. IInv /\ [Next]_vars => IInv'
  <2> SUFFICES ASSUME IInv, [Next]_vars PROVE IInv'
    OBVIOUS
  <2>1. CASE Next
    BY <2>1, CallWaitIInv, CallEnterIInv, ResumeIInv, ReturnIInv DEF Next
  <2>2. CASE UNCHANGED vars
    BY <2>2 DEF vars, IInv, TypeOK, OwnerInv, QueueInv
  <2> QED BY <2>1, <2>2
<1> QED BY <1>1, InitIInv, PTL DEF Spec

(* The state of skynet.queue keeps its types. *)
THEOREM SectionTypeCorrect == Spec => []TypeOK
<1>1. IInv => TypeOK
  BY DEF IInv
<1> QED BY <1>1, Invariance, PTL

(* At most one coroutine is inside the section (queue.lua:25-34). *)
THEOREM MutualExclusionHolds == Spec => []MutualExclusion
<1>1. IInv => MutualExclusion
  BY DEF IInv, OwnerInv, MutualExclusion
<1> QED BY <1>1, Invariance, PTL

(* The assertion of queue.lua:29 never fails. *)
THEOREM AssertionHolds == Spec => []NoAssertFailure
<1>1. IInv => NoAssertFailure
  BY DEF IInv, OwnerInv, NoAssertFailure
<1> QED BY <1>1, Invariance, PTL

(* Nobody waits for a section that nobody owns (queue.lua:13-19). *)
THEOREM NoWakeupLost == Spec => []NoLostWakeup
<1>1. IInv => NoLostWakeup
  <2> SUFFICES ASSUME IInv, NEW t \in Thread, pc[t] = "waiting"
               PROVE  \E s \in Thread : s = current_thread /\ pc[s] \in {"in", "woken"}
    BY DEF NoLostWakeup
  <2>1. thread_queue # << >>
    BY DEF IInv, TypeOK, QueueInv
  <2>2. current_thread \in Thread
    BY <2>1 DEF IInv, TypeOK, OwnerInv
  <2> QED BY <2>2 DEF IInv, OwnerInv
<1> QED BY <1>1, Invariance, PTL

(* The section is exclusive, its assertion holds and no wakeup is lost,    *)
(* for any set of coroutines and any depth of nesting (queue.lua).         *)
THEOREM SectionIsSafe == Spec => []SectionSafe
<1> QED BY MutualExclusionHolds, AssertionHolds, NoWakeupLost, PTL DEF SectionSafe

(* skynet.queue implements a lock granted in the order of the calls: the   *)
(* owner followed by the waiters is the abstract line (queue.lua:24-34).   *)
THEOREM SectionRefinesFifo == Spec => ImplementsFifoLock
<1>1. Init => Lock!Init
  BY DEF Init, Lock!Init, Line
<1>2. IInv /\ [Next]_vars => [Lock!Next]_Line
  <2> SUFFICES ASSUME IInv, [Next]_vars PROVE [Lock!Next]_Line
    OBVIOUS
  <2>0. TypeOK /\ OwnerInv /\ QueueInv
    BY DEF IInv
  <2>1. ASSUME NEW t \in Thread, CallWait(t) PROVE Lock!Request(t)
    <3>1. Line = <<current_thread>> \o thread_queue
      BY <2>1 DEF CallWait, Line
    <3>2. Line' = <<current_thread>> \o Append(thread_queue, t)
      BY <2>1 DEF CallWait, Line
    <3>3. Line' = Append(Line, t)
      BY <3>1, <3>2, <2>0 DEF TypeOK
    <3>4. ~Lock!InLine(t)
      <4>1. \A i \in DOMAIN Line : Line[i] = current_thread \/ pc[Line[i]] = "waiting"
        BY <3>1, <2>0 DEF TypeOK, QueueInv
      <4> QED BY <4>1, <2>1 DEF CallWait, Lock!InLine
    <3> QED BY <3>3, <3>4 DEF Lock!Request
  <2>2. ASSUME NEW t \in Thread, CallEnter(t) PROVE Lock!Request(t) \/ UNCHANGED Line
    <3>1. CASE current_thread = None
      <4>1. Line = << >> /\ Line' = <<t>>
        BY <3>1, <2>2, <2>0, QueueAssumption DEF CallEnter, Enter, Line, OwnerInv
      <4> QED BY <4>1 DEF Lock!Request, Lock!InLine
    <3>2. CASE current_thread = t
      BY <3>2, <2>2 DEF CallEnter, Enter, Line
    <3> QED BY <3>1, <3>2, <2>2 DEF CallEnter
  <2>3. ASSUME NEW t \in Thread, Resume(t) PROVE UNCHANGED Line
    BY <2>3, <2>0 DEF Resume, Enter, Line, OwnerInv
  <2>4. ASSUME NEW t \in Thread, Return(t) PROVE Lock!Release \/ UNCHANGED Line
    <3>1. current_thread = t /\ t # None
      BY <2>4, <2>0, QueueAssumption DEF Return, OwnerInv
    <3>2. Line = <<t>> \o thread_queue
      BY <3>1 DEF Line
    <3>3. Line # << >> /\ Tail(Line) = thread_queue
      BY <3>2, <2>0 DEF TypeOK
    <3>4. CASE ref' # 0
      BY <3>4, <2>4 DEF Return, Line
    <3>5. CASE ref' = 0 /\ thread_queue = << >>
      <4>1. Line' = << >>
        BY <3>5, <2>4 DEF Return, Line
      <4> QED BY <4>1, <3>5, <3>3 DEF Lock!Release
    <3>6. CASE ref' = 0 /\ thread_queue # << >>
      <4>1. Head(thread_queue) \in Thread
        BY <3>6, <2>0 DEF TypeOK
      <4>2. Line' = <<Head(thread_queue)>> \o Tail(thread_queue)
        BY <4>1, <3>6, <2>4, QueueAssumption DEF Return, Line
      <4>3. Line' = thread_queue
        BY <4>2, <3>6, <2>0 DEF TypeOK
      <4> QED BY <4>3, <3>3 DEF Lock!Release
    <3> QED BY <3>4, <3>5, <3>6
  <2>5. CASE UNCHANGED vars
    BY <2>5 DEF vars, Line
  <2> QED BY <2>1, <2>2, <2>3, <2>4, <2>5 DEF Next, Lock!Next
<1> QED BY <1>1, <1>2, Invariance, PTL DEF Spec, ImplementsFifoLock, Lock!Spec

-----------------------------------------------------------------------------
(* The reader-writer lock.  LockInv is inductive: read is the number of    *)
(* announced readers, so a writer that reads 0 knows that nobody is between *)
(* the announcement and the unlock.                                        *)

(* read = Cardinality(Announced), as an operator of the position of the     *)
(* threads.                                                                 *)
AnnouncedIn(f) == {t \in Locker : f[t] \in {"look", "retreat", "reading"}}

(* A set of threads is finite. *)
LEMMA AnnouncedFinite ==
    ASSUME NEW f
    PROVE  IsFiniteSet(AnnouncedIn(f)) /\ Cardinality(AnnouncedIn(f)) \in Nat
<1>1. AnnouncedIn(f) \subseteq Locker BY DEF AnnouncedIn
<1>2. IsFiniteSet(AnnouncedIn(f)) BY <1>1, LockAssumption, FS_Subset
<1> QED BY <1>2, FS_CardinalityType

(* rwlock_rlock's increment: the thread was not announced before. *)
LEMMA AnnounceOne ==
    ASSUME LockTypeOK, NEW t \in Locker,
           lpc[t] = "announce", lpc' = [lpc EXCEPT ![t] = "look"]
    PROVE  Cardinality(AnnouncedIn(lpc')) = Cardinality(AnnouncedIn(lpc)) + 1
<1>1. AnnouncedIn(lpc') = AnnouncedIn(lpc) \cup {t} BY DEF LockTypeOK, AnnouncedIn
<1>2. t \notin AnnouncedIn(lpc) BY DEF AnnouncedIn
<1>3. IsFiniteSet(AnnouncedIn(lpc)) BY AnnouncedFinite
<1> QED BY <1>1, <1>2, <1>3, FS_AddElement

(* The decrement of rwlock_runlock and of a retreat: one reader fewer. *)
LEMMA LeaveOne ==
    ASSUME LockTypeOK, NEW t \in Locker,
           lpc[t] \in {"retreat", "reading"}, lpc' = [lpc EXCEPT ![t] = "out"]
    PROVE  /\ Cardinality(AnnouncedIn(lpc')) = Cardinality(AnnouncedIn(lpc)) - 1
           /\ Cardinality(AnnouncedIn(lpc)) > 0
<1>1. AnnouncedIn(lpc') = AnnouncedIn(lpc) \ {t} BY DEF LockTypeOK, AnnouncedIn
<1>2. t \in AnnouncedIn(lpc) BY DEF AnnouncedIn
<1>3. IsFiniteSet(AnnouncedIn(lpc)) /\ Cardinality(AnnouncedIn(lpc)) \in Nat BY AnnouncedFinite
<1>4. Cardinality(AnnouncedIn(lpc')) = Cardinality(AnnouncedIn(lpc)) - 1
    BY <1>1, <1>2, <1>3, FS_RemoveElement
<1>5. Cardinality(AnnouncedIn(lpc')) \in Nat BY AnnouncedFinite
<1> QED BY <1>3, <1>4, <1>5

(* Steps between two announced positions, or between two others, leave the  *)
(* set alone.                                                               *)
LEMMA SameAnnounced ==
    ASSUME LockTypeOK, NEW t \in Locker, NEW to,
           lpc' = [lpc EXCEPT ![t] = to],
           lpc[t] \in {"look", "retreat", "reading"} <=> to \in {"look", "retreat", "reading"}
    PROVE  AnnouncedIn(lpc') = AnnouncedIn(lpc)
BY DEF LockTypeOK, AnnouncedIn

(* A writer that reads 0 finds no reader: rwlock_wlock's second loop. *)
LEMMA NobodyAnnounced ==
    ASSUME LockTypeOK, Cardinality(AnnouncedIn(lpc)) = 0
    PROVE  \A t \in Locker : lpc[t] # "reading"
<1>1. IsFiniteSet(AnnouncedIn(lpc)) BY AnnouncedFinite
<1>2. AnnouncedIn(lpc) = {} BY <1>1, FS_EmptySet
<1> QED BY <1>2 DEF AnnouncedIn

(* The initial state satisfies the invariant. *)
LEMMA LockInvInit == LockInit => LockInv
<1> SUFFICES ASSUME LockInit PROVE LockInv OBVIOUS
<1>1. LockTypeOK BY DEF LockInit, LockTypeOK
<1>2. Announced = {} BY DEF LockInit, Announced
<1>3. read = Cardinality(Announced) BY <1>2, FS_EmptySet DEF LockInit
<1> QED BY <1>1, <1>3 DEF LockInit, LockInv

(* Every step of a thread keeps the invariant. *)
LEMMA LockInvStep ==
    ASSUME LockInv, NEW t \in Locker, RSeesFree(t) \/ WClaim(t) \/ LockStep(t)
    PROVE  LockInv'
<1> USE DEF LockGoto
<1>0. LockTypeOK BY DEF LockInv
<1>a. Announced = AnnouncedIn(lpc) /\ Announced' = AnnouncedIn(lpc') BY DEF Announced, AnnouncedIn
<1>b. read = Cardinality(AnnouncedIn(lpc)) BY <1>a DEF LockInv
<1>1. CASE RSeesFree(t)
  <2>1. AnnouncedIn(lpc') = AnnouncedIn(lpc) BY <1>0, <1>1, SameAnnounced DEF RSeesFree
  <2> QED BY <1>1, <1>0, <1>a, <1>b, <2>1 DEF RSeesFree, LockInv, LockTypeOK
<1>2. CASE RAnnounce(t)
  <2>1. Cardinality(AnnouncedIn(lpc')) = Cardinality(AnnouncedIn(lpc)) + 1
      BY <1>0, <1>2, AnnounceOne DEF RAnnounce
  <2> QED BY <1>2, <1>0, <1>a, <1>b, <2>1 DEF RAnnounce, LockInv, LockTypeOK
<1>3. CASE REnter(t)
  <2>1. AnnouncedIn(lpc') = AnnouncedIn(lpc) BY <1>0, <1>3, SameAnnounced DEF REnter
  <2> QED BY <1>3, <1>0, <1>a, <1>b, <2>1 DEF REnter, LockInv, LockTypeOK
<1>4. CASE RStepBack(t)
  <2>1. AnnouncedIn(lpc') = AnnouncedIn(lpc) BY <1>0, <1>4, SameAnnounced DEF RStepBack
  <2> QED BY <1>4, <1>0, <1>a, <1>b, <2>1 DEF RStepBack, LockInv, LockTypeOK
<1>5. CASE RRetreat(t)
  <2>1. /\ Cardinality(AnnouncedIn(lpc')) = Cardinality(AnnouncedIn(lpc)) - 1
        /\ Cardinality(AnnouncedIn(lpc)) > 0
      BY <1>0, <1>5, LeaveOne DEF RRetreat
  <2> QED BY <1>5, <1>0, <1>a, <1>b, <2>1 DEF RRetreat, LockInv, LockTypeOK
<1>6. CASE RUnlock(t)
  <2>1. /\ Cardinality(AnnouncedIn(lpc')) = Cardinality(AnnouncedIn(lpc)) - 1
        /\ Cardinality(AnnouncedIn(lpc)) > 0
      BY <1>0, <1>6, LeaveOne DEF RUnlock
  <2> QED BY <1>6, <1>0, <1>a, <1>b, <2>1 DEF RUnlock, LockInv, LockTypeOK
<1>7. CASE WClaim(t)
  <2>1. AnnouncedIn(lpc') = AnnouncedIn(lpc) BY <1>0, <1>7, SameAnnounced DEF WClaim
  <2> QED BY <1>7, <1>0, <1>a, <1>b, <2>1 DEF WClaim, LockInv, LockTypeOK
<1>8. CASE WEnter(t)
  <2>1. AnnouncedIn(lpc') = AnnouncedIn(lpc) BY <1>0, <1>8, SameAnnounced DEF WEnter
  <2>2. \A u \in Locker : lpc[u] # "reading" BY <1>0, <1>8, <1>b, NobodyAnnounced DEF WEnter
  <2> QED BY <1>8, <1>0, <1>a, <1>b, <2>1, <2>2 DEF WEnter, LockInv, LockTypeOK
<1>9. CASE WUnlock(t)
  <2>1. AnnouncedIn(lpc') = AnnouncedIn(lpc) BY <1>0, <1>9, SameAnnounced DEF WUnlock
  <2> QED BY <1>9, <1>0, <1>a, <1>b, <2>1 DEF WUnlock, LockInv, LockTypeOK
<1> QED BY <1>1, <1>2, <1>3, <1>4, <1>5, <1>6, <1>7, <1>8, <1>9 DEF LockStep

(* LockInv holds in every reachable state. *)
LEMMA LockInvariance == LockSpec => []LockInv
<1>1. LockInv /\ [LockNext]_lockVars => LockInv'
  <2> SUFFICES ASSUME LockInv, [LockNext]_lockVars PROVE LockInv' OBVIOUS
  <2>1. CASE LockNext BY <2>1, LockInvStep DEF LockNext
  <2>2. CASE UNCHANGED lockVars
      BY <2>2 DEF lockVars, LockInv, LockTypeOK, Announced
  <2> QED BY <2>1, <2>2
<1> QED BY <1>1, LockInvInit, PTL DEF LockSpec

(* rwlock.h: the count of readers never goes below 0, for any number of     *)
(* threads that read and write.                                             *)
THEOREM LockTypeCorrect == LockSpec => []LockTypeOK
<1>1. LockInv => LockTypeOK BY DEF LockInv
<1> QED BY <1>1, LockInvariance, PTL

(* rwlock_wlock excludes every reader and every other writer, for any       *)
(* number of threads.                                                       *)
THEOREM LockSafe == LockSpec => []LockExclusion
<1>1. LockInv => LockExclusion BY DEF LockInv, LockExclusion
<1> QED BY <1>1, LockInvariance, PTL

-----------------------------------------------------------------------------
(* The ring buffer                                                         *)

(* The cell of the i-th message from cell h of a buffer of c cells. *)
CellAt(h, i, c) == IF h + i <= c THEN h + i ELSE h + i - c

(* Cells are counted around the end of the buffer (skynet_mq_pop). *)
LEMMA CellIsAt ==
    ASSUME NEW c \in Nat \ {0}, NEW h \in 0..(c - 1), NEW i \in 1..c
    PROVE  /\ ((h + i - 1) % c) + 1 = CellAt(h, i, c)
           /\ CellAt(h, i, c) \in 1..c
<1>1. ASSUME NEW a \in 0..(2 * c - 1) PROVE a % c = IF a < c THEN a ELSE a - c
  BY SMT
<1>2. h + i - 1 \in 0..(2 * c - 1)
  OBVIOUS
<1>3. (h + i - 1) % c = IF h + i - 1 < c THEN h + i - 1 ELSE (h + i - 1) - c
  BY <1>1, <1>2, Zenon
<1> QED BY <1>3 DEF CellAt

(* The buffer's size and its indices. *)
LEMMA RingFacts ==
    ASSUME RingOK
    PROVE  /\ cap \in Nat /\ cap >= 2 /\ cap >= QueueSize
           /\ head \in 0..(cap - 1) /\ tail \in 0..(cap - 1)
           /\ DOMAIN ring = 1..cap /\ \A i \in 1..cap : ring[i] \in Item \cup {NoItem}
           /\ MqLength \in 0..(cap - 1)
<1>1. cap \in Nat /\ cap >= 2 /\ DOMAIN ring = 1..cap
  BY MqAssumption DEF RingOK, cap
<1>2. head \in Nat /\ tail \in Nat /\ head < cap /\ tail < cap
  BY <1>1 DEF RingOK
<1>3. MqLength \in 0..(cap - 1)
  BY <1>1, <1>2 DEF MqLength
<1> QED BY <1>1, <1>2, <1>3 DEF RingOK, cap

(* How many messages are between h and t, and which, without remainders. *)
Count(r, h, t) == IF h <= t THEN t - h ELSE t + Len(r) - h
Held(r, h, t) == [i \in 1..Count(r, h, t) |-> r[CellAt(h, i, Len(r))]]

(* Contents is what is held between head and tail. *)
LEMMA HeldIs ==
    ASSUME NEW S, NEW r \in Seq(S), Len(r) > 0, NEW h \in 0..(Len(r) - 1), NEW t \in 0..(Len(r) - 1)
    PROVE  /\ Count(r, h, t) \in 0..(Len(r) - 1)
           /\ [i \in 1..Count(r, h, t) |-> r[((h + i - 1) % Len(r)) + 1]] = Held(r, h, t)
           /\ \A i \in 1..Count(r, h, t) : CellAt(h, i, Len(r)) \in 1..Len(r)
<1>1. Len(r) \in Nat \ {0} /\ Count(r, h, t) \in 0..(Len(r) - 1)
  BY DEF Count
<1>2. ASSUME NEW i \in 1..Count(r, h, t)
      PROVE  /\ r[((h + i - 1) % Len(r)) + 1] = r[CellAt(h, i, Len(r))]
             /\ CellAt(h, i, Len(r)) \in 1..Len(r)
  <2>1. Len(r) \in Nat \ {0} /\ i \in 1..Len(r)
    BY <1>1
  <2> QED BY <2>1, CellIsAt, Zenon
<1> QED BY <1>1, <1>2, Zenon DEF Held

(* The buffer's type, to be shown of the next state before its contents. *)
Shape ==
    /\ ring \in Seq(Item \cup {NoItem}) /\ cap >= QueueSize
    /\ head \in 0..(cap - 1) /\ tail \in 0..(cap - 1) /\ overload \in Nat

(* Contents in the next state. *)
LEMMA ContentsHeld ==
    ASSUME Shape
    PROVE  Contents = Held(ring, head, tail)
<1>1. Len(ring) > 0
  BY MqAssumption DEF Shape, cap
<1>2. ring \in Seq(Item \cup {NoItem}) /\ head \in 0..(Len(ring) - 1) /\ tail \in 0..(Len(ring) - 1)
  BY DEF Shape, cap
<1>3. [i \in 1..Count(ring, head, tail) |-> ring[((head + i - 1) % Len(ring)) + 1]] = Held(ring, head, tail)
  BY <1>1, <1>2, HeldIs, Zenon
<1> QED BY <1>3, Zenon DEF Contents, Cell, MqLength, Count, cap

(* The contents after a step, from the ring after it. *)
LEMMA ContentsHeldNext ==
    ASSUME Shape'
    PROVE  Contents' = Held(ring, head, tail)'
<1>1. Len(ring') > 0
  BY MqAssumption DEF Shape, cap
<1>2. ring' \in Seq(Item \cup {NoItem}) /\ head' \in 0..(Len(ring') - 1) /\ tail' \in 0..(Len(ring') - 1)
  BY DEF Shape, cap
<1>3. [i \in 1..Count(ring', head', tail') |-> ring'[((head' + i - 1) % Len(ring')) + 1]]
        = Held(ring', head', tail')
  BY <1>1, <1>2, HeldIs, Zenon
<1> QED BY <1>3, Zenon DEF Contents, Cell, MqLength, Count, cap

(* Sequences, Append and Tail as functions. *)
LEMMA SeqIs ==
    ASSUME NEW S, NEW q \in Seq(S)
    PROVE  q = [i \in 1..Len(q) |-> q[i]]
OBVIOUS

(* Append as a function. *)
LEMMA AppendIs ==
    ASSUME NEW S, NEW s \in Seq(S), NEW v \in S
    PROVE  Append(s, v) = [i \in 1..(Len(s) + 1) |-> IF i <= Len(s) THEN s[i] ELSE v]
<1>1. Append(s, v) \in Seq(S) /\ Len(Append(s, v)) = Len(s) + 1
  OBVIOUS
<1>2. Append(s, v) = [i \in 1..(Len(s) + 1) |-> Append(s, v)[i]]
  BY <1>1, SeqIs, Zenon
<1>3. \A i \in 1..(Len(s) + 1) : Append(s, v)[i] = IF i <= Len(s) THEN s[i] ELSE v
  OBVIOUS
<1> QED BY <1>2, <1>3, Zenon

(* Tail as a function. *)
LEMMA TailIs ==
    ASSUME NEW S, NEW s \in Seq(S), s # << >>
    PROVE  Tail(s) = [i \in 1..(Len(s) - 1) |-> s[i + 1]]
<1>1. Tail(s) \in Seq(S) /\ Len(Tail(s)) = Len(s) - 1
  OBVIOUS
<1>2. Tail(s) = [i \in 1..(Len(s) - 1) |-> Tail(s)[i]]
  BY <1>1, SeqIs, Zenon
<1>3. \A i \in 1..(Len(s) - 1) : Tail(s)[i] = s[i + 1]
  OBVIOUS
<1> QED BY <1>2, <1>3, Zenon

(* skynet_mq_push appends, whether or not the buffer doubles. *)
LEMMA PushAppends ==
    ASSUME RingOK, NEW v \in Item, MqPush(v)
    PROVE  Shape' /\ Contents' = Append(Contents, v)
<1> DEFINE r == [ring EXCEPT ![tail + 1] = v]
           t == IF tail + 1 >= cap THEN 0 ELSE tail + 1
           n == MqLength
<1>0. Shape /\ Contents \in Seq(Item)
  BY DEF RingOK, Shape
<1>1. /\ cap \in Nat /\ cap >= 2 /\ cap >= QueueSize /\ cap = Len(ring)
      /\ head \in 0..(cap - 1) /\ tail \in 0..(cap - 1)
      /\ n \in 0..(cap - 1)
  BY RingFacts DEF cap
<1>2. r \in Seq(Item \cup {NoItem}) /\ Len(r) = cap /\ DOMAIN r = 1..cap
  BY <1>0, <1>1 DEF Shape, cap
<1>3. Contents = Held(ring, head, tail) /\ n = Count(ring, head, tail)
  BY <1>0, ContentsHeld DEF MqLength, Count, cap
<1>4. t \in 0..(cap - 1)
  BY <1>1
<1>5. [i \in 1..(n + 1) |-> r[CellAt(head, i, cap)]] = Append(Contents, v)
  <2>1. \A i \in 1..n : r[CellAt(head, i, cap)] = ring[CellAt(head, i, cap)]
    <3>1. \A i \in 1..n : CellAt(head, i, cap) # tail + 1 /\ CellAt(head, i, cap) \in 1..cap
      BY <1>1, <1>3 DEF Count, CellAt
    <3> QED BY <3>1, <1>0, <1>1 DEF Shape
  <2>2. r[CellAt(head, n + 1, cap)] = v
    <3>1. CellAt(head, n + 1, cap) = tail + 1
      BY <1>1, <1>3 DEF Count, CellAt
    <3> QED BY <3>1, <1>0, <1>1 DEF Shape
  <2> HIDE DEF r, n
  <2>3. Contents = [i \in 1..n |-> ring[CellAt(head, i, cap)]]
    BY <1>3, <1>1 DEF Held
  <2>4. n \in Nat /\ Len(Contents) = n
    BY <2>3, <1>1
  <2>5. Append(Contents, v) = [i \in 1..(n + 1) |-> IF i <= n THEN Contents[i] ELSE v]
    BY <2>4, <1>0, AppendIs
  <2>6. \A i \in 1..(n + 1) : r[CellAt(head, i, cap)] = IF i <= n THEN Contents[i] ELSE v
    BY <2>1, <2>2, <2>3, <2>4
  <2> QED BY <2>5, <2>6
<1>6. CASE head # t
  <2>1. ring' = r /\ tail' = t /\ head' = head /\ overload' = overload
    BY <1>6 DEF MqPush
  <2>2. Shape'
    BY <2>1, <1>0, <1>1, <1>2, <1>4 DEF Shape, cap
  <2>3. Count(r, head, t) = n + 1 /\ n + 1 \in 1..(cap - 1)
    BY <1>1, <1>2, <1>3, <1>6 DEF Count
  <2>4. Contents' = Held(r, head, t)
    BY <2>1, <2>2, ContentsHeldNext
  <2>5. Held(r, head, t) = Append(Contents, v)
    <3> HIDE DEF r, t, n
    <3>1. Held(r, head, t) = [i \in 1..(n + 1) |-> r[CellAt(head, i, cap)]]
      BY <2>3, <1>2 DEF Held
    <3> QED BY <3>1, <1>5, Zenon
  <2> QED BY <2>2, <2>4, <2>5
<1>7. CASE head = t
  <2> DEFINE big == [i \in 1..(2 * cap) |-> IF i <= cap THEN Cell(r, (head + i - 1) % cap) ELSE NoItem]
             w == [i \in 1..cap |-> r[CellAt(head, i, cap)]]
  <2>1. ring' = big /\ head' = 0 /\ tail' = cap /\ overload' = overload
    BY <1>7 DEF MqPush
  <2>2. \A i \in 1..cap : /\ big[i] = r[CellAt(head, i, cap)]
                          /\ CellAt(head, i, cap) \in 1..cap
    <3> SUFFICES ASSUME NEW i \in 1..cap
                 PROVE  big[i] = r[CellAt(head, i, cap)] /\ CellAt(head, i, cap) \in 1..cap
      OBVIOUS
    <3>1. cap \in Nat \ {0} /\ head \in 0..(cap - 1) /\ i \in 1..cap /\ i \in 1..(2 * cap) /\ i <= cap
      BY <1>1
    <3>2. ((head + i - 1) % cap) + 1 = CellAt(head, i, cap) /\ CellAt(head, i, cap) \in 1..cap
      BY <3>1, CellIsAt, Zenon
    <3>3. big[i] = Cell(r, (head + i - 1) % cap)
      BY <3>1, Zenon
    <3> QED BY <3>2, <3>3, Zenon DEF Cell
  <2>3. big \in Seq(Item \cup {NoItem}) /\ Len(big) = 2 * cap
    <3>1. \A i \in 1..(2 * cap) : big[i] \in Item \cup {NoItem}
      <4> SUFFICES ASSUME NEW i \in 1..(2 * cap) PROVE big[i] \in Item \cup {NoItem}
        OBVIOUS
      <4>1. CASE i <= cap
        <5> HIDE DEF r, big
        <5>1. i \in 1..cap
          BY <4>1, <1>1
        <5> QED BY <5>1, <2>2, <1>2
      <4>2. CASE ~(i <= cap)
        BY <4>2
      <4> QED BY <4>1, <4>2
    <3>2. DOMAIN big = 1..(2 * cap)
      OBVIOUS
    <3>3. big = [i \in 1..(2 * cap) |-> big[i]]
      OBVIOUS
    <3> HIDE DEF big
    <3>4. 2 * cap \in Nat
      BY <1>1
    <3> QED BY <3>1, <3>2, <3>3, <3>4
  <2> HIDE DEF big
  <2>4. Shape'
    <3>1. ring' \in Seq(Item \cup {NoItem}) /\ Len(ring') = 2 * cap
      BY <2>1, <2>3
    <3>2. 2 * cap >= QueueSize /\ head' \in 0..(2 * cap - 1) /\ tail' \in 0..(2 * cap - 1)
      BY <2>1, <1>1, MqAssumption
    <3>3. overload' \in Nat
      BY <2>1, <1>0 DEF Shape
    <3> QED BY <3>1, <3>2, <3>3, Zenon DEF Shape, cap
  <2>5. Contents' = Held(big, 0, cap)
    BY <2>1, <2>4, ContentsHeldNext
  <2>6. n + 1 = cap
    BY <1>1, <1>3, <1>7 DEF Count
  <2>7. Count(big, 0, cap) = cap /\ \A i \in 1..cap : CellAt(0, i, Len(big)) = i
    BY <1>1, <2>3 DEF Count, CellAt
  <2>8. Held(big, 0, cap) = Append(Contents, v)
    <3> HIDE DEF r, t, n
    <3>1. Held(big, 0, cap) = [i \in 1..(n + 1) |-> r[CellAt(head, i, cap)]]
      <4>1. Held(big, 0, cap) = [i \in 1..cap |-> big[i]]
        BY <2>7 DEF Held
      <4> QED BY <4>1, <2>2, <2>6, Zenon
    <3> QED BY <3>1, <1>5, Zenon
  <2> QED BY <2>4, <2>5, <2>8
<1> QED BY <1>6, <1>7

(* skynet_mq_pop takes the first message, or finds none. *)
LEMMA PopTakes ==
    ASSUME RingOK, MqPop
    PROVE  /\ Shape'
           /\ \/ Contents # << >> /\ Contents' = Tail(Contents)
              \/ Contents' = Contents
<1>0. Shape /\ Contents \in Seq(Item)
  BY DEF RingOK, Shape
<1> DEFINE n == MqLength
           h == IF head + 1 >= cap THEN 0 ELSE head + 1
           r == [ring EXCEPT ![head + 1] = NoItem]
           m == IF tail - h < 0 THEN tail - h + cap ELSE tail - h
<1>1. /\ cap \in Nat /\ cap >= 2 /\ cap >= QueueSize /\ cap = Len(ring)
      /\ head \in 0..(cap - 1) /\ tail \in 0..(cap - 1)
      /\ n \in 0..(cap - 1)
  BY RingFacts DEF cap
<1>2. Contents = Held(ring, head, tail) /\ n = Count(ring, head, tail)
  BY <1>0, ContentsHeld DEF MqLength, Count, cap
<1>3. CASE head = tail
  <2>1. UNCHANGED <<ring, head, tail, overload>>
    BY <1>3 DEF MqPop
  <2>2. Shape'
    BY <2>1, <1>0 DEF Shape, cap
  <2> QED BY <2>1, <2>2, ContentsHeldNext, <1>2
<1>4. CASE head # tail
  <2>1. head' = h /\ ring' = r /\ tail' = tail /\ overload' = IF m > threshold THEN m ELSE overload
    BY <1>4 DEF MqPop
  <2>2. r \in Seq(Item \cup {NoItem}) /\ Len(r) = cap /\ h \in 0..(cap - 1) /\ m \in Nat
    BY <1>0, <1>1 DEF Shape, cap
  <2>3. Shape'
    BY <2>1, <2>2, <1>0, <1>1 DEF Shape, cap
  <2>4. Contents' = Held(r, h, tail)
    BY <2>1, <2>3, ContentsHeldNext
  <2>5. Count(r, h, tail) = n - 1 /\ n \in 1..(cap - 1)
    BY <1>1, <1>2, <1>4, <2>2 DEF Count
  <2>6. \A i \in 1..(n - 1) : r[CellAt(h, i, cap)] = ring[CellAt(head, i + 1, cap)]
    <3>1. \A i \in 1..(n - 1) : /\ CellAt(h, i, cap) = CellAt(head, i + 1, cap)
                                /\ CellAt(h, i, cap) # head + 1
                                /\ CellAt(h, i, cap) \in 1..cap
      BY <1>1, <1>2, <2>5 DEF CellAt
    <3> QED BY <3>1, <1>0, <1>1 DEF Shape
  <2>7. Contents # << >> /\ Contents' = Tail(Contents)
    <3> HIDE DEF r, h, n
    <3>1. Held(r, h, tail) = [i \in 1..(n - 1) |-> r[CellAt(h, i, cap)]]
      BY <2>5, <2>2 DEF Held
    <3>2. Contents = [i \in 1..n |-> ring[CellAt(head, i, cap)]]
      BY <1>2, <1>1 DEF Held
    <3>3. n \in Nat /\ Len(Contents) = n /\ Contents # << >>
      BY <3>2, <1>1, <2>5, <1>0
    <3>4. Tail(Contents) = [i \in 1..(n - 1) |-> Contents[i + 1]]
      BY <3>3, <1>0, TailIs
    <3>5. \A i \in 1..(n - 1) : r[CellAt(h, i, cap)] = Contents[i + 1]
      BY <3>2, <3>3, <2>6
    <3> QED BY <3>1, <3>3, <3>4, <3>5, <2>4
  <2> QED BY <2>3, <2>7
<1> QED BY <1>3, <1>4

(* Every step keeps the shape, and is a step of the queue or a stutter. *)
LEMMA StepIs ==
    ASSUME RingOK, [MqNext]_mqVars
    PROVE  Shape' /\ [Fifo!Next]_Contents
<1>1. ASSUME NEW v \in Item, MqPush(v) PROVE Shape' /\ Fifo!Put(v)
  BY <1>1, PushAppends DEF Fifo!Put
<1>2. CASE MqPop
  <2>1. Shape' /\ ((Contents # << >> /\ Contents' = Tail(Contents)) \/ Contents' = Contents)
    BY <1>2, PopTakes
  <2> QED BY <2>1, Zenon DEF Fifo!Next, Fifo!Get
<1>3. CASE MqOverload \/ UNCHANGED mqVars
  <2>1. UNCHANGED <<ring, head, tail>> /\ overload' \in {0, overload}
    BY <1>3 DEF MqOverload, mqVars
  <2>2. Shape'
    BY <2>1 DEF RingOK, Shape, cap
  <2>3. Contents' = Contents
    BY <2>1 DEF Contents, MqLength, cap, Cell
  <2> QED BY <2>2, <2>3
<1> QED BY <1>1, <1>2, <1>3 DEF MqNext, Fifo!Next

(* The buffer keeps its shape, head and tail stay inside it, and whatever  *)
(* lies between them is a message, for every initial size                  *)
(* (skynet_mq_push, skynet_mq_pop, expand_queue).                          *)
THEOREM RingCorrect == MqSpec => []RingOK
<1>1. MqInit => RingOK
  <2> SUFFICES ASSUME MqInit PROVE RingOK
    OBVIOUS
  <2>1. ring \in Seq(Item \cup {NoItem}) /\ cap = QueueSize
    BY MqAssumption DEF MqInit, cap
  <2>2. MqLength = 0
    BY DEF MqInit, MqLength
  <2>3. Contents = << >>
    BY <2>2 DEF Contents
  <2> QED BY <2>1, <2>3, MqAssumption DEF MqInit, RingOK
<1>2. RingOK /\ [MqNext]_mqVars => RingOK'
  <2> SUFFICES ASSUME RingOK, [MqNext]_mqVars PROVE RingOK'
    OBVIOUS
  <2>1. Shape' /\ [Fifo!Next]_Contents
    BY StepIs
  <2>2. Contents \in Seq(Item)
    BY DEF RingOK
  <2>3. Contents' \in Seq(Item)
    BY <2>1, <2>2 DEF Fifo!Next, Fifo!Put, Fifo!Get
  <2> QED BY <2>1, <2>3 DEF Shape, RingOK
<1> QED BY <1>1, <1>2, PTL DEF MqSpec

(* The doubling of the threshold (skynet_mq_pop) as a function of where it  *)
(* begins.                                                                  *)
Doubling(n, g) == [k \in Nat |-> IF n > k THEN g[2 * k] ELSE k]

(* The loop has a result for every beginning: from k it ends after at most  *)
(* n - k turns, unless it begins at 0.                                      *)
LEMMA DoublingExists ==
    ASSUME NEW n \in Nat
    PROVE  \E g : g = Doubling(n, g)
<1> DEFINE Solves(g, d) ==
             g[0] = 0 /\ \A k \in Nat \ {0} : k + d >= n => g[k] = IF n > k THEN g[2 * k] ELSE k
           T == {d \in Nat : \E g \in [Nat -> Nat] : Solves(g, d)}
<1>1. 0 \in T
  <2> DEFINE g == [k \in Nat |-> k]
  <2>1. g \in [Nat -> Nat] /\ Solves(g, 0)
    OBVIOUS
  <2> QED BY <2>1
<1>2. ASSUME NEW d \in T PROVE d + 1 \in T
  <2>1. d \in Nat
    OBVIOUS
  <2>2. PICK g \in [Nat -> Nat] : Solves(g, d)
    OBVIOUS
  <2> DEFINE h == [k \in Nat |-> IF n > k THEN g[2 * k] ELSE k]
  <2>3. h \in [Nat -> Nat]
    <3>1. \A k \in Nat : 2 * k \in Nat
      OBVIOUS
    <3> QED BY <3>1
  <2>4. ASSUME NEW k \in Nat \ {0}, k + (d + 1) >= n PROVE h[k] = IF n > k THEN h[2 * k] ELSE k
    <3>1. 2 * k \in Nat \ {0} /\ 2 * k + d >= n
      BY <2>1, <2>4
    <3>2. g[2 * k] = IF n > 2 * k THEN g[2 * (2 * k)] ELSE 2 * k
      BY <2>2, <3>1
    <3>3. h[2 * k] = g[2 * k]
      BY <3>1, <3>2
    <3> QED BY <3>3
  <2>5. Solves(h, d + 1)
    <3>1. h[0] = 0
      BY <2>2
    <3> QED BY <2>4, <3>1
  <2> HIDE DEF h
  <2>6. \E x \in [Nat -> Nat] : Solves(x, d + 1)
    BY <2>3, <2>5
  <2> QED BY <2>1, <2>6
<1>3. T = Nat
  <2> HIDE DEF T
  <2>1. T \subseteq Nat
    BY DEF T
  <2> QED BY <1>1, <1>2, <2>1, Induction
<1>4. PICK g \in [Nat -> Nat] : Solves(g, n)
  <2>1. n \in T
    BY <1>3
  <2> QED BY <2>1
<1>5. \A k \in Nat : g[k] = IF n > k THEN g[2 * k] ELSE k
  <2>1. \A k \in Nat \ {0} : k + n >= n
    OBVIOUS
  <2>2. g[0] = 0 /\ 2 * 0 = 0
    BY <1>4
  <2> QED BY <1>4, <2>1, <2>2
<1>6. g = Doubling(n, g)
  BY <1>5 DEF Doubling
<1> QED BY <1>6

(* From a threshold that is not 0 the loop ends, at a number.               *)
LEMMA RaisedIsNat ==
    ASSUME threshold \in Nat \ {0}, NEW n \in Nat
    PROVE  Raised(n) \in Nat \ {0}
<1> DEFINE f == CHOOSE g : g = Doubling(n, g)
<1>1. f = Doubling(n, f)
  BY DoublingExists
<1>2. Raised(n) = f[threshold]
  BY DEF Raised, Doubling
<1> HIDE DEF f
<1>3. \A k \in Nat : f[k] = IF n > k THEN f[2 * k] ELSE k
  BY <1>1 DEF Doubling
<1> DEFINE T == {d \in Nat : \A k \in Nat \ {0} : k + d >= n => f[k] \in Nat \ {0}}
<1>4. 0 \in T
  BY <1>3
<1>5. ASSUME NEW d \in T PROVE d + 1 \in T
  <2>1. d \in Nat /\ \A k \in Nat \ {0} : k + d >= n => f[k] \in Nat \ {0}
    OBVIOUS
  <2>2. ASSUME NEW k \in Nat \ {0}, k + (d + 1) >= n PROVE f[k] \in Nat \ {0}
    <3>1. 2 * k \in Nat \ {0} /\ 2 * k + d >= n
      BY <2>1, <2>2
    <3> QED BY <1>3, <2>1, <3>1
  <2> QED BY <2>1, <2>2
<1>6. T = Nat
  <2> HIDE DEF T
  <2>1. T \subseteq Nat
    BY DEF T
  <2> QED BY <1>4, <1>5, <2>1, Induction
<1>7. n \in T
  <2> HIDE DEF T
  <2> QED BY <1>6
<1>8. threshold + n >= n
  OBVIOUS
<1> QED BY <1>2, <1>7, <1>8

(* Every variable of a message queue keeps its type, for every initial size: *)
(* the loop of skynet_mq_pop that doubles the threshold always ends, and the *)
(* ring keeps its shape (RingCorrect).                                       *)
THEOREM MqTypeCorrect == MqSpec => []MqTypeOK
<1> DEFINE Inv == threshold \in Nat \ {0}
<1>1. MqInit => Inv
  BY MqAssumption DEF MqInit
<1>2. RingOK /\ Inv /\ [MqNext]_mqVars => Inv'
  <2> SUFFICES ASSUME RingOK, Inv, [MqNext]_mqVars PROVE Inv'
    OBVIOUS
  <2>1. CASE MqPop
    <3>1. Overload \in Nat \ {0} /\ cap \in Nat /\ head \in 0..(cap - 1) /\ tail \in 0..(cap - 1)
      BY MqAssumption DEF RingOK, cap
    <3>2. CASE head # tail
      <4> DEFINE h == IF head + 1 >= cap THEN 0 ELSE head + 1
                 n == IF tail - h < 0 THEN tail - h + cap ELSE tail - h
      <4>1. threshold' = Raised(n)
        BY <2>1, <3>2 DEF MqPop
      <4>2. n \in Nat
        BY <3>1
      <4> HIDE DEF n
      <4> QED BY <4>1, <4>2, RaisedIsNat
    <3>3. CASE head = tail
      BY <2>1, <3>1, <3>3 DEF MqPop
    <3> QED BY <3>2, <3>3
  <2>2. CASE MqOverload \/ UNCHANGED mqVars
    BY <2>2 DEF MqOverload, mqVars
  <2>3. ASSUME NEW v \in Item, MqPush(v) PROVE Inv'
    BY <2>3 DEF MqPush
  <2> QED BY <2>1, <2>2, <2>3 DEF MqNext
<1>3. RingOK /\ Inv => MqTypeOK
  BY DEF MqTypeOK
<1> QED BY <1>1, <1>2, <1>3, RingCorrect, PTL DEF MqSpec

(* The ring buffer implements a first-in first-out queue: no message is    *)
(* lost, repeated or overtaken, wherever head and tail are when the buffer *)
(* doubles (skynet_mq_push, skynet_mq_pop, expand_queue).                  *)
THEOREM QueueRefinesFifo == MqSpec => ImplementsFifoQueue
<1>1. MqInit => Fifo!Init
  BY DEF MqInit, Fifo!Init, Contents, MqLength
<1>2. RingOK /\ [MqNext]_mqVars => [Fifo!Next]_Contents
  BY StepIs
<1> QED BY <1>1, <1>2, RingCorrect, PTL DEF MqSpec, ImplementsFifoQueue, Fifo!Spec

-----------------------------------------------------------------------------
(* The handle table                                                        *)

(* What a remainder is. *)
LEMMA ModIs ==
    ASSUME NEW n \in Nat \ {0}, NEW q \in Int, NEW r \in 0..(n - 1)
    PROVE  (q * n + r) % n = r
OBVIOUS

LEMMA Multiples ==
    ASSUME NEW a \in Int, NEW b \in Int, NEW n \in Int
    PROVE  (a + b) * n = a * n + b * n /\ (a * b) * n = a * (b * n) /\ a * n \in Int
OBVIOUS

LEMMA ModForm ==
    ASSUME NEW n \in Nat \ {0}, NEW x \in Int
    PROVE  \E q \in Int, r \in 0..(n - 1) : x = q * n + r /\ x % n = r
<1> DEFINE T == {y \in Nat : \E q \in Int : x = q * n + y}
<1>1. T # {}
  <2>1. ASSUME x >= 0 PROVE x \in T
    <3>1. x \in Nat /\ 0 \in Int /\ x = 0 * n + x
      BY <2>1
    <3> QED BY <3>1
  <2>2. ASSUME x < 0 PROVE \E y : y \in T
    <3>1. x * n \in Int /\ x * n <= x
      BY <2>2
    <3> DEFINE y == x - x * n
    <3>2. y \in Nat /\ x = x * n + y
      BY <3>1
    <3> HIDE DEF y
    <3>3. y \in T
      BY <3>2
    <3> QED BY <3>3
  <2> HIDE DEF T
  <2> QED BY <2>1, <2>2
<1>2. PICK y \in T : \A z \in T : y <= z
  <2>1. T \subseteq Nat
    OBVIOUS
  <2> HIDE DEF T
  <2> QED BY <1>1, <2>1, NatLeast
<1>3. y \in Nat /\ \E q \in Int : x = q * n + y
  OBVIOUS
<1>4. PICK q \in Int : x = q * n + y
  BY <1>3
<1>5. y < n
  <2> SUFFICES ASSUME y >= n PROVE FALSE
    BY <1>3
  <2>1. (q + 1) * n = q * n + 1 * n /\ q * n \in Int
    BY Multiples
  <2>2. x = (q + 1) * n + (y - n) /\ q + 1 \in Int /\ y - n \in Nat
    BY <1>3, <1>4, <2>1
  <2>3. y - n \in T
    BY <2>2
  <2>4. y <= y - n
    <3> HIDE DEF T
    <3> QED BY <1>2, <2>3
  <2> HIDE DEF T
  <2> QED BY <1>3, <2>4
<1>6. y \in 0..(n - 1)
  BY <1>3, <1>5
<1>7. x % n = y
  BY <1>4, <1>6, ModIs
<1> HIDE DEF T
<1> QED BY <1>4, <1>6, <1>7

LEMMA ModRange ==
    ASSUME NEW n \in Nat \ {0}, NEW x \in Int
    PROVE  x % n \in 0..(n - 1)
BY ModForm

(* A remainder by a multiple of n keeps the remainder by n. *)
LEMMA ModMod ==
    ASSUME NEW n \in Nat \ {0}, NEW m \in Nat \ {0}, NEW x \in Int
    PROVE  (x % (m * n)) % n = x % n
<1>1. m * n \in Nat \ {0}
  OBVIOUS
<1>2. PICK q \in Int, y \in 0..(m * n - 1) : x = q * (m * n) + y /\ x % (m * n) = y
  BY <1>1, ModForm
<1>3. y \in Int
  BY <1>1
<1>4. PICK p \in Int, r \in 0..(n - 1) : y = p * n + r /\ y % n = r
  BY <1>3, ModForm
<1>5. x = (q * m + p) * n + r /\ q * m + p \in Int
  <2>1. (q * m + p) * n = (q * m) * n + p * n /\ (q * m) * n = q * (m * n) /\ q * m \in Int
    BY Multiples
  <2> DEFINE A == q * (m * n)
             B == p * n
             C == (q * m + p) * n
  <2>2. A \in Int /\ B \in Int /\ C = A + B /\ q * m + p \in Int
    BY <1>1, <2>1, Multiples
  <2>3. x = A + y /\ y = B + r
    BY <1>2, <1>4
  <2> HIDE DEF A, B
  <2>4. x = C + r
    BY <1>3, <2>2, <2>3
  <2> QED BY <2>2, <2>4
<1>6. x % n = r
  BY <1>5, ModIs
<1> QED BY <1>2, <1>4, <1>6

(* So does the addition of a multiple. *)
LEMMA ModPlus ==
    ASSUME NEW n \in Nat \ {0}, NEW m \in Int, NEW x \in Int
    PROVE  (x + m * n) % n = x % n
<1>1. PICK q \in Int, r \in 0..(n - 1) : x = q * n + r /\ x % n = r
  BY ModForm
<1>2. (q + m) * n = q * n + m * n /\ q * n \in Int /\ m * n \in Int /\ q + m \in Int
  BY Multiples
<1>3. x + m * n = (q + m) * n + r
  BY <1>1, <1>2
<1>4. (x + m * n) % n = r
  BY <1>2, <1>3, ModIs
<1> QED BY <1>1, <1>4

(* When the table doubles, an entry goes where it was, or as far on as the *)
(* table was long.                                                         *)
LEMMA ModDouble ==
    ASSUME NEW n \in Nat \ {0}, NEW x \in Int
    PROVE  x % (2 * n) \in {x % n, (x % n) + n}
<1>1. (x % (2 * n)) % n = x % n
  <2>1. 2 \in Nat \ {0}
    OBVIOUS
  <2> QED BY <2>1, ModMod
<1>2. 2 * n \in Nat \ {0}
  OBVIOUS
<1>3. PICK y \in 0..(2 * n - 1) : x % (2 * n) = y
  BY <1>2, ModRange
<1>4. CASE y < n
  <2>1. y \in 0..(n - 1) /\ y = 0 * n + y
    BY <1>3, <1>4
  <2>2. y % n = y
    BY <2>1, ModIs
  <2> QED BY <1>1, <1>3, <2>2
<1>5. CASE y >= n
  <2>1. y - n \in 0..(n - 1) /\ y = 1 * n + (y - n)
    BY <1>3, <1>5
  <2>2. y % n = y - n
    BY <2>1, ModIs
  <2>3. y = (y % n) + n
    BY <1>3, <2>2
  <2> QED BY <1>1, <1>3, <2>3
<1> QED BY <1>3, <1>4, <1>5

(* Counting on from h, every remainder comes up within n steps. *)
LEMMA ModReached ==
    ASSUME NEW n \in Nat \ {0}, NEW h \in Int, NEW p \in 0..(n - 1)
    PROVE  \E i \in 0..(n - 1) : (i + h) % n = p
<1>1. p - h \in Int
  OBVIOUS
<1>2. PICK q \in Int, i \in 0..(n - 1) : p - h = q * n + i
  BY <1>1, ModForm
<1>3. (- q) * n = - (q * n) /\ q * n \in Int /\ - q \in Int
  OBVIOUS
<1>4. i + h = (- q) * n + p
  BY <1>2, <1>3
<1>5. (i + h) % n = p
  BY <1>3, <1>4, ModIs
<1> QED BY <1>5

-----------------------------------------------------------------------------
PowFcn(g) == [k \in Nat |-> IF k = 0 THEN 1 ELSE 2 * g[k - 1]]

(* The powers of two are what their recursion says. *)
LEMMA PowExists == \E g : g = PowFcn(g)
<1> DEFINE Solves(g, n) == g[0] = 1 /\ \A k \in 0..n : k # 0 => g[k] = 2 * g[k - 1]
           T == {n \in Nat : \E g \in [Nat -> Nat] : Solves(g, n)}
<1>1. 0 \in T
  <2> DEFINE g == [k \in Nat |-> 1]
  <2>1. g \in [Nat -> Nat] /\ Solves(g, 0)
    OBVIOUS
  <2> QED BY <2>1
<1>2. ASSUME NEW n \in T PROVE n + 1 \in T
  <2>1. n \in Nat
    OBVIOUS
  <2>2. PICK g \in [Nat -> Nat] : Solves(g, n)
    OBVIOUS
  <2> DEFINE h == [k \in Nat |-> IF k = n + 1 THEN 2 * g[n] ELSE g[k]]
  <2>3. h \in [Nat -> Nat]
    BY <2>1
  <2>4. Solves(h, n + 1)
    BY <2>1, <2>2
  <2> HIDE DEF h
  <2>5. \E x \in [Nat -> Nat] : Solves(x, n + 1)
    BY <2>3, <2>4
  <2> QED BY <2>1, <2>5
<1>3. T = Nat
  <2> HIDE DEF T
  <2>1. T \subseteq Nat
    BY DEF T
  <2> QED BY <1>1, <1>2, <2>1, Induction
<1> DEFINE U(n) == {g \in [Nat -> Nat] : Solves(g, n)}
           W == [n \in Nat |-> CHOOSE g \in U(n) : TRUE]
           P == [n \in Nat |-> W[n][n]]
<1>4. ASSUME NEW n \in Nat PROVE W[n] \in [Nat -> Nat] /\ Solves(W[n], n)
  <2>1. n \in T
    BY <1>3
  <2>2. U(n) # {}
    BY <2>1
  <2> HIDE DEF U
  <2>3. W[n] \in U(n)
    BY <2>2
  <2> QED BY <2>3 DEF U
<1> HIDE DEF W
<1>5. ASSUME NEW n \in Nat, NEW m \in Nat, n <= m PROVE W[m][n] = P[n]
  <2> DEFINE S == {j \in Nat : j <= n => W[m][j] = W[n][j]}
  <2>1. 0 \in S
    BY <1>4
  <2>2. ASSUME NEW j \in S PROVE j + 1 \in S
    <3>1. j \in Nat
      OBVIOUS
    <3>2. SUFFICES ASSUME j + 1 <= n PROVE W[m][j + 1] = W[n][j + 1]
      BY <3>1
    <3>3. W[m][j] = W[n][j]
      BY <3>1, <3>2
    <3>4. j + 1 \in 0..n /\ j + 1 \in 0..m /\ j + 1 # 0 /\ (j + 1) - 1 = j
      BY <1>5, <3>1, <3>2
    <3>5. W[n][j + 1] = 2 * W[n][j]
      BY <1>4, <3>4
    <3>6. W[m][j + 1] = 2 * W[m][j]
      BY <1>4, <3>4
    <3> QED BY <3>3, <3>5, <3>6
  <2>3. S = Nat
    <3> HIDE DEF S
    <3>1. S \subseteq Nat
      BY DEF S
    <3> QED BY <2>1, <2>2, <3>1, Induction
  <2>4. n \in S
    BY <2>3
  <2> QED BY <2>4
<1>6. ASSUME NEW k \in Nat PROVE P[k] = IF k = 0 THEN 1 ELSE 2 * P[k - 1]
  <2>1. CASE k = 0
    BY <1>4, <2>1
  <2>2. CASE k # 0
    <3>1. k - 1 \in Nat /\ k - 1 <= k /\ k \in 0..k
      BY <2>2
    <3>2. W[k][k] = 2 * W[k][k - 1]
      BY <1>4, <2>2, <3>1
    <3>3. W[k][k - 1] = P[k - 1]
      BY <1>5, <3>1
    <3> QED BY <2>2, <3>2, <3>3
  <2> QED BY <2>1, <2>2
<1>7. P = PowFcn(P)
  BY <1>6 DEF PowFcn
<1> QED BY <1>7

LEMMA PowIs == Pow2 = PowFcn(Pow2)
<1>1. Pow2 = CHOOSE g : g = PowFcn(g)
  BY DEF Pow2, PowFcn
<1> QED BY <1>1, PowExists

LEMMA PowFacts ==
    /\ Pow2[0] = 1
    /\ \A k \in Nat : Pow2[k] \in Nat \ {0} /\ Pow2[k + 1] = 2 * Pow2[k]
<1>1. \A k \in Nat : Pow2[k] = IF k = 0 THEN 1 ELSE 2 * Pow2[k - 1]
  <2>1. \A k \in Nat : PowFcn(Pow2)[k] = IF k = 0 THEN 1 ELSE 2 * Pow2[k - 1]
    BY DEF PowFcn
  <2> QED BY <2>1, PowIs
<1>2. \A k \in Nat : Pow2[k + 1] = 2 * Pow2[k]
  <2> TAKE k \in Nat
  <2>1. k + 1 \in Nat /\ k + 1 # 0 /\ (k + 1) - 1 = k
    OBVIOUS
  <2> QED BY <1>1, <2>1
<1>3. Pow2[0] = 1
  BY <1>1
<1> DEFINE T == {k \in Nat : Pow2[k] \in Nat \ {0}}
<1>4. 0 \in T /\ \A k \in T : k + 1 \in T
  BY <1>2, <1>3
<1>5. T = Nat
  <2> HIDE DEF T
  <2>1. T \subseteq Nat
    BY DEF T
  <2> QED BY <1>4, <2>1, Induction
<1> QED BY <1>2, <1>3, <1>5

(* A greater power is a multiple. *)
LEMMA PowMultiple ==
    ASSUME NEW j \in Nat, NEW k \in Nat, j <= k
    PROVE  \E m \in Nat \ {0} : Pow2[k] = m * Pow2[j]
<1> DEFINE T == {d \in Nat : \E m \in Nat \ {0} : Pow2[j + d] = m * Pow2[j]}
<1>1. 0 \in T
  <2>1. j + 0 = j /\ Pow2[j] = 1 * Pow2[j]
    BY PowFacts
  <2> QED BY <2>1
<1>2. ASSUME NEW d \in T PROVE d + 1 \in T
  <2>1. d \in Nat
    OBVIOUS
  <2>2. PICK m \in Nat \ {0} : Pow2[j + d] = m * Pow2[j]
    OBVIOUS
  <2>3. Pow2[j + (d + 1)] = 2 * Pow2[j + d]
    <3>1. j + (d + 1) = (j + d) + 1 /\ j + d \in Nat
      BY <2>1
    <3> QED BY <3>1, PowFacts
  <2>4. Pow2[j] \in Nat
    BY PowFacts
  <2>5. 2 * m \in Nat \ {0} /\ Pow2[j + (d + 1)] = (2 * m) * Pow2[j]
    BY <2>2, <2>3, <2>4
  <2> QED BY <2>1, <2>5
<1>3. T = Nat
  <2> HIDE DEF T
  <2>1. T \subseteq Nat
    BY DEF T
  <2> QED BY <1>1, <1>2, <2>1, Induction
<1>4. k - j \in Nat /\ j + (k - j) = k
  OBVIOUS
<1>5. k - j \in T
  <2> HIDE DEF T
  <2> QED BY <1>3, <1>4
<1> QED BY <1>4, <1>5

-----------------------------------------------------------------------------
(* The handle of a context in the table: the one it was given, or, once it *)
(* is stored, its own.                                                     *)
Of(g, h, c) == IF g[c] # Null THEN g[c] ELSE h[c]

(* Every context is where its handle says. *)
Entries(tb, g, h) ==
    \A i \in DOMAIN tb : tb[i] # Null => Of(g, h, tb[i]) \in Handles /\ Hash(Of(g, h, tb[i]), tb) = i

TableInv ==
    /\ ~aborted /\ Entries(table, given, handle)
    /\ \A c \in Context : given[c] # Null => c \in Range(table)

(* A table whose size divides the number of handles. *)
Fits(tb) ==
    /\ tb \in Seq(Context \cup {Null}) /\ Len(tb) \in Nat \ {0}
    /\ \E m \in Nat \ {0} : Mask = m * Len(tb)

(* The names are sorted, and no name is there twice. *)
Ascending(l) == \A i, j \in DOMAIN l : i < j => l[i].name < l[j].name

LEMMA MaskFacts == Mask \in Nat \ {0} /\ Harbor * Mask \in Nat
<1>1. Mask \in Nat \ {0}
  BY PowFacts, HandleAssumption DEF Mask
<1>2. Harbor \in Nat
  BY HandleAssumption
<1> HIDE DEF Mask
<1> QED BY <1>1, <1>2

LEMMA HandlesAre ==
    ASSUME NEW v \in 0..(Mask - 1)
    PROVE  v + Harbor * Mask \in Handles /\ v + Harbor * Mask \in Int
<1> HIDE DEF Mask
<1> DEFINE b == Harbor * Mask
<1>1. b \in Nat /\ Mask \in Nat
  BY MaskFacts
<1> HIDE DEF b
<1>2. v + b \in b..(b + Mask - 1) /\ v + b \in Int
  BY <1>1
<1> QED BY <1>2 DEF Handles, b

LEMMA HandlesInt == Handles \subseteq Nat
<1> DEFINE b == Harbor * Mask
<1>1. b \in Nat /\ Mask \in Nat
  BY MaskFacts
<1> HIDE DEF b, Mask
<1>2. b..(b + Mask - 1) \subseteq Nat
  BY <1>1
<1> QED BY <1>2 DEF Handles, b

LEMMA NullIsNone == Null \notin Context /\ Null \notin Handles
BY HandleAssumption, HandlesInt

(* The harbor and the mask do not matter for the place in the table. *)
LEMMA PlaceOf ==
    ASSUME NEW n \in Nat \ {0}, NEW m \in Nat \ {0}, Mask = m * n, NEW x \in Int
    PROVE  /\ x % Mask \in 0..(Mask - 1) /\ (x % Mask) % n = x % n
           /\ ((x % Mask) + Harbor * Mask) % n = x % n
<1>1. Mask \in Nat \ {0} /\ Harbor \in Nat
  BY MaskFacts, HandleAssumption
<1> HIDE DEF Mask
<1>2. x % Mask \in 0..(Mask - 1)
  BY <1>1, ModRange
<1>3. (x % Mask) % n = x % n
  BY ModMod
<1>4. PICK v \in Int : x % Mask = v
  BY <1>1, <1>2
<1>5. Harbor * Mask = (Harbor * m) * n /\ Harbor * m \in Int
  BY <1>1, Multiples
<1>6. (v + (Harbor * m) * n) % n = v % n
  BY <1>5, ModPlus
<1> QED BY <1>2, <1>3, <1>4, <1>5, <1>6

(* The table of a sound state fits. *)
LEMMA TableFits ==
    ASSUME HandleTypeOK
    PROVE  /\ Fits(table) /\ slot_size <= Mask
           /\ slot_size < Mask => /\ \E k \in 0..HandleBits : 2 * slot_size = Pow2[k]
                                  /\ \E m \in Nat \ {0} : Mask = m * (2 * slot_size)
                                  /\ 2 * slot_size <= Mask
<1>1. PICK k \in 0..HandleBits : slot_size = Pow2[k]
  BY DEF HandleTypeOK
<1>2. HandleBits \in Nat /\ k \in Nat /\ k <= HandleBits
  BY HandleAssumption
<1>3. Pow2[k] \in Nat \ {0} /\ Pow2[k + 1] = 2 * Pow2[k] /\ Mask \in Nat \ {0}
  BY <1>2, PowFacts, MaskFacts
<1>4. PICK m \in Nat \ {0} : Mask = m * Pow2[k]
  BY <1>2, PowMultiple DEF Mask
<1>5. Pow2[k] <= Mask
  BY <1>3, <1>4
<1>6. Fits(table)
  BY <1>1, <1>3, <1>4 DEF Fits, HandleTypeOK, slot_size
<1>7. ASSUME Pow2[k] < Mask
      PROVE  /\ \E j \in 0..HandleBits : 2 * Pow2[k] = Pow2[j]
             /\ \E p \in Nat \ {0} : Mask = p * (2 * Pow2[k])
             /\ 2 * Pow2[k] <= Mask
  <2>1. k # HandleBits
    BY <1>3, <1>7 DEF Mask
  <2>2. k + 1 \in 0..HandleBits /\ k + 1 \in Nat /\ k + 1 <= HandleBits
    BY <1>2, <2>1
  <2>3. PICK p \in Nat \ {0} : Mask = p * Pow2[k + 1]
    BY <1>2, <2>2, PowMultiple DEF Mask
  <2>4. Mask = p * (2 * Pow2[k])
    BY <1>3, <2>3
  <2>5. 2 * Pow2[k] <= Mask
    <3> DEFINE y == 2 * Pow2[k]
    <3>1. y \in Nat \ {0} /\ Mask = p * y
      BY <1>3, <2>4
    <3> HIDE DEF y, Mask
    <3>2. y <= p * y
      BY <3>1
    <3> QED BY <3>1, <3>2 DEF y
  <2> QED BY <1>3, <2>2, <2>4, <2>5
<1> QED BY <1>1, <1>5, <1>6, <1>7

(* Registering in a table tb with room for one more. *)
Placing(c, tb, p, v) ==
    /\ p \in 1..Len(tb) /\ v \in Handles /\ tb[p] = Null /\ Hash(v, tb) = p
    /\ table' = [tb EXCEPT ![p] = c] /\ given' = [given EXCEPT ![c] = v]
    /\ handle_index' \in 1..Mask /\ UNCHANGED <<handle, names, aborted>>

LEMMA RegisterPlaces ==
    ASSUME HandleTypeOK, NEW tb, Fits(tb), NEW c \in Context, Register(c, tb),
           \E p \in 1..Len(tb) : tb[p] = Null
    PROVE  \E p, v : Placing(c, tb, p, v)
<1> DEFINE n == Len(tb)
           h(i) == (i + handle_index) % Mask
           free(i) == tb[Hash(h(i), tb)] = Null
           T == {j \in 0..(n - 1) : free(j)}
<1>1. n \in Nat \ {0} /\ handle_index \in Int /\ Mask \in Nat \ {0}
  BY MaskFacts DEF Fits, HandleTypeOK
<1>2. PICK m \in Nat \ {0} : Mask = m * n
  BY DEF Fits
<1>3. ASSUME NEW i \in 0..(n - 1)
      PROVE  /\ h(i) \in 0..(Mask - 1) /\ h(i) % n = (i + handle_index) % n
             /\ (h(i) + Harbor * Mask) % n = (i + handle_index) % n
             /\ (i + handle_index) % n \in 0..(n - 1)
  <2>1. i + handle_index \in Int
    BY <1>1
  <2> QED BY <1>1, <1>2, <2>1, PlaceOf, ModRange
<1>4. PICK p \in 1..n : tb[p] = Null
  OBVIOUS
<1>5. PICK i \in 0..(n - 1) : (i + handle_index) % n = p - 1
  <2>1. p - 1 \in 0..(n - 1)
    BY <1>1
  <2> QED BY <1>1, <2>1, ModReached
<1>6. i \in T
  BY <1>1, <1>3, <1>4, <1>5 DEF Hash
<1>7. PICK x \in T : \A y \in T : x <= y
  <2>1. T \subseteq Nat
    <3> HIDE DEF free
    <3> QED BY <1>1
  <2>2. T # {}
    BY <1>6
  <2> HIDE DEF T
  <2> QED BY <2>1, <2>2, NatLeast
<1>8. x \in 0..(n - 1) /\ free(x) /\ \A k \in 0..(x - 1) : ~free(k)
  <2> HIDE DEF free
  <2> QED BY <1>1, <1>7
<1> DEFINE j == CHOOSE y \in 0..(n - 1) : free(y) /\ \A k \in 0..(y - 1) : ~free(k)
<1>9. /\ table' = [tb EXCEPT ![Hash(h(j), tb)] = c] /\ handle_index' = h(j) + 1
      /\ given' = [given EXCEPT ![c] = h(j) + Harbor * Mask]
      /\ UNCHANGED <<handle, names, aborted>>
  BY DEF Register
<1>10. j \in 0..(n - 1) /\ free(j)
  <2> HIDE DEF free, T
  <2> QED BY <1>8
<1> HIDE DEF j
<1> DEFINE e == Hash(h(j), tb)
           v == h(j) + Harbor * Mask
<1>11. h(j) \in 0..(Mask - 1) /\ v % n = h(j) % n /\ h(j) % n \in 0..(n - 1)
  BY <1>3, <1>10
<1>12. v \in Handles
  BY <1>11, HandlesAre
<1>13. e \in 1..n /\ Hash(v, tb) = e /\ tb[e] = Null
  BY <1>1, <1>10, <1>11 DEF Hash
<1>14. h(j) + 1 \in 1..Mask
  <2>1. PICK y \in 0..(Mask - 1) : y = h(j)
    BY <1>11
  <2>2. y + 1 \in 1..Mask
    BY <1>1
  <2> QED BY <2>1, <2>2
<1>15. Placing(c, tb, e, v)
  BY <1>9, <1>12, <1>13, <1>14 DEF Placing
<1> QED BY <1>15

(* A table as it is when a launch begins: everybody knows his handle. *)
LEMMA PlacingKeeps ==
    ASSUME HandleTypeOK, NEW tb, Fits(tb), Entries(tb, given, handle), NEW c \in Context, c \notin Range(tb),
           NEW p, NEW v, Placing(c, tb, p, v), ~aborted,
           \E k \in 0..HandleBits : Len(tb) = Pow2[k],
           \A d \in Context : given[d] # Null => d \in Range(tb)
    PROVE  HandleTypeOK' /\ TableInv'
<1>1. /\ p \in 1..Len(tb) /\ v \in Handles /\ tb[p] = Null /\ Hash(v, tb) = p
      /\ table' = [tb EXCEPT ![p] = c] /\ given' = [given EXCEPT ![c] = v]
      /\ handle_index' \in 1..Mask /\ handle' = handle /\ names' = names /\ aborted' = aborted
  BY DEF Placing
<1>2. tb \in Seq(Context \cup {Null}) /\ DOMAIN tb = 1..Len(tb) /\ Len(tb) \in Nat
  BY DEF Fits
<1>3. /\ table' \in Seq(Context \cup {Null}) /\ Len(table') = Len(tb) /\ DOMAIN table' = DOMAIN tb
      /\ table'[p] = c /\ \A i \in DOMAIN tb : i # p => table'[i] = tb[i]
  BY <1>1, <1>2
<1>4. given \in [Context -> Handles \cup {Null}] /\ given' \in [Context -> Handles \cup {Null}]
  BY <1>1 DEF HandleTypeOK
<1>5. HandleTypeOK'
  BY <1>1, <1>3, <1>4 DEF HandleTypeOK, slot_size
<1>6. given'[c] = v /\ given'[c] # Null /\ \A d \in Context : d # c => given'[d] = given[d]
  BY <1>1, <1>4, NullIsNone
<1>7. ASSUME NEW i \in DOMAIN table', table'[i] # Null
      PROVE  /\ Of(given', handle', table'[i]) \in Handles
             /\ Hash(Of(given', handle', table'[i]), table') = i
  <2>1. CASE i = p
    <3>1. Of(given', handle', c) = v
      BY <1>6 DEF Of
    <3>2. Hash(v, table') = p
      BY <1>1, <1>3 DEF Hash
    <3>3. table'[i] = c
      BY <1>3, <2>1
    <3> QED BY <1>1, <2>1, <3>1, <3>2, <3>3
  <2>2. CASE i # p
    <3>1. PICK d \in Context : table'[i] = d /\ tb[i] = d
      BY <1>2, <1>3, <1>7, <2>2, NullIsNone, ElementOfSeq
    <3>2. d # c
      BY <1>2, <1>3, <1>7, <3>1 DEF Range
    <3>3. Of(given', handle', d) = Of(given, handle, d)
      BY <1>1, <1>6, <3>2 DEF Of
    <3>4. Of(given, handle, d) \in Handles /\ Hash(Of(given, handle, d), tb) = i
      BY <1>3, <1>7, <3>1, NullIsNone DEF Entries
    <3>5. Hash(Of(given, handle, d), tb) = Hash(Of(given, handle, d), table')
      BY <1>3 DEF Hash
    <3> QED BY <3>1, <3>3, <3>4, <3>5
  <2> QED BY <2>1, <2>2
<1>8. ASSUME NEW d \in Context, given'[d] # Null PROVE d \in Range(table')
  <2>1. CASE d = c
    BY <1>1, <1>2, <1>3, <2>1 DEF Range
  <2>2. CASE d # c
    <3>1. d \in Range(tb)
      BY <1>6, <1>8, <2>2
    <3>2. PICK i \in DOMAIN tb : tb[i] = d
      BY <3>1 DEF Range
    <3>3. i # p
      BY <1>1, <3>2, NullIsNone
    <3> QED BY <1>3, <3>2, <3>3 DEF Range
  <2> QED BY <2>1, <2>2
<1>9. Entries(table, given, handle)'
  BY <1>7 DEF Entries, Of, Hash, Handles
<1>10. TableInv'
  BY <1>1, <1>8, <1>9 DEF TableInv
<1> QED BY <1>5, <1>10

(* Where everybody knows his handle, the contexts of a full table go to     *)
(* different entries of the one of twice the size, where entries are free.  *)
LEMMA DoublingFits ==
    ASSUME HandleTypeOK, TableInv, Null \notin Range(table), slot_size < Mask,
           \A d \in Context : given[d] = Null
    PROVE  /\ ExpandAsserts(table) /\ Fits(Expanded(table)) /\ Len(Expanded(table)) = 2 * slot_size
           /\ Entries(Expanded(table), given, handle)
           /\ \A c \in Context : c \in Range(Expanded(table)) => c \in Range(table)
           /\ \E p \in 1..Len(Expanded(table)) : Expanded(table)[p] = Null
<1> DEFINE n == Len(table)
           X == Expanded(table)
           Here(i) == {c \in Range(table) : handle[c] % (2 * n) = i - 1}
<1>1. /\ n \in Nat \ {0} /\ 2 * n \in Nat \ {0} /\ 2 * n <= Mask /\ DOMAIN table = 1..n
      /\ table \in Seq(Context \cup {Null}) /\ \E m \in Nat \ {0} : Mask = m * (2 * n)
  BY TableFits DEF Fits, slot_size
<1>2. \A i \in 1..n : table[i] \in Context
  BY <1>1, ElementOfSeq DEF Range
<1>3. ASSUME NEW i \in 1..n
      PROVE  handle[table[i]] \in Handles /\ handle[table[i]] \in Int /\ handle[table[i]] % n = i - 1
  <2>1. given[table[i]] = Null /\ table[i] # Null
    BY <1>2, NullIsNone
  <2>2. Of(given, handle, table[i]) = handle[table[i]]
    BY <2>1 DEF Of
  <2>3. handle[table[i]] \in Handles /\ Hash(handle[table[i]], table) = i
    BY <1>1, <2>1, <2>2 DEF TableInv, Entries
  <2>4. PICK h : h = handle[table[i]]
    OBVIOUS
  <2>5. h \in Handles /\ h \in Int /\ handle[table[i]] = h
    <3>1. h \in Nat
      BY <2>3, <2>4, HandlesInt
    <3> QED BY <2>3, <2>4, <3>1
  <2>6. h % n \in 0..(n - 1)
    BY <1>1, <2>5, ModRange
  <2>7. (h % n) + 1 = i
    BY <2>3, <2>5 DEF Hash
  <2>8. h % n = i - 1
    BY <1>1, <2>6, <2>7
  <2> QED BY <2>3, <2>4, <2>5, <2>8
<1>4. ASSUME NEW i \in 1..n
      PROVE  handle[table[i]] % (2 * n) \in {i - 1, i - 1 + n}
  BY <1>1, <1>3, ModDouble
<1>5. ASSUME NEW c \in Range(table)
      PROVE  \E i \in 1..n : table[i] = c
  BY <1>1 DEF Range
<1>6. ASSUME NEW c \in Range(table), NEW d \in Range(table), handle[c] % (2 * n) = handle[d] % (2 * n)
      PROVE  c = d
  <2>1. PICK i \in 1..n : table[i] = c
    BY <1>5
  <2>2. PICK j \in 1..n : table[j] = d
    BY <1>5
  <2>3. handle[c] % (2 * n) \in {i - 1, i - 1 + n} /\ handle[d] % (2 * n) \in {j - 1, j - 1 + n}
    BY <1>4, <2>1, <2>2
  <2>4. i = j
    BY <1>1, <1>6, <2>3
  <2> QED BY <2>1, <2>2, <2>4
<1>7. ExpandAsserts(table)
  BY <1>1, <1>6 DEF ExpandAsserts
<1>8. /\ X = [i \in 1..(2 * n) |-> IF Here(i) = {} THEN Null ELSE CHOOSE c \in Here(i) : TRUE]
  BY DEF Expanded
<1> HIDE DEF X
<1>9. ASSUME NEW i \in 1..(2 * n)
      PROVE  /\ X[i] = Null => Here(i) = {}
             /\ X[i] # Null => X[i] \in Here(i)
             /\ X[i] \in Context \cup {Null}
  <2>1. Here(i) \subseteq Context
    BY <1>2, <1>5
  <2>2. Here(i) # {} => X[i] \in Here(i)
    <3> HIDE DEF Here
    <3> QED BY <1>8
  <2>3. Here(i) = {} => X[i] = Null
    BY <1>8
  <2> HIDE DEF Here
  <2> QED BY <2>1, <2>2, <2>3, NullIsNone
<1>10. X \in Seq(Context \cup {Null}) /\ Len(X) = 2 * n /\ DOMAIN X = 1..(2 * n)
  <2>1. X = [i \in 1..(2 * n) |-> X[i]]
    <3> HIDE DEF Here
    <3> QED BY <1>8
  <2>2. X \in [1..(2 * n) -> Context \cup {Null}]
    BY <1>9, <2>1
  <2> QED BY <1>1, <2>2
<1>11. Fits(X)
  BY <1>1, <1>10 DEF Fits
<1>12. ASSUME NEW i \in 1..(2 * n), X[i] # Null
       PROVE  Of(given, handle, X[i]) \in Handles /\ Hash(Of(given, handle, X[i]), X) = i
  <2>1. X[i] \in Range(table) /\ handle[X[i]] % (2 * n) = i - 1
    BY <1>9, <1>12
  <2>2. PICK j \in 1..n : table[j] = X[i]
    BY <1>5, <2>1
  <2>3. X[i] \in Context /\ handle[X[i]] \in Handles
    BY <1>2, <1>3, <2>2
  <2>4. Of(given, handle, X[i]) = handle[X[i]]
    BY <2>3 DEF Of
  <2>5. Hash(handle[X[i]], X) = i
    <3>1. Hash(handle[X[i]], X) = (i - 1) + 1
      BY <1>10, <2>1 DEF Hash
    <3> QED BY <3>1
  <2> QED BY <2>3, <2>4, <2>5
<1>13. Entries(X, given, handle)
  BY <1>10, <1>12 DEF Entries
<1>14. ASSUME NEW c \in Context, c \in Range(X) PROVE c \in Range(table)
  <2>1. PICK i \in 1..(2 * n) : X[i] = c
    BY <1>10, <1>14 DEF Range
  <2> QED BY <1>9, <2>1, NullIsNone
<1>15. \E p \in 1..(2 * n) : X[p] = Null
  <2>1. 1 \in 1..n /\ n + 1 \in 1..(2 * n) /\ 1 \in 1..(2 * n)
    BY <1>1
  <2>2. SUFFICES ASSUME X[1] # Null, X[n + 1] # Null PROVE FALSE
    BY <2>1
  <2>3. X[1] \in Here(1) /\ X[n + 1] \in Here(n + 1)
    BY <1>9, <2>1, <2>2
  <2>4. PICK i \in 1..n : table[i] = X[1]
    BY <1>5, <2>3
  <2>5. PICK j \in 1..n : table[j] = X[n + 1]
    BY <1>5, <2>3
  <2>6. handle[table[i]] % (2 * n) = 0 /\ handle[table[j]] % (2 * n) = n
    BY <1>1, <2>3, <2>4, <2>5
  <2>7. i = 1 /\ j = 1
    BY <1>1, <1>4, <2>6
  <2> QED BY <1>1, <2>6, <2>7
<1> QED BY <1>7, <1>10, <1>11, <1>13, <1>14, <1>15 DEF X, slot_size

(* With at most Mask contexts a table without a free entry is not full size. *)
LEMMA RoomToGrow ==
    ASSUME HandleTypeOK, TableInv, Cardinality(Context) <= Mask,
           Null \notin Range(table), NEW c \in Context, c \notin Range(table)
    PROVE  slot_size < Mask
<1> DEFINE n == Len(table)
           D == Context \ {c}
<1>1. n \in Nat \ {0} /\ DOMAIN table = 1..n /\ table \in Seq(Context \cup {Null})
  BY TableFits DEF Fits
<1>2. \A i \in 1..n : table[i] \in D
  BY <1>1, ElementOfSeq DEF Range
<1>3. table \in [1..n -> D]
  BY <1>1, <1>2
<1>4. \A i, j \in 1..n : table[i] = table[j] => i = j
  BY <1>1, <1>2, NullIsNone DEF TableInv, Entries
<1>5. table \in Injection(1..n, D)
  BY <1>1, <1>3, <1>4 DEF Injection, IsInjective
<1>6. /\ IsFiniteSet(D) /\ Cardinality(D) = Cardinality(Context) - 1
      /\ Cardinality(Context) \in Nat
  BY HandleAssumption, FS_RemoveElement, FS_CardinalityType
<1>7. Cardinality(1..n) <= Cardinality(D)
  BY <1>5, <1>6, FS_Injection
<1>8. Cardinality(1..n) = n
  BY <1>1, FS_Interval
<1>9. Mask \in Nat
  BY MaskFacts
<1> HIDE DEF n, D, Mask
<1>10. n < Mask
  BY <1>1, <1>6, <1>7, <1>8, <1>9
<1> QED BY <1>10 DEF slot_size, n

-----------------------------------------------------------------------------
(* One service is launched at a time, and there are handles for all. *)
OneByOne == Launchers <= 1 /\ Cardinality(Context) <= Mask

LEMMA NobodyLaunching ==
    ASSUME OneByOne, Cardinality({d \in Context : given[d] # Null}) < Launchers
    PROVE  \A d \in Context : given[d] = Null
<1> DEFINE S == {d \in Context : given[d] # Null}
<1>1. IsFiniteSet(S)
  BY HandleAssumption, FS_Subset
<1>2. Cardinality(S) \in Nat
  BY <1>1, FS_CardinalityType
<1>3. Cardinality(S) = 0
  <2> HIDE DEF S
  <2>1. Cardinality(S) < Launchers
    BY DEF S
  <2> QED BY <1>2, <2>1, HandleAssumption DEF OneByOne
<1>4. S = {}
  <2> HIDE DEF S
  <2> QED BY <1>1, <1>3, FS_EmptySet
<1> QED BY <1>4

LEMMA RegisterKeeps ==
    ASSUME OneByOne, HandleTypeOK, TableInv, NEW c \in Context, HandleRegister(c)
    PROVE  HandleTypeOK' /\ TableInv' /\ names' = names
<1>1. ~aborted /\ c \notin Range(table) /\ \A d \in Context : given[d] = Null
  BY NobodyLaunching DEF HandleRegister
<1>2. Fits(table) /\ \E k \in 0..HandleBits : Len(table) = Pow2[k]
  BY TableFits DEF HandleTypeOK, slot_size
<1>3. CASE Null \in Range(table)
  <2>1. Register(c, table)
    BY <1>3 DEF HandleRegister
  <2>2. \E p \in 1..Len(table) : table[p] = Null
    BY <1>2, <1>3 DEF Range, Fits
  <2>3. PICK p, v : Placing(c, table, p, v)
    BY <1>2, <2>1, <2>2, RegisterPlaces
  <2>4. HandleTypeOK' /\ TableInv'
    BY <1>1, <1>2, <2>3, PlacingKeeps DEF TableInv
  <2> QED BY <2>3, <2>4 DEF Placing
<1>4. CASE Null \notin Range(table)
  <2>1. slot_size < Mask
    BY <1>1, <1>4, RoomToGrow DEF OneByOne
  <2> DEFINE X == Expanded(table)
  <2>2. /\ ExpandAsserts(table) /\ Fits(X) /\ Len(X) = 2 * slot_size /\ Entries(X, given, handle)
        /\ c \notin Range(X) /\ \E p \in 1..Len(X) : X[p] = Null
    BY <1>1, <1>4, <2>1, DoublingFits
  <2>3. Register(c, X)
    BY <1>4, <2>2 DEF HandleRegister
  <2>4. \E k \in 0..HandleBits : Len(X) = Pow2[k]
    BY <2>1, <2>2, TableFits
  <2> HIDE DEF X
  <2>5. PICK p, v : Placing(c, X, p, v)
    BY <2>2, <2>3, RegisterPlaces
  <2>6. HandleTypeOK' /\ TableInv'
    BY <1>1, <2>2, <2>4, <2>5, PlacingKeeps
  <2> QED BY <2>5, <2>6 DEF Placing
<1> QED BY <1>3, <1>4

(* The store makes the handle that was given the context's own. *)
LEMMA StoreKeeps ==
    ASSUME HandleTypeOK, TableInv, NEW c \in Context, HandleStore(c)
    PROVE  HandleTypeOK' /\ TableInv' /\ names' = names
<1>1. /\ given[c] # Null /\ handle' = [handle EXCEPT ![c] = given[c]] /\ table' = table
      /\ given' = [given EXCEPT ![c] = Null] /\ handle_index' = handle_index /\ names' = names
      /\ aborted' = aborted
  BY DEF HandleStore
<1>2. /\ given \in [Context -> Handles \cup {Null}] /\ handle \in [Context -> Handles \cup {0}]
      /\ table \in Seq(Context \cup {Null})
  BY DEF HandleTypeOK
<1>3. HandleTypeOK'
  BY <1>1, <1>2 DEF HandleTypeOK, slot_size
<1>4. ASSUME NEW d \in Context PROVE Of(given', handle', d) = Of(given, handle, d)
  BY <1>1, <1>2 DEF Of
<1>5. ASSUME NEW i \in DOMAIN table', table'[i] # Null
      PROVE  /\ Of(given', handle', table'[i]) \in Handles
             /\ Hash(Of(given', handle', table'[i]), table') = i
  <2>1. table'[i] = table[i] /\ table[i] \in Context
    BY <1>1, <1>2, <1>5, ElementOfSeq
  <2> QED BY <1>1, <1>4, <1>5, <2>1 DEF TableInv, Entries
<1>6. Entries(table, given, handle)'
  BY <1>5 DEF Entries, Of, Hash, Handles
<1>7. TableInv'
  BY <1>1, <1>2, <1>6 DEF TableInv
<1> QED BY <1>1, <1>3, <1>7

(* A retired context leaves its entry, and the others theirs alone. *)
LEMMA RetireKeeps ==
    ASSUME HandleTypeOK, TableInv, NEW h \in Handles, HandleRetire(h),
           names' \in Seq([name : Names, handle : Handles])
    PROVE  HandleTypeOK' /\ TableInv'
<1> DEFINE p == Hash(h, table)
           c == table[p]
<1>1. h \in Int /\ Len(table) \in Nat \ {0} /\ table \in Seq(Context \cup {Null})
  BY HandlesInt, TableFits DEF Fits
<1>2. p \in 1..Len(table)
  <2>1. h % Len(table) \in 0..(Len(table) - 1)
    BY <1>1, ModRange
  <2>2. (h % Len(table)) + 1 \in 1..Len(table)
    BY <1>1, <2>1
  <2> QED BY <2>2 DEF Hash
<1>3. /\ c # Null /\ given[c] = Null /\ table' = [table EXCEPT ![p] = Null]
      /\ handle' = [handle EXCEPT ![c] = 0] /\ handle_index' = handle_index /\ given' = given
      /\ aborted' = aborted /\ handle[c] = h
  BY DEF HandleRetire, Grab
<1> HIDE DEF p
<1>4. c \in Context
  BY <1>1, <1>2, <1>3, ElementOfSeq
<1>5. /\ given \in [Context -> Handles \cup {Null}] /\ handle \in [Context -> Handles \cup {0}]
  BY DEF HandleTypeOK
<1>6. /\ table' \in Seq(Context \cup {Null}) /\ Len(table') = Len(table) /\ DOMAIN table' = DOMAIN table
      /\ table'[p] = Null /\ \A i \in DOMAIN table : i # p => table'[i] = table[i]
  BY <1>1, <1>2, <1>3
<1>7. HandleTypeOK'
  BY <1>3, <1>5, <1>6 DEF HandleTypeOK, slot_size
<1>8. ASSUME NEW i \in DOMAIN table', table'[i] # Null
      PROVE  /\ Of(given', handle', table'[i]) \in Handles
             /\ Hash(Of(given', handle', table'[i]), table') = i
  <2>1. i # p /\ i \in DOMAIN table /\ table'[i] = table[i]
    BY <1>6, <1>8
  <2>2. table[i] \in Context /\ p \in DOMAIN table
    BY <1>1, <1>2, <1>8, <2>1, ElementOfSeq
  <2>3. /\ Of(given, handle, table[i]) \in Handles
        /\ Hash(Of(given, handle, table[i]), table) = i
        /\ Hash(Of(given, handle, c), table) = p
    BY <1>3, <1>8, <2>1, <2>2 DEF TableInv, Entries
  <2>4. table[i] # c
    BY <2>1, <2>3
  <2>5. Of(given', handle', table[i]) = Of(given, handle, table[i])
    BY <1>3, <1>4, <1>5, <2>2, <2>4 DEF Of
  <2>6. Hash(Of(given, handle, table[i]), table') = i
    BY <1>6, <2>3 DEF Hash
  <2> QED BY <2>1, <2>3, <2>5, <2>6
<1>9. Entries(table, given, handle)'
  BY <1>8 DEF Entries, Of, Hash, Handles
<1>10. ASSUME NEW d \in Context, given'[d] # Null PROVE d \in Range(table')
  <2>1. d # c /\ d \in Range(table)
    BY <1>3, <1>10 DEF TableInv
  <2>2. PICK i \in DOMAIN table : table[i] = d
    BY <2>1 DEF Range
  <2> QED BY <1>6, <2>1, <2>2 DEF Range
<1>11. TableInv'
  BY <1>3, <1>9, <1>10 DEF TableInv
<1> QED BY <1>7, <1>11

(* A context whose handle is stored is found under it. *)
LEMMA InTableFound ==
    ASSUME HandleTypeOK, TableInv
    PROVE  Reachable
<1>1. ASSUME NEW c \in Context, c \in Range(table), given[c] = Null
      PROVE  Grab(handle[c]) = c
  <2>1. PICK i \in DOMAIN table : table[i] = c
    BY <1>1 DEF Range
  <2>2. c # Null
    BY NullIsNone
  <2>3. Hash(handle[c], table) = i
    BY <1>1, <2>1, <2>2 DEF TableInv, Entries, Of
  <2> QED BY <2>1, <2>2, <2>3 DEF Grab
<1> QED BY <1>1 DEF Reachable, TableInv

LEMMA TableStarts == HandleInit => HandleTypeOK /\ TableInv
<1> SUFFICES ASSUME HandleInit PROVE HandleTypeOK /\ TableInv
  OBVIOUS
<1>1. PICK k \in 0..HandleBits : SlotSize = Pow2[k]
  BY HandleAssumption
<1>2. SlotSize \in Nat \ {0} /\ Mask \in Nat \ {0}
  <2>1. k \in Nat
    BY HandleAssumption
  <2> QED BY <1>1, <2>1, PowFacts, MaskFacts
<1>3. /\ table \in Seq(Context \cup {Null}) /\ Len(table) = SlotSize
      /\ \A i \in DOMAIN table : table[i] = Null
  BY <1>2 DEF HandleInit
<1>4. HandleTypeOK
  <2>1. handle_index \in 1..Mask
    BY <1>2 DEF HandleInit
  <2>2. names \in Seq([name : Names, handle : Handles])
    BY DEF HandleInit
  <2> QED BY <1>1, <1>3, <2>1, <2>2 DEF HandleTypeOK, HandleInit, slot_size
<1>5. TableInv
  BY <1>3 DEF TableInv, Entries, HandleInit
<1> QED BY <1>4, <1>5

-----------------------------------------------------------------------------
(* The names                                                               *)

Entry == [name : Names, handle : Handles]

WithoutTurn(l, h, i, g) ==
    IF i = 0 THEN << >> ELSE IF l[i].handle = h THEN g[i - 1] ELSE Append(g[i - 1], l[i])

(* The loop that closes the gaps of the names has a result. *)
LEMMA WithoutExists ==
    ASSUME NEW l, Len(l) \in Nat, NEW h
    PROVE  \E g : g = [i \in 0..Len(l) |-> WithoutTurn(l, h, i, g)]
<1> DEFINE L == Len(l)
           T == {n \in Nat : \E g : \A i \in 0..L : i <= n => g[i] = WithoutTurn(l, h, i, g)}
<1>1. 0 \in T
  <2> DEFINE g == [i \in 0..L |-> << >>]
  <2>1. \A i \in 0..L : i <= 0 => g[i] = WithoutTurn(l, h, i, g)
    BY DEF WithoutTurn
  <2> HIDE DEF g
  <2> QED BY <2>1
<1>2. ASSUME NEW n \in T PROVE n + 1 \in T
  <2>1. n \in Nat
    OBVIOUS
  <2>2. PICK g : \A i \in 0..L : i <= n => g[i] = WithoutTurn(l, h, i, g)
    OBVIOUS
  <2> DEFINE k == [i \in 0..L |-> WithoutTurn(l, h, i, g)]
  <2>3. ASSUME NEW i \in 0..L, i <= n + 1 PROVE k[i] = WithoutTurn(l, h, i, k)
    <3>1. k[i] = WithoutTurn(l, h, i, g)
      OBVIOUS
    <3>2. CASE i = 0
      BY <3>1, <3>2 DEF WithoutTurn
    <3>3. CASE i # 0
      <4>1. i - 1 \in 0..L /\ i - 1 <= n
        BY <2>1, <2>3, <3>3
      <4>2. k[i - 1] = g[i - 1]
        BY <2>2, <4>1
      <4> HIDE DEF k
      <4> QED BY <3>1, <3>3, <4>2 DEF WithoutTurn
    <3> QED BY <3>2, <3>3
  <2> HIDE DEF k
  <2>4. \E x : \A i \in 0..L : i <= n + 1 => x[i] = WithoutTurn(l, h, i, x)
    BY <2>3
  <2> QED BY <2>1, <2>4
<1>3. T = Nat
  <2> HIDE DEF T
  <2>1. T \subseteq Nat
    BY DEF T
  <2> QED BY <1>1, <1>2, <2>1, Induction
<1>4. L \in T
  <2> HIDE DEF T
  <2> QED BY <1>3
<1>5. PICK g : \A i \in 0..L : i <= L => g[i] = WithoutTurn(l, h, i, g)
  BY <1>4
<1> DEFINE k == [i \in 0..L |-> WithoutTurn(l, h, i, g)]
<1>6. ASSUME NEW i \in 0..L PROVE k[i] = WithoutTurn(l, h, i, k)
  <2>1. \A j \in 0..L : k[j] = g[j]
    BY <1>5
  <2>2. i # 0 => i - 1 \in 0..L
    OBVIOUS
  <2>3. k[i] = WithoutTurn(l, h, i, g)
    OBVIOUS
  <2> HIDE DEF k
  <2> QED BY <2>1, <2>2, <2>3 DEF WithoutTurn
<1>7. k = [i \in 0..L |-> WithoutTurn(l, h, i, k)]
  BY <1>6
<1> HIDE DEF k
<1> QED BY <1>7

(* Retiring a handle keeps the other names in their order. *)
LEMMA WithoutSorted ==
    ASSUME names \in Seq(Entry), Names \subseteq Int, Ascending(names), NEW h
    PROVE  Without(h) \in Seq(Entry) /\ Ascending(Without(h))
<1> DEFINE L == Len(names)
           f == CHOOSE g : g = [i \in 0..L |-> WithoutTurn(names, h, i, g)]
<1>0. L \in Nat /\ DOMAIN names = 1..L /\ \A i \in 1..L : names[i] \in Entry
  BY ElementOfSeq
<1>1. f = [i \in 0..L |-> WithoutTurn(names, h, i, f)]
  <2>1. \E g : g = [i \in 0..L |-> WithoutTurn(names, h, i, g)]
    <3> HIDE DEF f
    <3> QED BY <1>0, WithoutExists
  <2> QED BY <2>1
<1>2. Without(h) = f[L]
  BY DEF Without, WithoutTurn
<1> HIDE DEF f
<1>3. \A i \in 0..L : f[i] = WithoutTurn(names, h, i, f)
  BY <1>1
<1> DEFINE From(s, i) == s \in Seq(Entry) /\ Ascending(s)
                           /\ \A j \in DOMAIN s : \E k \in 1..i : s[j] = names[k]
           T == {i \in Nat : i <= L => From(f[i], i)}
<1>4. 0 \in T
  <2>1. f[0] = << >>
    BY <1>0, <1>3 DEF WithoutTurn
  <2>2. << >> \in Seq(Entry) /\ DOMAIN << >> = {}
    OBVIOUS
  <2>3. Ascending(<< >>)
    BY <2>2 DEF Ascending
  <2>4. From(<< >>, 0)
    BY <2>2, <2>3
  <2> HIDE DEF From
  <2> QED BY <2>1, <2>4
<1>5. ASSUME NEW i \in T PROVE i + 1 \in T
  <2>1. i \in Nat
    OBVIOUS
  <2>2. SUFFICES ASSUME i + 1 <= L PROVE From(f[i + 1], i + 1)
    BY <2>1
  <2>3. From(f[i], i)
    BY <1>0, <2>1, <2>2
  <2>4. i + 1 \in 0..L /\ i + 1 # 0 /\ (i + 1) - 1 = i /\ i + 1 \in 1..L
    BY <1>0, <2>1, <2>2
  <2>5. f[i + 1] = IF names[i + 1].handle = h THEN f[i] ELSE Append(f[i], names[i + 1])
    BY <1>3, <2>4 DEF WithoutTurn
  <2>6. CASE names[i + 1].handle = h
    BY <2>1, <2>3, <2>5, <2>6
  <2>7. CASE names[i + 1].handle # h
    <3> DEFINE s == f[i]
               e == names[i + 1]
               t == Append(s, e)
    <3>1. e \in Entry /\ s \in Seq(Entry)
      BY <1>0, <2>3, <2>4
    <3>2. /\ t \in Seq(Entry) /\ Len(t) = Len(s) + 1 /\ t[Len(s) + 1] = e
          /\ \A j \in 1..Len(s) : t[j] = s[j]
      BY <3>1, AppendProperties
    <3>3. Len(s) \in Nat /\ DOMAIN s = 1..Len(s) /\ DOMAIN t = 1..(Len(s) + 1)
      BY <3>1, <3>2
    <3>4. ASSUME NEW j \in DOMAIN t PROVE \E k \in 1..(i + 1) : t[j] = names[k]
      <4>1. CASE j = Len(s) + 1
        BY <2>1, <3>2, <4>1
      <4>2. CASE j # Len(s) + 1
        <5>1. j \in DOMAIN s /\ t[j] = s[j]
          BY <3>2, <3>3, <4>2
        <5>2. PICK k \in 1..i : s[j] = names[k]
          BY <2>3, <5>1
        <5> QED BY <2>1, <5>1, <5>2
      <4> QED BY <4>1, <4>2
    <3>5. ASSUME NEW j \in DOMAIN s PROVE s[j].name < e.name
      <4>1. PICK k \in 1..i : s[j] = names[k]
        BY <2>3
      <4>2. k \in DOMAIN names /\ i + 1 \in DOMAIN names /\ k < i + 1
        BY <1>0, <2>1, <2>4
      <4> QED BY <4>1, <4>2 DEF Ascending
    <3>6. ASSUME NEW j \in DOMAIN t, NEW k \in DOMAIN t, j < k PROVE t[j].name < t[k].name
      <4>1. j \in DOMAIN s /\ t[j] = s[j]
        BY <3>2, <3>3, <3>6
      <4>2. CASE k = Len(s) + 1
        BY <3>2, <3>5, <4>1, <4>2
      <4>3. CASE k # Len(s) + 1
        <5>1. k \in DOMAIN s /\ t[k] = s[k]
          BY <3>2, <3>3, <3>6, <4>3
        <5> QED BY <2>3, <3>6, <4>1, <5>1 DEF Ascending
      <4> QED BY <4>2, <4>3
    <3>7. Ascending(t)
      BY <3>6 DEF Ascending
    <3>8. f[i + 1] = t
      BY <2>5, <2>7
    <3> QED BY <3>2, <3>4, <3>7, <3>8
  <2> QED BY <2>6, <2>7
<1>6. T = Nat
  <2> HIDE DEF T
  <2>1. T \subseteq Nat
    BY DEF T
  <2> QED BY <1>4, <1>5, <2>1, Induction
<1>7. L \in T
  <2> HIDE DEF T
  <2> QED BY <1>0, <1>6
<1>8. From(f[L], L)
  BY <1>0, <1>7
<1> QED BY <1>2, <1>8

-----------------------------------------------------------------------------
SearchTurn(l, n, r, g) ==
    LET mid == (r[1] + r[2]) \div 2
    IN  IF r[1] > r[2] THEN [found |-> FALSE, at |-> r[1]]
        ELSE IF l[mid].name = n THEN [found |-> TRUE, at |-> mid]
        ELSE IF l[mid].name < n THEN g[<<mid + 1, r[2]>>] ELSE g[<<r[1], mid - 1>>]

Ranges(l) == (1..(Len(l) + 1)) \X (0..Len(l))

(* The middle of a range that is not empty lies in it, so that both halves  *)
(* are ranges and shorter.                                                  *)
LEMMA HalvesAre ==
    ASSUME NEW L \in Nat, NEW b \in 1..(L + 1), NEW e \in 0..L, b <= e,
           NEW mid, mid = (b + e) \div 2
    PROVE  /\ mid \in b..e /\ mid \in 1..L
           /\ mid + 1 \in 1..(L + 1) /\ mid - 1 \in 0..L
OBVIOUS

(* The search of l for n is well defined. *)
SearchDefined(l, n) == \E g : g = [r \in Ranges(l) |-> SearchTurn(l, n, r, g)]

(* The binary search ends. *)
LEMMA SearchExists ==
    ASSUME NEW l, Len(l) \in Nat, NEW n
    PROVE  SearchDefined(l, n)
<1> DEFINE L == Len(l)
           D == Ranges(l)
           T == {k \in Nat : \E g : \A r \in D : r[2] - r[1] < k => g[r] = SearchTurn(l, n, r, g)}
<1>0. ASSUME NEW r \in D PROVE r[1] \in 1..(L + 1) /\ r[2] \in 0..L /\ r = <<r[1], r[2]>>
  BY DEF Ranges
<1>a. \A b \in 1..(L + 1), e \in 0..L : <<b, e>> \in D
  BY DEF Ranges
<1> HIDE DEF D
<1>1. 0 \in T
  <2> DEFINE g == [r \in D |-> [found |-> FALSE, at |-> r[1]]]
  <2>1. ASSUME NEW r \in D, r[2] - r[1] < 0 PROVE g[r] = SearchTurn(l, n, r, g)
    <3>1. r[1] > r[2]
      BY <1>0, <2>1
    <3>2. SearchTurn(l, n, r, g) = [found |-> FALSE, at |-> r[1]]
      BY <3>1 DEF SearchTurn
    <3> QED BY <3>2
  <2> HIDE DEF g
  <2> QED BY <2>1
<1>2. ASSUME NEW k \in T PROVE k + 1 \in T
  <2>1. k \in Nat
    OBVIOUS
  <2>2. PICK g : \A r \in D : r[2] - r[1] < k => g[r] = SearchTurn(l, n, r, g)
    OBVIOUS
  <2> DEFINE h == [r \in D |-> SearchTurn(l, n, r, g)]
  <2>3. ASSUME NEW r \in D, r[2] - r[1] < k + 1 PROVE h[r] = SearchTurn(l, n, r, h)
    <3>1. h[r] = SearchTurn(l, n, r, g)
      OBVIOUS
    <3>2. \A x \in D : x[2] - x[1] < k => h[x] = g[x]
      BY <2>2
    <3> HIDE DEF h
    <3>3. PICK b \in 1..(L + 1), e \in 0..L : r = <<b, e>> /\ r[1] = b /\ r[2] = e
      BY <1>0
    <3>4. CASE b > e
      BY <3>1, <3>3, <3>4 DEF SearchTurn
    <3>5. CASE b <= e
      <4>1. PICK mid : mid = (b + e) \div 2
        OBVIOUS
      <4>2. /\ mid \in b..e /\ mid + 1 \in 1..(L + 1) /\ mid - 1 \in 0..L
        BY <3>5, <4>1, HalvesAre
      <4>3. <<mid + 1, e>> \in D /\ <<b, mid - 1>> \in D
        BY <1>a, <4>2
      <4>4. e - (mid + 1) < k /\ (mid - 1) - b < k
        BY <2>1, <2>3, <3>3, <4>2
      <4>5. h[<<mid + 1, e>>] = g[<<mid + 1, e>>] /\ h[<<b, mid - 1>>] = g[<<b, mid - 1>>]
        BY <3>2, <4>3, <4>4
      <4>6. SearchTurn(l, n, r, h) = SearchTurn(l, n, r, g)
        BY <3>3, <4>1, <4>5 DEF SearchTurn
      <4> QED BY <3>1, <4>6
    <3> QED BY <3>4, <3>5
  <2> HIDE DEF h
  <2>4. \E x : \A r \in D : r[2] - r[1] < k + 1 => x[r] = SearchTurn(l, n, r, x)
    BY <2>3
  <2> QED BY <2>1, <2>4
<1>3. T = Nat
  <2> HIDE DEF T
  <2>1. T \subseteq Nat
    BY DEF T
  <2> QED BY <1>1, <1>2, <2>1, Induction
<1>4. L \in T
  <2> HIDE DEF T
  <2> QED BY <1>3
<1>5. PICK g : \A r \in D : r[2] - r[1] < L => g[r] = SearchTurn(l, n, r, g)
  BY <1>4
<1> DEFINE h == [r \in D |-> SearchTurn(l, n, r, g)]
<1>6. ASSUME NEW r \in D PROVE h[r] = SearchTurn(l, n, r, h)
  <2>1. ASSUME NEW x \in D PROVE h[x] = g[x]
    <3>1. x[2] - x[1] < L
      BY <1>0
    <3> QED BY <1>5, <3>1
  <2>2. h[r] = SearchTurn(l, n, r, g)
    OBVIOUS
  <2> HIDE DEF h
  <2>3. PICK b \in 1..(L + 1), e \in 0..L : r = <<b, e>> /\ r[1] = b /\ r[2] = e
    BY <1>0
  <2>4. CASE b > e
    BY <2>2, <2>3, <2>4 DEF SearchTurn
  <2>5. CASE b <= e
    <3>1. PICK mid : mid = (b + e) \div 2
      OBVIOUS
    <3>2. mid + 1 \in 1..(L + 1) /\ mid - 1 \in 0..L
      BY <2>5, <3>1, HalvesAre
    <3>3. <<mid + 1, e>> \in D /\ <<b, mid - 1>> \in D
      BY <1>a, <3>2
    <3>4. h[<<mid + 1, e>>] = g[<<mid + 1, e>>] /\ h[<<b, mid - 1>>] = g[<<b, mid - 1>>]
      BY <2>1, <3>3
    <3>5. SearchTurn(l, n, r, h) = SearchTurn(l, n, r, g)
      BY <2>3, <3>1, <3>4 DEF SearchTurn
    <3> QED BY <2>2, <3>5
  <2> QED BY <2>4, <2>5
<1>7. h = [r \in D |-> SearchTurn(l, n, r, h)]
  BY <1>6
<1> HIDE DEF h
<1>8. \E x : x = [r \in Ranges(l) |-> SearchTurn(l, n, r, x)]
  BY <1>7 DEF D
<1> QED BY <1>8 DEF SearchDefined

(* What a search for n in l may return. *)
Located(l, n, x) ==
    /\ x.at \in 1..(Len(l) + 1) /\ x.found \in BOOLEAN
    /\ x.found => x.at \in 1..Len(l) /\ l[x.at].name = n
    /\ ~x.found => \A i \in 1..Len(l) : /\ i < x.at => l[i].name < n
                                        /\ i >= x.at => n < l[i].name

(* In sorted names the binary search finds the name, or where it belongs. *)
LEMMA SearchFinds ==
    ASSUME names \in Seq(Entry), Names \subseteq Int, Ascending(names), NEW n \in Names
    PROVE  Located(names, n, Search(n))
<1> DEFINE L == Len(names)
           f == CHOOSE g : g = [r \in Ranges(names) |-> SearchTurn(names, n, r, g)]
<1>0. /\ L \in Nat /\ DOMAIN names = 1..L /\ n \in Int
      /\ \A i \in 1..L : names[i].name \in Int
  <2>1. \A i \in 1..L : names[i] \in Entry
    BY ElementOfSeq
  <2>2. ASSUME NEW i \in 1..L PROVE names[i].name \in Int
    <3>1. PICK e \in Entry : names[i] = e
      BY <2>1
    <3>2. e.name \in Names
      BY DEF Entry
    <3> QED BY <3>1, <3>2
  <2>3. L \in Nat /\ DOMAIN names = 1..L /\ n \in Int
    OBVIOUS
  <2> QED BY <2>2, <2>3
<1>1. f = [r \in Ranges(names) |-> SearchTurn(names, n, r, f)]
  <2>1. SearchDefined(names, n)
    <3> HIDE DEF f
    <3> QED BY <1>0, SearchExists
  <2>2. \E g : g = [r \in Ranges(names) |-> SearchTurn(names, n, r, g)]
    BY <2>1 DEF SearchDefined
  <2> QED BY <2>2
<1>2. Search(n) = f[<<1, L>>]
  BY DEF Search, SearchTurn, Ranges
<1> HIDE DEF f
<1>3. ASSUME NEW b \in 1..(L + 1), NEW e \in 0..L
      PROVE  f[<<b, e>>] = SearchTurn(names, n, <<b, e>>, f)
  <2>1. <<b, e>> \in Ranges(names)
    BY DEF Ranges
  <2> QED BY <1>1, <2>1
<1> DEFINE Below(b) == \A i \in 1..L : i < b => names[i].name < n
           Above(e) == \A i \in 1..L : i > e => n < names[i].name
           Good(b, e) == Below(b) /\ Above(e) => Located(names, n, f[<<b, e>>])
           T == {d \in Nat : \A b \in 1..(L + 1), e \in 0..L :
                                b <= e + 1 /\ e + 1 - b <= d => Good(b, e)}
<1>4. ASSUME NEW b \in 1..(L + 1), b - 1 \in 0..L PROVE Good(b, b - 1)
  <2> SUFFICES ASSUME Below(b), Above(b - 1) PROVE Located(names, n, f[<<b, b - 1>>])
    OBVIOUS
  <2>1. f[<<b, b - 1>>] = SearchTurn(names, n, <<b, b - 1>>, f)
    BY <1>3, <1>4
  <2>2. SearchTurn(names, n, <<b, b - 1>>, f) = [found |-> FALSE, at |-> b]
    BY <1>0 DEF SearchTurn
  <2>3. \A i \in 1..L : (i < b => names[i].name < n) /\ (i >= b => n < names[i].name)
    BY <1>0
  <2>4. PICK x : x = f[<<b, b - 1>>]
    OBVIOUS
  <2>5. x.found = FALSE /\ x.at = b
    BY <2>1, <2>2, <2>4
  <2>6. Located(names, n, x)
    BY <1>0, <2>3, <2>5 DEF Located
  <2> QED BY <2>4, <2>6
<1>5. 0 \in T
  <2>1. ASSUME NEW b \in 1..(L + 1), NEW e \in 0..L, b <= e + 1, e + 1 - b <= 0 PROVE e = b - 1
    BY <1>0, <2>1
  <2> HIDE DEF Good
  <2> QED BY <1>4, <2>1
<1>6. ASSUME NEW d \in T PROVE d + 1 \in T
  <2>1. /\ d \in Nat
        /\ \A b \in 1..(L + 1), e \in 0..L : b <= e + 1 /\ e + 1 - b <= d => Good(b, e)
    <3> HIDE DEF Good
    <3> QED OBVIOUS
  <2>2. ASSUME NEW b \in 1..(L + 1), NEW e \in 0..L, b <= e + 1, e + 1 - b <= d + 1,
               Below(b), Above(e)
        PROVE  Located(names, n, f[<<b, e>>])
    <3>1. CASE b = e + 1
      <4>1. e = b - 1 /\ b - 1 \in 0..L
        BY <1>0, <3>1
      <4> QED BY <1>4, <2>2, <4>1
    <3>2. CASE b <= e
      <4>1. PICK mid : mid = (b + e) \div 2
        OBVIOUS
      <4>2. /\ mid \in b..e /\ mid \in 1..L /\ mid + 1 \in 1..(L + 1) /\ mid - 1 \in 0..L
        BY <1>0, <3>2, <4>1, HalvesAre
      <4>3. f[<<b, e>>] = IF names[mid].name = n THEN [found |-> TRUE, at |-> mid]
                          ELSE IF names[mid].name < n THEN f[<<mid + 1, e>>] ELSE f[<<b, mid - 1>>]
        <5>1. ~(b > e)
          BY <1>0, <3>2
        <5>2. SearchTurn(names, n, <<b, e>>, f) =
                 IF names[mid].name = n THEN [found |-> TRUE, at |-> mid]
                 ELSE IF names[mid].name < n THEN f[<<mid + 1, e>>] ELSE f[<<b, mid - 1>>]
          BY <4>1, <5>1 DEF SearchTurn
        <5> QED BY <1>3, <5>2
      <4>4. CASE names[mid].name = n
        <5>1. f[<<b, e>>] = [found |-> TRUE, at |-> mid]
          BY <4>3, <4>4
        <5> QED BY <1>0, <4>2, <4>4, <5>1 DEF Located
      <4>5. CASE names[mid].name < n
        <5>1. ASSUME NEW i \in 1..L, i < mid + 1 PROVE names[i].name < n
          <6>1. i = mid \/ i < mid
            BY <4>2, <5>1
          <6>2. i < mid => names[i].name < names[mid].name
            BY <1>0, <4>2 DEF Ascending
          <6>3. names[i].name \in Int /\ names[mid].name \in Int
            BY <1>0, <4>2
          <6> QED BY <1>0, <4>5, <6>1, <6>2, <6>3
        <5>2. mid + 1 <= e + 1 /\ e + 1 - (mid + 1) <= d
          BY <1>0, <2>1, <2>2, <4>2
        <5>3. Good(mid + 1, e)
          <6> HIDE DEF Good
          <6> QED BY <2>1, <4>2, <5>2
        <5>4. Located(names, n, f[<<mid + 1, e>>])
          BY <2>2, <5>1, <5>3
        <5>5. f[<<b, e>>] = f[<<mid + 1, e>>]
          BY <1>0, <4>2, <4>3, <4>5
        <5> QED BY <5>4, <5>5
      <4>6. CASE names[mid].name # n /\ ~(names[mid].name < n)
        <5>1. ASSUME NEW i \in 1..L, i > mid - 1 PROVE n < names[i].name
          <6>1. i = mid \/ mid < i
            BY <4>2, <5>1
          <6>2. mid < i => names[mid].name < names[i].name
            BY <1>0, <4>2 DEF Ascending
          <6>3. names[i].name \in Int /\ names[mid].name \in Int
            BY <1>0, <4>2
          <6> QED BY <1>0, <4>6, <6>1, <6>2, <6>3
        <5>2. b <= (mid - 1) + 1 /\ (mid - 1) + 1 - b <= d
          BY <1>0, <2>1, <2>2, <4>2
        <5>3. Good(b, mid - 1)
          <6> HIDE DEF Good
          <6> QED BY <2>1, <4>2, <5>2
        <5>4. Located(names, n, f[<<b, mid - 1>>])
          BY <2>2, <5>1, <5>3
        <5>5. f[<<b, e>>] = f[<<b, mid - 1>>]
          BY <4>3, <4>6
        <5> QED BY <5>4, <5>5
      <4> QED BY <4>4, <4>5, <4>6
    <3> QED BY <1>0, <2>2, <3>1, <3>2
  <2>3. ASSUME NEW b \in 1..(L + 1), NEW e \in 0..L, b <= e + 1, e + 1 - b <= d + 1
        PROVE  Good(b, e)
    BY <2>2, <2>3
  <2> HIDE DEF Good
  <2> QED BY <2>1, <2>3
<1>7. T = Nat
  <2> HIDE DEF T
  <2>1. T \subseteq Nat
    BY DEF T
  <2> QED BY <1>5, <1>6, <2>1, Induction
<1>8. L \in T
  <2> HIDE DEF T
  <2> QED BY <1>0, <1>7
<1>9. Good(1, L)
  <2>1. 1 \in 1..(L + 1) /\ L \in 0..L /\ 1 <= L + 1 /\ L + 1 - 1 <= L
    BY <1>0
  <2> HIDE DEF Good
  <2> QED BY <1>8, <2>1
<1>10. Below(1) /\ Above(L)
  BY <1>0
<1> QED BY <1>2, <1>9, <1>10

(* So every name in the list is found, with its handle. *)
LEMMA SortedFound ==
    ASSUME HandleTypeOK, Ascending(names)
    PROVE  NamesFound
<1>1. names \in Seq(Entry) /\ Names \subseteq Int
  BY HandleAssumption DEF HandleTypeOK, Entry
<1>2. ASSUME NEW i \in DOMAIN names PROVE FindName(names[i].name) = names[i].handle
  <2> DEFINE n == names[i].name
             x == Search(n)
  <2>1. DOMAIN names = 1..Len(names) /\ Len(names) \in Nat /\ \A j \in DOMAIN names : names[j].name \in Names
    <3>1. ASSUME NEW j \in DOMAIN names PROVE names[j].name \in Names
      <4>1. names[j] \in Entry
        BY <1>1, <3>1, ElementOfSeq
      <4>2. PICK e \in Entry : names[j] = e
        BY <4>1
      <4>3. e.name \in Names
        BY DEF Entry
      <4> QED BY <4>2, <4>3
    <3>2. DOMAIN names = 1..Len(names) /\ Len(names) \in Nat
      BY <1>1
    <3> QED BY <3>1, <3>2
  <2>2. n \in Names
    BY <2>1
  <2>3. Located(names, n, x)
    BY <1>1, <2>2, SearchFinds
  <2> HIDE DEF x
  <2>4. \A j \in DOMAIN names : names[j].name \in Int
    BY <1>1, <2>1
  <2>5. x.found
    <3> SUFFICES ASSUME ~x.found PROVE FALSE
      OBVIOUS
    <3>1. (i < x.at => n < n) /\ (i >= x.at => n < n) /\ x.at \in Int
      BY <2>1, <2>3 DEF Located
    <3>2. n \in Int /\ i \in Int
      BY <2>1, <2>4
    <3> HIDE DEF n
    <3> QED BY <3>1, <3>2
  <2>6. x.at \in 1..Len(names) /\ names[x.at].name = n
    BY <2>3, <2>5 DEF Located
  <2>7. x.at = i
    <3>1. x.at \in DOMAIN names /\ x.at \in Int /\ i \in Int
      BY <2>1, <2>6
    <3>2. ~(x.at < i) /\ ~(i < x.at)
      BY <2>4, <2>6, <3>1 DEF Ascending
    <3> QED BY <3>1, <3>2
  <2>8. FindName(n) = names[x.at].handle
    BY <2>5 DEF FindName, x
  <2> QED BY <2>7, <2>8
<1> QED BY <1>2 DEF NamesFound

(* A new name goes where the search says. *)
LEMMA NameKeeps ==
    ASSUME HandleTypeOK, Ascending(names), NEW h \in Handles, NEW n \in Names, NameHandle(h, n)
    PROVE  names' \in Seq(Entry) /\ Ascending(names')
<1> DEFINE L == Len(names)
           x == Search(n)
           e == [name |-> n, handle |-> h]
<1>1. names \in Seq(Entry) /\ Names \subseteq Int /\ e \in Entry
  BY HandleAssumption DEF HandleTypeOK, Entry
<1>2. L \in Nat /\ DOMAIN names = 1..L /\ \A i \in 1..L : names[i] \in Entry
  BY <1>1, ElementOfSeq
<1>3. Located(names, n, x)
  BY <1>1, SearchFinds
<1>4. ~x.found /\ names' = InsertAt(names, x.at, e)
  BY DEF NameHandle
<1> HIDE DEF x, e
<1>5. PICK p \in 1..(L + 1) : x.at = p
  BY <1>3 DEF Located
<1>6. \A i \in 1..L : (i < p => names[i].name < n) /\ (i >= p => n < names[i].name)
  BY <1>3, <1>4, <1>5 DEF Located
<1> DEFINE A == SubSeq(names, 1, p - 1)
           B == SubSeq(names, p, L)
<1>7. /\ A \in Seq(Entry) /\ Len(A) = p - 1 /\ \A i \in 1..(p - 1) : A[i] = names[i]
  <2>1. \A i \in 1..(p - 1) : names[i] \in Entry
    BY <1>2
  <2>2. /\ A \in Seq(Entry) /\ Len(A) = IF 1 <= p - 1 THEN (p - 1) - 1 + 1 ELSE 0
        /\ \A i \in 1..((p - 1) - 1 + 1) : A[i] = names[1 + i - 1]
    BY <1>2, <2>1, SubSeqProperties
  <2>3. Len(A) = p - 1
    BY <1>2, <2>2
  <2>4. ASSUME NEW i \in 1..(p - 1) PROVE A[i] = names[i]
    <3>1. i \in 1..((p - 1) - 1 + 1) /\ 1 + i - 1 = i
      BY <1>2
    <3> QED BY <2>2, <3>1
  <2> QED BY <2>2, <2>3, <2>4
<1>8. /\ B \in Seq(Entry) /\ Len(B) = L + 1 - p /\ \A i \in 1..(L + 1 - p) : B[i] = names[p + i - 1]
  <2>1. \A i \in p..L : names[i] \in Entry
    BY <1>2
  <2>2. /\ B \in Seq(Entry) /\ Len(B) = IF p <= L THEN L - p + 1 ELSE 0
        /\ \A i \in 1..(L - p + 1) : B[i] = names[p + i - 1]
    BY <1>2, <2>1, SubSeqProperties
  <2>3. Len(B) = L + 1 - p /\ L - p + 1 = L + 1 - p
    BY <1>2, <2>2
  <2> QED BY <2>2, <2>3
<1> HIDE DEF A, B
<1>9. <<e>> \in Seq(Entry) /\ Len(<<e>>) = 1 /\ <<e>>[1] = e
  BY <1>1
<1> DEFINE C == A \o <<e>>
           N == C \o B
<1>10. /\ C \in Seq(Entry) /\ Len(C) = p
       /\ \A i \in 1..p : C[i] = IF i < p THEN names[i] ELSE e
  <2>1. /\ C \in Seq(Entry) /\ Len(C) = Len(A) + 1
        /\ \A i \in 1..(Len(A) + 1) : C[i] = IF i <= Len(A) THEN A[i] ELSE <<e>>[i - Len(A)]
    BY <1>7, <1>9, ConcatProperties
  <2>2. Len(C) = p
    BY <1>2, <1>7, <2>1
  <2>3. ASSUME NEW i \in 1..p PROVE C[i] = IF i < p THEN names[i] ELSE e
    <3>1. C[i] = IF i <= p - 1 THEN A[i] ELSE <<e>>[i - (p - 1)]
      BY <1>2, <1>7, <2>1
    <3>2. CASE i < p
      <4>1. i \in 1..(p - 1) /\ i <= p - 1
        BY <1>2, <3>2
      <4> QED BY <1>7, <3>1, <3>2, <4>1
    <3>3. CASE ~(i < p)
      <4>1. ~(i <= p - 1) /\ i - (p - 1) = 1
        BY <1>2, <3>3
      <4> QED BY <1>9, <3>1, <3>3, <4>1
    <3> QED BY <3>2, <3>3
  <2> QED BY <2>1, <2>2, <2>3
<1> HIDE DEF C
<1>11. /\ N \in Seq(Entry) /\ Len(N) = L + 1
       /\ \A i \in 1..(L + 1) : N[i] = IF i < p THEN names[i] ELSE IF i = p THEN e ELSE names[i - 1]
  <2>1. /\ N \in Seq(Entry) /\ Len(N) = Len(C) + Len(B)
        /\ \A i \in 1..(Len(C) + Len(B)) : N[i] = IF i <= Len(C) THEN C[i] ELSE B[i - Len(C)]
    BY <1>8, <1>10, ConcatProperties
  <2>2. Len(C) + Len(B) = L + 1
    BY <1>2, <1>8, <1>10
  <2>3. ASSUME NEW i \in 1..(L + 1)
        PROVE  N[i] = IF i < p THEN names[i] ELSE IF i = p THEN e ELSE names[i - 1]
    <3>1. N[i] = IF i <= p THEN C[i] ELSE B[i - p]
      BY <1>10, <2>1, <2>2
    <3>2. CASE i <= p
      <4>1. i \in 1..p /\ (i < p \/ i = p)
        BY <1>2, <3>2
      <4> QED BY <1>2, <1>10, <3>1, <3>2, <4>1
    <3>3. CASE i > p
      <4>1. i - p \in 1..(L + 1 - p) /\ p + (i - p) - 1 = i - 1 /\ ~(i <= p) /\ ~(i < p) /\ i # p
        BY <1>2, <3>3
      <4>2. B[i - p] = names[i - 1]
        BY <1>8, <4>1
      <4> QED BY <3>1, <4>1, <4>2
    <3>4. i <= p \/ i > p
      BY <1>2
    <3> QED BY <3>2, <3>3, <3>4
  <2> QED BY <2>1, <2>2, <2>3
<1>12. names' = N
  BY <1>4, <1>5 DEF InsertAt, N, C, A, B
<1> HIDE DEF N
<1>13. ASSUME NEW i \in 1..(L + 1), NEW j \in 1..(L + 1), i < j PROVE N[i].name < N[j].name
  <2>1. \A a, b \in 1..L : a < b => names[a].name < names[b].name
    BY <1>2 DEF Ascending
  <2>2. e.name = n
    BY DEF e
  <2>3. CASE j < p
    <3>1. N[i] = names[i] /\ N[j] = names[j] /\ i \in 1..L /\ j \in 1..L
      BY <1>2, <1>11, <1>13, <2>3
    <3> QED BY <1>13, <2>1, <3>1
  <2>4. CASE j = p
    <3>1. N[i] = names[i] /\ N[j] = e /\ i \in 1..L /\ i < p
      BY <1>2, <1>11, <1>13, <2>4
    <3> QED BY <1>6, <2>2, <3>1
  <2>5. CASE j > p
    <3>1. N[j] = names[j - 1] /\ j - 1 \in 1..L /\ j - 1 >= p
      BY <1>2, <1>11, <1>13, <2>5
    <3>2. CASE i < p
      <4>1. N[i] = names[i] /\ i \in 1..L /\ i < j - 1
        BY <1>2, <1>11, <1>13, <3>1, <3>2
      <4> QED BY <2>1, <3>1, <4>1
    <3>3. CASE i = p
      <4>1. N[i] = e
        BY <1>11, <3>3
      <4> QED BY <1>6, <2>2, <3>1, <4>1
    <3>4. CASE i > p
      <4>1. N[i] = names[i - 1] /\ i - 1 \in 1..L /\ i - 1 < j - 1
        BY <1>2, <1>11, <1>13, <3>4
      <4> QED BY <2>1, <3>1, <4>1
    <3> QED BY <1>13, <3>2, <3>3, <3>4
  <2> QED BY <1>13, <2>3, <2>4, <2>5
<1>14. DOMAIN N = 1..(L + 1)
  BY <1>2, <1>11
<1>15. Ascending(N)
  BY <1>13, <1>14 DEF Ascending
<1> QED BY <1>11, <1>12, <1>15

-----------------------------------------------------------------------------
HandleInv == HandleTypeOK /\ TableInv /\ Ascending(names)

LEMMA HandleStep ==
    ASSUME OneByOne, HandleInv, [HandleNext]_handleVars
    PROVE  HandleInv'
<1>1. HandleTypeOK /\ TableInv /\ Ascending(names)
  BY DEF HandleInv
<1>2. ASSUME NEW c \in Context, HandleRegister(c) PROVE HandleInv'
  BY <1>1, <1>2, RegisterKeeps DEF HandleInv, Ascending
<1>3. ASSUME NEW c \in Context, HandleStore(c) PROVE HandleInv'
  BY <1>1, <1>3, StoreKeeps DEF HandleInv, Ascending
<1>4. ASSUME NEW h \in Handles, HandleRetire(h) PROVE HandleInv'
  <2>1. names \in Seq(Entry) /\ Names \subseteq Int /\ names' = Without(h)
    BY <1>1, <1>4, HandleAssumption DEF HandleTypeOK, Entry, HandleRetire
  <2>2. names' \in Seq(Entry) /\ Ascending(names')
    BY <1>1, <2>1, WithoutSorted
  <2>3. HandleTypeOK' /\ TableInv'
    BY <1>1, <1>4, <2>2, RetireKeeps DEF Entry
  <2> QED BY <2>2, <2>3 DEF HandleInv, Ascending
<1>5. ASSUME NEW h \in Handles, NEW n \in Names, NameHandle(h, n) PROVE HandleInv'
  <2>1. names' \in Seq(Entry) /\ Ascending(names')
    BY <1>1, <1>5, NameKeeps
  <2>2. UNCHANGED <<table, handle_index, handle, given, aborted>>
    BY <1>5 DEF NameHandle
  <2>3. HandleTypeOK' /\ TableInv'
    BY <1>1, <2>1, <2>2 DEF HandleTypeOK, TableInv, Entries, Of, Hash, Handles, Entry, slot_size
  <2> QED BY <2>1, <2>3 DEF HandleInv, Ascending
<1>6. CASE UNCHANGED handleVars
  BY <1>1, <1>6 DEF handleVars, HandleInv, HandleTypeOK, TableInv, Entries, Of, Hash, Handles,
                    Ascending, slot_size
<1> QED BY <1>2, <1>3, <1>4, <1>5, <1>6 DEF HandleNext

LEMMA HandleInvariance ==
    ASSUME OneByOne
    PROVE  HandleSpec => []HandleInv
<1>1. HandleInit => HandleInv
  BY TableStarts DEF HandleInv, HandleInit, Ascending
<1>2. HandleInv /\ [HandleNext]_handleVars => HandleInv'
  BY HandleStep
<1> QED BY <1>1, <1>2, PTL DEF HandleSpec

(* The handle table and the list of names keep their types; the size of the  *)
(* table stays a power of two within HANDLE_MASK.                            *)
THEOREM HandleTypeCorrect ==
    ASSUME OneByOne
    PROVE  HandleSpec => []HandleTypeOK
<1>1. HandleInv => HandleTypeOK
  BY DEF HandleInv
<1> QED BY <1>1, HandleInvariance, PTL

(* skynet_handle_grab finds every service that runs and                      *)
(* skynet_handle_findname every name, however often the table doubled and    *)
(* the handles wrapped, and the assertions of skynet_handle_register hold:   *)
(* for any number of services and names, if services are launched one after  *)
(* the other and there are no more of them than handles.                     *)
THEOREM RegisteredAlwaysFound ==
    ASSUME OneByOne
    PROVE  HandleSpec => []RegisteredFound
<1>1. HandleInv => RegisteredFound
  BY InTableFound, SortedFound DEF HandleInv, RegisteredFound
<1> QED BY <1>1, HandleInvariance, PTL

-----------------------------------------------------------------------------
(* The timing wheel                                                        *)

(* What a quotient is. *)
LEMMA DivIs ==
    ASSUME NEW n \in Nat \ {0}, NEW q \in Int, NEW r \in 0..(n - 1)
    PROVE  (q * n + r) \div n = q
OBVIOUS

(* Multiples grow with the factor. *)
LEMMA Growing ==
    ASSUME NEW a \in Int, NEW b \in Int, NEW n \in Nat, a <= b
    PROVE  a * n <= b * n /\ a * n \in Int /\ b * n \in Int
OBVIOUS

(* Quotient and remainder of a number. *)
LEMMA DivForm ==
    ASSUME NEW n \in Nat \ {0}, NEW x \in Nat
    PROVE  \E q \in Nat, r \in 0..(n - 1) : x = q * n + r /\ x \div n = q /\ x % n = r
<1>1. PICK q \in Int, r \in 0..(n - 1) : x = q * n + r /\ x % n = r
  BY ModForm
<1>2. x \div n = q
  BY <1>1, DivIs
<1>3. q >= 0
  <2> SUFFICES ASSUME q <= -1 PROVE FALSE
    OBVIOUS
  <2>1. q * n <= (-1) * n /\ q * n \in Int
    BY Growing
  <2>2. (-1) * n = - n
    OBVIOUS
  <2> QED BY <1>1, <2>1, <2>2
<1> QED BY <1>1, <1>2, <1>3

(* Quotients are natural numbers. *)
LEMMA DivNat == ASSUME NEW n \in Nat \ {0}, NEW x \in Nat PROVE x \div n \in Nat
BY DivForm

(* Quotients grow with the number. *)
LEMMA DivMono ==
    ASSUME NEW n \in Nat \ {0}, NEW x \in Nat, NEW y \in Nat, x <= y
    PROVE  x \div n <= y \div n
<1>1. PICK q \in Nat, r \in 0..(n - 1) : x = q * n + r /\ x \div n = q
  BY DivForm
<1>2. PICK p \in Nat, s \in 0..(n - 1) : y = p * n + s /\ y \div n = p
  BY DivForm
<1>3. q <= p
  <2> SUFFICES ASSUME p + 1 <= q PROVE FALSE
    OBVIOUS
  <2>1. (p + 1) * n <= q * n /\ q * n \in Int
    BY Growing
  <2>2. (p + 1) * n = p * n + 1 * n /\ p * n \in Int
    BY Multiples
  <2> QED BY <1>1, <1>2, <2>1, <2>2
<1> QED BY <1>1, <1>2, <1>3

(* Numbers of the same block are less than a block apart. *)
LEMMA DivNear ==
    ASSUME NEW n \in Nat \ {0}, NEW x \in Nat, NEW y \in Nat, x \div n = y \div n
    PROVE  y < x + n
<1>1. PICK q \in Nat, r \in 0..(n - 1) : x = q * n + r /\ x \div n = q
  BY DivForm
<1>2. PICK p \in Nat, s \in 0..(n - 1) : y = p * n + s /\ y \div n = p
  BY DivForm
<1>3. p * n = q * n /\ q * n \in Int
  BY <1>1, <1>2
<1> QED BY <1>1, <1>2, <1>3

(* The next number is in the next block if it is its first. *)
LEMMA DivNext ==
    ASSUME NEW n \in Nat \ {0}, NEW x \in Nat
    PROVE  (x + 1) \div n = IF (x + 1) % n = 0 THEN (x \div n) + 1 ELSE x \div n
<1>1. PICK q \in Nat, r \in 0..(n - 1) : x = q * n + r /\ x \div n = q
  BY DivForm
<1>2. CASE r + 1 < n
  <2>1. x + 1 = q * n + (r + 1) /\ r + 1 \in 0..(n - 1) /\ r + 1 # 0
    BY <1>1, <1>2
  <2>2. (x + 1) \div n = q /\ (x + 1) % n = r + 1
    BY <2>1, DivIs, ModIs
  <2> QED BY <1>1, <2>1, <2>2
<1>3. CASE r + 1 = n
  <2>1. (q + 1) * n = q * n + 1 * n /\ q * n \in Int
    BY Multiples
  <2>2. x + 1 = (q + 1) * n + 0 /\ 0 \in 0..(n - 1) /\ q + 1 \in Int
    BY <1>1, <1>3, <2>1
  <2>3. (x + 1) \div n = q + 1 /\ (x + 1) % n = 0
    BY <2>2, DivIs, ModIs
  <2> QED BY <1>1, <2>3
<1> QED BY <1>2, <1>3

(* Quotient and remainder by m blocks of n. *)
LEMMA DivSplit ==
    ASSUME NEW n \in Nat \ {0}, NEW m \in Nat \ {0}, NEW x \in Nat
    PROVE  /\ x \div (m * n) = (x \div n) \div m
           /\ x % (m * n) = ((x \div n) % m) * n + (x % n)
<1>1. PICK q \in Nat, r \in 0..(n - 1) : x = q * n + r /\ x \div n = q /\ x % n = r
  BY DivForm
<1>2. PICK p \in Nat, s \in 0..(m - 1) : q = p * m + s /\ q \div m = p /\ q % m = s
  BY DivForm
<1>3. q * n = (p * m) * n + s * n /\ (p * m) * n = p * (m * n) /\ s * n \in Int /\ p * m \in Int
  BY <1>2, Multiples
<1>4. s * n <= (m - 1) * n /\ (m - 1) * n = m * n + (-1) * n /\ m * n \in Int /\ 0 * n <= s * n
  BY Growing, Multiples
<1>5. (-1) * n = - n /\ 0 * n = 0 /\ p * (m * n) \in Int
  BY <1>4, Multiples
<1> DEFINE N == m * n
           R == s * n + r
<1>6. R \in 0..(N - 1) /\ N \in Nat \ {0}
  BY <1>3, <1>4, <1>5
<1>7. x = p * N + R
  BY <1>1, <1>3, <1>4, <1>5
<1> HIDE DEF N, R
<1>8. x \div N = p /\ x % N = R
  BY <1>6, <1>7, DivIs, ModIs
<1> QED BY <1>1, <1>2, <1>8 DEF N, R

LEMMA DivSmall ==
    ASSUME NEW n \in Nat \ {0}, NEW x \in 0..(n - 1)
    PROVE  x \div n = 0 /\ x % n = x
<1>1. x = 0 * n + x
  OBVIOUS
<1> QED BY <1>1, DivIs, ModIs

-----------------------------------------------------------------------------
(* Blocks of ticks.                                                        *)

LEMMA BlockFacts ==
    /\ \A i \in 0..4 : Block(i) \in Nat \ {0}
    /\ Block(0) = TIME_NEAR
    /\ \A i \in 0..3 : Block(i + 1) = TIME_LEVEL * Block(i) /\ 2 * Block(i) <= Wrap
<1> DEFINE N == TIME_NEAR
           L == TIME_LEVEL
           A == N * L
           B == A * L
           C == B * L
           D == C * L
<1>0. N \in Nat \ {0} /\ L \in Nat \ {0, 1}
  BY TimerAssumption
<1>1. Block(0) = N /\ Block(1) = A /\ Block(2) = B /\ Block(3) = C /\ Block(4) = D
  BY DEF Block
<1>a. ASSUME NEW x \in Nat \ {0} PROVE x * L \in Nat \ {0} /\ x * L = L * x /\ 2 * x <= x * L
  <2>1. 2 * x <= L * x /\ L * x \in Int
    BY <1>0, Growing
  <2>2. L * x = x * L
    BY <1>0
  <2> QED BY <2>1, <2>2
<1>2. A \in Nat \ {0} /\ A = L * N /\ 2 * N <= A
  BY <1>0, <1>a
<1> HIDE DEF A
<1>3. B \in Nat \ {0} /\ B = L * A /\ 2 * A <= B
  BY <1>2, <1>a
<1> HIDE DEF B
<1>4. C \in Nat \ {0} /\ C = L * B /\ 2 * B <= C
  BY <1>3, <1>a
<1> HIDE DEF C
<1>5. D \in Nat \ {0} /\ D = L * C /\ 2 * C <= D
  BY <1>4, <1>a
<1> HIDE DEF D
<1>6. 2 * N <= D /\ 2 * A <= D /\ 2 * B <= D /\ 2 * C <= D
  BY <1>0, <1>2, <1>3, <1>4, <1>5
<1>7. ASSUME NEW i \in 0..4 PROVE Block(i) \in Nat \ {0}
  <2>1. i = 0 \/ i = 1 \/ i = 2 \/ i = 3 \/ i = 4
    OBVIOUS
  <2> QED BY <1>0, <1>1, <1>2, <1>3, <1>4, <1>5, <2>1
<1>8. ASSUME NEW i \in 0..3 PROVE Block(i + 1) = TIME_LEVEL * Block(i) /\ 2 * Block(i) <= Wrap
  <2>1. (i = 0 /\ i + 1 = 1) \/ (i = 1 /\ i + 1 = 2) \/ (i = 2 /\ i + 1 = 3) \/ (i = 3 /\ i + 1 = 4)
    OBVIOUS
  <2>2. Wrap = D
    BY <1>1 DEF Wrap
  <2> QED BY <1>1, <1>2, <1>3, <1>4, <1>5, <1>6, <2>1, <2>2
<1> QED BY <1>1, <1>7, <1>8

LEMMA WrapFacts == Wrap \in Nat \ {0} /\ 2 * MaxDelay < Wrap /\ MaxDelay \in Nat \ {0}
BY BlockFacts, TimerAssumption DEF Wrap

(* Times of a block are in the same block of the levels above. *)
LEMMA SameAbove ==
    ASSUME NEW a \in Nat, NEW c \in Nat, NEW i \in 0..3, SameBlock(a, c, i)
    PROVE  SameBlock(a, c, i + 1)
<1>1. Block(i) \in Nat \ {0} /\ TIME_LEVEL \in Nat \ {0} /\ Block(i + 1) = TIME_LEVEL * Block(i)
  BY BlockFacts, TimerAssumption
<1>2. \A x \in Nat : x \div Block(i + 1) = (x \div Block(i)) \div TIME_LEVEL
  <2> SUFFICES ASSUME NEW x \in Nat PROVE x \div Block(i + 1) = (x \div Block(i)) \div TIME_LEVEL
    OBVIOUS
  <2>1. x \div (TIME_LEVEL * Block(i)) = (x \div Block(i)) \div TIME_LEVEL
    BY <1>1, DivSplit
  <2> QED BY <1>1, <2>1
<1>3. a \div Block(i) = c \div Block(i)
  BY DEF SameBlock
<1>4. a \div Block(i + 1) = c \div Block(i + 1)
  BY <1>2, <1>3
<1> QED BY <1>4 DEF SameBlock

LEMMA SameAll ==
    ASSUME NEW a \in Nat, NEW c \in Nat, NEW i \in 0..3, NEW j \in 0..3, i <= j, SameBlock(a, c, i)
    PROVE  SameBlock(a, c, j)
<1> DEFINE S(k) == SameBlock(a, c, k)
<1>0. \A k \in 0..3 : S(k) => S(k + 1)
  BY SameAbove
<1>i. S(i)
  OBVIOUS
<1> HIDE DEF S
<1>1. S(0) => S(1)
  BY <1>0
<1>2. S(1) => S(2)
  BY <1>0
<1>3. S(2) => S(3)
  BY <1>0
<1>4. (i = 0 \/ i = 1 \/ i = 2 \/ i = 3) /\ (j = 0 \/ j = 1 \/ j = 2 \/ j = 3)
  OBVIOUS
<1>5. S(j)
  <2>0. CASE i = 0 BY <1>i, <1>1, <1>2, <1>3, <1>4, <2>0
  <2>1. CASE i = 1 BY <1>i, <1>2, <1>3, <1>4, <2>1
  <2>2. CASE i = 2 BY <1>i, <1>3, <1>4, <2>2
  <2>3. CASE i = 3 BY <1>i, <1>4, <2>3
  <2> QED BY <1>4, <2>0, <2>1, <2>2, <2>3
<1> QED BY <1>5 DEF S

LEMMA IndexIn ==
    ASSUME NEW e \in Nat, NEW i \in Level
    PROVE  Index(e, i) \in 0..(TIME_LEVEL - 1)
<1>1. Block(i) \in Nat \ {0} /\ TIME_LEVEL \in Nat \ {0}
  BY BlockFacts, TimerAssumption DEF Level
<1>2. e \div Block(i) \in Int
  BY <1>1, DivNat
<1>3. (e \div Block(i)) % TIME_LEVEL \in 0..(TIME_LEVEL - 1)
  BY <1>1, <1>2, ModRange
<1> QED BY <1>3 DEF Index

(* A block of the level above starts where a block with index 0 does. *)
LEMMA StartAbove ==
    ASSUME NEW ct \in Nat, NEW i \in 0..3
    PROVE  ct % Block(i + 1) = 0 <=> ct % Block(i) = 0 /\ Index(ct, i) = 0
<1> DEFINE B == Block(i)
           x == Index(ct, i)
           r == ct % B
<1>1. B \in Nat \ {0} /\ TIME_LEVEL \in Nat \ {0} /\ Block(i + 1) = TIME_LEVEL * B
  BY BlockFacts, TimerAssumption
<1>2. ct % Block(i + 1) = x * B + r
  BY <1>1, DivSplit DEF Index
<1>3. x \in Nat
  BY <1>1, IndexIn DEF Level
<1>4. r \in Nat
  <2>1. ct \in Int
    OBVIOUS
  <2>2. r \in 0..(B - 1)
    <3> HIDE DEF B
    <3> QED BY <1>1, <2>1, ModRange
  <2> HIDE DEF B, r
  <2> QED BY <1>1, <2>2
<1> HIDE DEF B, x, r
<1>5. x = 0 => x * B = 0
  BY <1>1
<1>6. x # 0 => x * B >= 1 /\ x * B \in Int
  <2>1. ASSUME x # 0 PROVE 1 * B <= x * B /\ x * B \in Int
    BY <1>1, <1>3, <2>1, Growing
  <2> QED BY <1>1, <2>1
<1>7. ct % Block(i + 1) = 0 <=> r = 0 /\ x = 0
  BY <1>2, <1>3, <1>4, <1>5, <1>6
<1> QED BY <1>7 DEF B, x, r

(* At most one level starts a block that is not the first of its list. *)
LEMMA OneStarts ==
    ASSUME NEW ct \in Nat, NEW i \in Level, NEW j \in Level, Starts(ct, i), Starts(ct, j)
    PROVE  i = j
<1> DEFINE A(k) == ct % Block(k) = 0
           Z(k) == Index(ct, k) = 0
<1>0. \A k \in 0..3 : A(k + 1) => A(k) /\ Z(k)
  BY StartAbove
<1>s. A(i) /\ ~Z(i) /\ A(j) /\ ~Z(j)
  BY DEF Starts
<1> HIDE DEF A, Z
<1>1. A(1) => A(0) /\ Z(0)
  BY <1>0
<1>2. A(2) => A(1) /\ Z(1)
  BY <1>0
<1>3. A(3) => A(2) /\ Z(2)
  BY <1>0
<1>4. (i = 0 \/ i = 1 \/ i = 2 \/ i = 3) /\ (j = 0 \/ j = 1 \/ j = 2 \/ j = 3)
  BY DEF Level
<1>5. \A k \in {0, 1, 2, 3} : i = k => j = k
  <2>0. CASE i = 0 BY <1>s, <1>1, <1>2, <1>3, <1>4, <2>0
  <2>1. CASE i = 1 BY <1>s, <1>1, <1>2, <1>3, <1>4, <2>1
  <2>2. CASE i = 2 BY <1>s, <1>1, <1>2, <1>3, <1>4, <2>2
  <2>3. CASE i = 3 BY <1>s, <1>1, <1>2, <1>3, <1>4, <2>3
  <2> QED BY <1>4, <2>0, <2>1, <2>2, <2>3
<1> QED BY <1>4, <1>5

(* The time d ticks after now. *)
LEMMA After ==
    ASSUME NEW now \in 0..(Wrap - 1), NEW d \in 1..MaxDelay
    PROVE  /\ (now + d) % Wrap = IF now + d < Wrap THEN now + d ELSE now + d - Wrap
           /\ (now + d) % Wrap \in 0..(Wrap - 1) /\ (now + d) % Wrap # now
<1>0. Wrap \in Nat \ {0} /\ 2 * MaxDelay < Wrap /\ MaxDelay \in Nat
  BY WrapFacts
<1>1. CASE now + d < Wrap
  <2>1. now + d \in 0..(Wrap - 1)
    BY <1>0, <1>1
  <2>2. (now + d) % Wrap = now + d
    BY <1>0, <2>1, DivSmall
  <2> QED BY <1>0, <1>1, <2>1, <2>2
<1>2. CASE now + d >= Wrap
  <2>1. now + d - Wrap \in 0..(Wrap - 1) /\ now + d = 1 * Wrap + (now + d - Wrap)
    BY <1>0, <1>2
  <2>2. (now + d) % Wrap = now + d - Wrap
    BY <1>0, <2>1, ModIs
  <2> QED BY <1>0, <1>2, <2>1, <2>2
<1> QED BY <1>0, <1>1, <1>2

LEMMA Tick ==
    ASSUME NEW now \in 0..(Wrap - 1)
    PROVE  /\ (now + 1) % Wrap = IF now + 1 < Wrap THEN now + 1 ELSE 0
           /\ (now + 1) % Wrap \in 0..(Wrap - 1)
<1>1. 1 \in 1..MaxDelay /\ Wrap \in Nat \ {0}
  BY WrapFacts
<1>2. now + 1 < Wrap \/ now + 1 - Wrap = 0
  BY <1>1
<1> QED BY <1>1, <1>2, After

(* A tick brings what is due in d ticks to d - 1 ticks. *)
LEMMA OneLess ==
    ASSUME NEW now \in 0..(Wrap - 1), NEW d \in 1..MaxDelay
    PROVE  (((now + 1) % Wrap) + (d - 1)) % Wrap = (now + d) % Wrap
<1> DEFINE ct == (now + 1) % Wrap
<1>0. Wrap \in Nat \ {0} /\ 2 * MaxDelay < Wrap /\ MaxDelay \in Nat
  BY WrapFacts
<1>1. ct = IF now + 1 < Wrap THEN now + 1 ELSE 0
  BY Tick
<1> HIDE DEF ct
<1>2. CASE now + 1 < Wrap
  <2>1. ct + (d - 1) = now + d
    BY <1>0, <1>1, <1>2
  <2> QED BY <2>1 DEF ct
<1>3. CASE ~(now + 1 < Wrap)
  <2>1. ct + (d - 1) = d - 1 /\ now + d - Wrap = d - 1 /\ d - 1 \in 0..(Wrap - 1) /\ ~(now + d < Wrap)
    BY <1>0, <1>1, <1>3
  <2>2. (d - 1) % Wrap = d - 1
    BY <1>0, <2>1, DivSmall
  <2>3. (now + d) % Wrap = d - 1
    BY <2>1, After
  <2>4. (ct + (d - 1)) % Wrap = (now + d) % Wrap
    BY <2>1, <2>2, <2>3
  <2> QED BY <2>4 DEF ct
<1> QED BY <1>2, <1>3

(* What is due in the block of now, or of a level below the last, is ahead  *)
(* of it without a wrap of the clock: delays are below half of the wheel.   *)
LEMMA Ahead ==
    ASSUME NEW now \in 0..(Wrap - 1), NEW d \in 1..MaxDelay, NEW i \in Level,
           SameBlock((now + d) % Wrap, now, i)
    PROVE  (now + d) % Wrap = now + d /\ now + d < Wrap /\ (now + 1) % Wrap = now + 1
<1> DEFINE e == (now + d) % Wrap
           B == Block(i)
<1>0. Wrap \in Nat \ {0} /\ 2 * MaxDelay < Wrap /\ MaxDelay \in Nat
  BY WrapFacts
<1>1. e = (IF now + d < Wrap THEN now + d ELSE now + d - Wrap) /\ e \in 0..(Wrap - 1)
  BY After
<1>2. B \in Nat \ {0} /\ 2 * B <= Wrap
  BY BlockFacts DEF Level
<1>3. e \div B = now \div B
  BY DEF SameBlock
<1> HIDE DEF e, B
<1>4. now < e + B
  <2>1. e \in Nat /\ now \in Nat
    BY <1>0, <1>1
  <2> QED BY <1>2, <1>3, <2>1, DivNear
<1>5. now + d < Wrap
  BY <1>0, <1>1, <1>2, <1>4
<1>6. (now + 1) % Wrap = now + 1
  BY <1>0, <1>5, Tick
<1> QED BY <1>1, <1>5, <1>6 DEF e

(* The clock does not leave a block in which something is due. *)
LEMMA Stays ==
    ASSUME NEW now \in 0..(Wrap - 1), NEW d \in 1..MaxDelay, NEW i \in Level,
           SameBlock((now + d) % Wrap, now, i)
    PROVE  SameBlock((now + d) % Wrap, (now + 1) % Wrap, i)
<1> DEFINE B == Block(i)
<1>0. Wrap \in Nat \ {0} /\ MaxDelay \in Nat /\ B \in Nat \ {0}
  BY WrapFacts, BlockFacts DEF Level
<1>1. (now + d) % Wrap = now + d /\ (now + 1) % Wrap = now + 1
  BY Ahead
<1>2. (now + d) \div B = now \div B
  BY <1>1 DEF SameBlock
<1> HIDE DEF B
<1>3. now \in Nat /\ now + 1 \in Nat /\ now + d \in Nat /\ now <= now + 1 /\ now + 1 <= now + d
  BY <1>0
<1>4. now \div B <= (now + 1) \div B /\ (now + 1) \div B <= (now + d) \div B
  BY <1>0, <1>3, DivMono
<1>5. now \div B \in Nat /\ (now + 1) \div B \in Nat /\ (now + d) \div B \in Nat
  BY <1>0, <1>3, DivNat
<1>6. (now + d) \div B = (now + 1) \div B
  BY <1>2, <1>4, <1>5
<1> QED BY <1>1, <1>6 DEF SameBlock, B

(* When the clock enters the block of e in level i, timer_shift moves the   *)
(* list of e in that level, and no other.                                   *)
Reached(ct, e, i) ==
    IF ct = 0 THEN i = 3 /\ Index(e, i) = 0
    ELSE Starts(ct, i) /\ Index(ct, i) = Index(e, i) /\ \A j \in Level : Starts(ct, j) => j = i

LEMMA Reaches ==
    ASSUME NEW now \in 0..(Wrap - 1), NEW d \in 1..MaxDelay, NEW i \in Level,
           NEW e, e = (now + d) % Wrap, NEW ct, ct = (now + 1) % Wrap,
           ~SameBlock(e, now, i), i < 3 => SameBlock(e, now, i + 1), SameBlock(e, ct, i)
    PROVE  Reached(ct, e, i)
<1> DEFINE B == Block(i)
<1>0. Wrap \in Nat \ {0} /\ MaxDelay \in Nat /\ B \in Nat \ {0} /\ TIME_LEVEL \in Nat \ {0}
  BY WrapFacts, BlockFacts, TimerAssumption DEF Level
<1>1. e \in 0..(Wrap - 1) /\ ct \in 0..(Wrap - 1) /\ (ct = now + 1 \/ ct = 0)
  BY After, Tick
<1>2. e \in Nat /\ ct \in Nat /\ now \in Nat
  BY <1>0, <1>1
<1>3. e \div B = ct \div B /\ e \div B # now \div B
  BY DEF SameBlock
<1>4. Index(ct, i) = Index(e, i)
  BY <1>3 DEF Index, B
<1>5. ASSUME i < 3 PROVE /\ ct = now + 1
                         /\ ct \div Block(i + 1) = now \div Block(i + 1)
                         /\ Block(i + 1) \in Nat \ {0}
  <2>1. i + 1 \in Level /\ i \in 0..3 /\ i + 1 \in 0..4
    BY <1>5 DEF Level
  <2>2. SameBlock(e, now, i + 1)
    BY <1>5
  <2>3. ct = now + 1
    BY <2>1, <2>2, Ahead
  <2>4. SameBlock(e, ct, i + 1)
    BY <1>2, <2>1, SameAbove
  <2>5. Block(i + 1) \in Nat \ {0}
    BY <2>1, BlockFacts
  <2> QED BY <2>2, <2>3, <2>4, <2>5 DEF SameBlock
<1>6. CASE ct = 0
  <2>1. i = 3
    <3>1. ~(i < 3)
      BY <1>2, <1>5, <1>6
    <3> QED BY <3>1 DEF Level
  <2>2. ct \div B = 0 /\ 0 % TIME_LEVEL = 0
    <3>1. 0 \in 0..(B - 1) /\ 0 \in 0..(TIME_LEVEL - 1)
      BY <1>0
    <3> HIDE DEF B
    <3> QED BY <1>0, <1>6, <3>1, DivSmall
  <2>3. Index(ct, i) = 0
    BY <2>2 DEF Index, B
  <2> QED BY <1>4, <1>6, <2>1, <2>3 DEF Reached
<1>7. CASE ct # 0
  <2>1. ct = now + 1
    BY <1>1, <1>7
  <2>2. ct % B = 0
    <3> HIDE DEF B
    <3> QED BY <1>0, <1>2, <1>3, <2>1, DivNext
  <2>3. Index(ct, i) # 0
    <3> SUFFICES ASSUME Index(ct, i) = 0 PROVE FALSE
      OBVIOUS
    <3>1. i \in 0..3 /\ i + 1 \in 0..4
      BY DEF Level
    <3>2. ct % Block(i + 1) = 0
      BY <1>2, <2>2, <3>1, StartAbove DEF B
    <3>3. CASE i < 3
      <4>1. PICK C \in Nat \ {0} : C = Block(i + 1)
        BY <1>5, <3>3
      <4>2. (now + 1) \div C = (now \div C) + 1 /\ now \div C \in Nat
        BY <1>2, <2>1, <3>2, <4>1, DivNext, DivNat
      <4>3. (now + 1) \div C = now \div C
        BY <1>5, <2>1, <3>3, <4>1
      <4> QED BY <4>2, <4>3
    <3>4. CASE i = 3
      <4>1. Block(i + 1) = Wrap
        BY <3>4 DEF Wrap
      <4>2. ct % Wrap = ct
        BY <1>0, <1>1, DivSmall
      <4> QED BY <1>7, <3>2, <4>1, <4>2
    <3> QED BY <3>1, <3>3, <3>4
  <2>4. Starts(ct, i)
    BY <2>2, <2>3 DEF Starts, B
  <2>5. \A j \in Level : Starts(ct, j) => j = i
    BY <1>2, <2>4, OneStarts
  <2> QED BY <1>4, <1>7, <2>4, <2>5 DEF Reached
<1> QED BY <1>6, <1>7

-----------------------------------------------------------------------------
(* Where a timer is.                                                       *)

Near   == 0..(TIME_NEAR - 1)
Far    == Level \X (0..(TIME_LEVEL - 1))
Wheels == [near : [Near -> Seq(Node)], far : [Far -> Seq(Node)]]

(* A timer for e belongs to the list p[2] of level p[1] at time now. *)
Belongs(e, now, p) ==
    /\ ~SameBlock(e, now, p[1]) /\ p[2] = Index(e, p[1])
    /\ p[1] < 3 => SameBlock(e, now, p[1] + 1)

BelongsNear(e, now, j) == SameBlock(e, now, 0) /\ e % TIME_NEAR = j

(* The wheel holds the timers S, each in the list to which it belongs. *)
InPlace(w, ex, now, S) ==
    /\ w \in Wheels
    /\ \A j \in Near : \A n \in Range(w.near[j]) : n \in S /\ BelongsNear(ex[n], now, j)
    /\ \A p \in Far : \A n \in Range(w.far[p]) : n \in S /\ Belongs(ex[n], now, p)
    /\ \A n \in S : (\E j \in Near : n \in Range(w.near[j])) \/ (\E p \in Far : n \in Range(w.far[p]))

(* A list of the levels is a level and an index. *)
LEMMA FarPair == \A p \in Far : p[1] \in Level /\ p[2] \in 0..(TIME_LEVEL - 1) /\ p = <<p[1], p[2]>>
BY DEF Far

(* The level of a timer is the lowest whose block above holds both times. *)
LEMMA LevelIs ==
    ASSUME NEW e, NEW now, ~SameBlock(e, now, 0)
    PROVE  /\ LevelOf(e, now) \in Level
           /\ ~SameBlock(e, now, LevelOf(e, now))
           /\ LevelOf(e, now) < 3 => SameBlock(e, now, LevelOf(e, now) + 1)
<1> DEFINE S(k) == SameBlock(e, now, k)
           First(j) == S(j + 1) /\ \A k \in 0..(j - 1) : ~S(k + 1)
<1>0. ~S(0)
  OBVIOUS
<1>1. LevelOf(e, now) = IF \E j \in 0..2 : S(j + 1) THEN CHOOSE j \in 0..2 : First(j) ELSE 3
  BY DEF LevelOf
<1> HIDE DEF S
<1>2. CASE \E j \in 0..2 : S(j + 1)
  <2>1. S(1) \/ S(2) \/ S(3)
    <3>1. PICK j \in 0..2 : S(j + 1)
      BY <1>2
    <3>2. j + 1 = 1 \/ j + 1 = 2 \/ j + 1 = 3
      OBVIOUS
    <3> QED BY <3>1, <3>2
  <2>2. \E j \in 0..2 : First(j)
    <3>1. CASE S(1)
      <4>1. 0 \in 0..2 /\ 0 + 1 = 1 /\ 0..(0 - 1) = {}
        OBVIOUS
      <4>2. First(0)
        BY <3>1, <4>1
      <4> QED BY <4>1, <4>2
    <3>2. CASE ~S(1) /\ S(2)
      <4>1. 1 \in 0..2 /\ 1 + 1 = 2 /\ \A k \in 0..(1 - 1) : k + 1 = 1
        OBVIOUS
      <4>2. First(1)
        BY <3>2, <4>1
      <4> QED BY <4>1, <4>2
    <3>3. CASE ~S(1) /\ ~S(2) /\ S(3)
      <4>1. 2 \in 0..2 /\ 2 + 1 = 3 /\ \A k \in 0..(2 - 1) : k + 1 = 1 \/ k + 1 = 2
        OBVIOUS
      <4>2. First(2)
        BY <3>3, <4>1
      <4> QED BY <4>1, <4>2
    <3> QED BY <2>1, <3>1, <3>2, <3>3
  <2>3. PICK i \in 0..2 : i = LevelOf(e, now) /\ First(i)
    <3> HIDE DEF First
    <3> QED BY <1>1, <1>2, <2>2
  <2>4. ~S(i)
    <3>1. CASE i = 0
      BY <1>0, <3>1
    <3>2. CASE i # 0
      <4>1. i - 1 \in 0..(i - 1) /\ (i - 1) + 1 = i
        BY <3>2
      <4> QED BY <2>3, <4>1
    <3> QED BY <3>1, <3>2
  <2> QED BY <2>3, <2>4 DEF S, Level
<1>3. CASE ~\E j \in 0..2 : S(j + 1)
  <2>1. LevelOf(e, now) = 3
    BY <1>1, <1>3
  <2>2. ~S(3)
    <3>1. 2 \in 0..2 /\ 2 + 1 = 3
      OBVIOUS
    <3> QED BY <1>3, <3>1
  <2> QED BY <2>1, <2>2 DEF S, Level
<1> QED BY <1>2, <1>3

(* add_node links the timer to the list to which it belongs. *)
LEMMA PlaceIs ==
    ASSUME NEW w, NEW n, NEW e \in Nat, NEW now \in Nat
    PROVE  \/ \E j \in Near : /\ Place(w, n, e, now) = [w EXCEPT !.near[j] = Append(@, n)]
                              /\ BelongsNear(e, now, j)
           \/ \E p \in Far : /\ Place(w, n, e, now) = [w EXCEPT !.far[p] = Append(@, n)]
                             /\ Belongs(e, now, p)
<1>1. CASE SameBlock(e, now, 0)
  <2>1. TIME_NEAR \in Nat \ {0} /\ e \in Int
    BY TimerAssumption
  <2>2. PICK j \in Near : j = e % TIME_NEAR
    BY <2>1, ModRange DEF Near
  <2>3. Place(w, n, e, now) = [w EXCEPT !.near[j] = Append(@, n)]
    BY <1>1, <2>2 DEF Place
  <2> QED BY <1>1, <2>2, <2>3 DEF BelongsNear
<1>2. CASE ~SameBlock(e, now, 0)
  <2>1. PICK i \in Level : i = LevelOf(e, now) /\ ~SameBlock(e, now, i) /\ (i < 3 => SameBlock(e, now, i + 1))
    BY <1>2, LevelIs
  <2>2. PICK x \in 0..(TIME_LEVEL - 1) : x = Index(e, i)
    BY IndexIn
  <2>3. <<i, x>> \in Far
    BY DEF Far
  <2>4. Place(w, n, e, now) = [w EXCEPT !.far[<<i, x>>] = Append(@, n)]
    BY <1>2, <2>1, <2>2 DEF Place
  <2>5. Belongs(e, now, <<i, x>>)
    BY <2>1, <2>2 DEF Belongs
  <2> QED BY <2>3, <2>4, <2>5
<1> QED BY <1>1, <1>2

(* What a list holds after one more timer. *)
LEMMA RangeAppend ==
    ASSUME NEW s \in Seq(Node), NEW n \in Node
    PROVE  Append(s, n) \in Seq(Node) /\ Range(Append(s, n)) = Range(s) \cup {n}
<1> DEFINE t == Append(s, n)
<1>1. /\ t \in Seq(Node) /\ Len(t) = Len(s) + 1 /\ t[Len(s) + 1] = n
      /\ \A j \in 1..Len(s) : t[j] = s[j]
  BY AppendProperties
<1>2. Len(s) \in Nat /\ DOMAIN s = 1..Len(s) /\ DOMAIN t = 1..(Len(s) + 1)
  BY <1>1
<1> HIDE DEF t
<1>3. ASSUME NEW j \in DOMAIN t PROVE t[j] \in Range(s) \cup {n}
  <2>1. CASE j = Len(s) + 1
    BY <1>1, <2>1
  <2>2. CASE j # Len(s) + 1
    <3>1. j \in DOMAIN s /\ t[j] = s[j]
      BY <1>1, <1>2, <2>2
    <3> QED BY <3>1 DEF Range
  <2> QED BY <2>1, <2>2
<1>4. ASSUME NEW j \in DOMAIN s PROVE s[j] \in Range(t)
  <2>1. j \in DOMAIN t /\ t[j] = s[j]
    BY <1>1, <1>2
  <2> QED BY <2>1 DEF Range
<1>5. n \in Range(t)
  <2>1. Len(s) + 1 \in DOMAIN t
    BY <1>2
  <2> QED BY <1>1, <2>1 DEF Range
<1>6. Range(t) = Range(s) \cup {n}
  BY <1>3, <1>4, <1>5 DEF Range
<1> QED BY <1>1, <1>6 DEF t

(* add_node keeps the wheel in place. *)
LEMMA PlaceKeeps ==
    ASSUME NEW w, NEW ex, NEW now \in Nat, NEW S, NEW n \in Node, ex[n] \in Nat, InPlace(w, ex, now, S)
    PROVE  InPlace(Place(w, n, ex[n], now), ex, now, S \cup {n})
<1> DEFINE v == Place(w, n, ex[n], now)
<1>0. w \in Wheels /\ w.near \in [Near -> Seq(Node)] /\ w.far \in [Far -> Seq(Node)]
  BY DEF InPlace, Wheels
<1>1. ASSUME NEW j \in Near, v = [w EXCEPT !.near[j] = Append(@, n)], BelongsNear(ex[n], now, j)
      PROVE  InPlace(v, ex, now, S \cup {n})
  <2> HIDE DEF v
  <2>1. w.near[j] \in Seq(Node)
    BY <1>0
  <2>2. Append(w.near[j], n) \in Seq(Node) /\ Range(Append(w.near[j], n)) = Range(w.near[j]) \cup {n}
    BY <2>1, RangeAppend
  <2>3. v.near = [w.near EXCEPT ![j] = Append(@, n)] /\ v.far = w.far /\ v \in Wheels
    BY <1>0, <1>1, <2>2 DEF Wheels
  <2>4. v.near[j] = Append(w.near[j], n) /\ \A i \in Near : i # j => v.near[i] = w.near[i]
    BY <1>0, <2>3
  <2>5. ASSUME NEW i \in Near, NEW m \in Range(v.near[i]) PROVE m \in S \cup {n} /\ BelongsNear(ex[m], now, i)
    <3>1. CASE i = j /\ m = n
      BY <1>1, <3>1
    <3>2. CASE ~(i = j /\ m = n)
      <4>1. m \in Range(w.near[i])
        BY <2>2, <2>4, <2>5, <3>2
      <4> QED BY <4>1 DEF InPlace
    <3> QED BY <3>1, <3>2
  <2>6. ASSUME NEW p \in Far, NEW m \in Range(v.far[p]) PROVE m \in S \cup {n} /\ Belongs(ex[m], now, p)
    BY <2>3, <2>6 DEF InPlace
  <2>7. ASSUME NEW m \in S \cup {n}
        PROVE  (\E i \in Near : m \in Range(v.near[i])) \/ (\E p \in Far : m \in Range(v.far[p]))
    <3>1. CASE m = n
      <4>1. m \in Range(v.near[j])
        BY <2>2, <2>4, <3>1
      <4> QED BY <4>1
    <3>2. ASSUME NEW i \in Near, m \in Range(w.near[i]) PROVE m \in Range(v.near[i])
      BY <2>2, <2>4, <3>2
    <3>3. CASE m \in S
      <4>1. (\E i \in Near : m \in Range(w.near[i])) \/ (\E p \in Far : m \in Range(w.far[p]))
        BY <3>3 DEF InPlace
      <4> QED BY <2>3, <3>2, <4>1
    <3> QED BY <3>1, <3>3
  <2> QED BY <2>3, <2>5, <2>6, <2>7 DEF InPlace
<1>2. ASSUME NEW q \in Far, v = [w EXCEPT !.far[q] = Append(@, n)], Belongs(ex[n], now, q)
      PROVE  InPlace(v, ex, now, S \cup {n})
  <2> HIDE DEF v
  <2>1. w.far[q] \in Seq(Node)
    BY <1>0
  <2>2. Append(w.far[q], n) \in Seq(Node) /\ Range(Append(w.far[q], n)) = Range(w.far[q]) \cup {n}
    BY <2>1, RangeAppend
  <2>3. v.far = [w.far EXCEPT ![q] = Append(@, n)] /\ v.near = w.near /\ v \in Wheels
    BY <1>0, <1>2, <2>2 DEF Wheels
  <2>4. v.far[q] = Append(w.far[q], n) /\ \A p \in Far : p # q => v.far[p] = w.far[p]
    BY <1>0, <2>3
  <2>5. ASSUME NEW p \in Far, NEW m \in Range(v.far[p]) PROVE m \in S \cup {n} /\ Belongs(ex[m], now, p)
    <3>1. CASE p = q /\ m = n
      BY <1>2, <3>1
    <3>2. CASE ~(p = q /\ m = n)
      <4>1. m \in Range(w.far[p])
        BY <2>2, <2>4, <2>5, <3>2
      <4> QED BY <4>1 DEF InPlace
    <3> QED BY <3>1, <3>2
  <2>6. ASSUME NEW i \in Near, NEW m \in Range(v.near[i]) PROVE m \in S \cup {n} /\ BelongsNear(ex[m], now, i)
    BY <2>3, <2>6 DEF InPlace
  <2>7. ASSUME NEW m \in S \cup {n}
        PROVE  (\E i \in Near : m \in Range(v.near[i])) \/ (\E p \in Far : m \in Range(v.far[p]))
    <3>1. CASE m = n
      <4>1. m \in Range(v.far[q])
        BY <2>2, <2>4, <3>1
      <4> QED BY <4>1
    <3>2. ASSUME NEW p \in Far, m \in Range(w.far[p]) PROVE m \in Range(v.far[p])
      BY <2>2, <2>4, <3>2
    <3>3. CASE m \in S
      <4>1. (\E i \in Near : m \in Range(w.near[i])) \/ (\E p \in Far : m \in Range(w.far[p]))
        BY <3>3 DEF InPlace
      <4> QED BY <2>3, <3>2, <4>1
    <3> QED BY <3>1, <3>3
  <2> QED BY <2>3, <2>5, <2>6, <2>7 DEF InPlace
<1> HIDE DEF v
<1>3. \/ \E j \in Near : v = [w EXCEPT !.near[j] = Append(@, n)] /\ BelongsNear(ex[n], now, j)
      \/ \E p \in Far : v = [w EXCEPT !.far[p] = Append(@, n)] /\ Belongs(ex[n], now, p)
  BY PlaceIs DEF v
<1>4. InPlace(v, ex, now, S \cup {n})
  BY <1>1, <1>2, <1>3
<1> QED BY <1>4 DEF v

-----------------------------------------------------------------------------
(* move_list                                                               *)

MoveTurn(w, l, p, ex, now, k, g) ==
    IF k = 0 THEN [w EXCEPT !.far[p] = << >>] ELSE Place(g[k - 1], l[k], ex[l[k]], now)

(* The loop of move_list has a result. *)
MoveTurns(w, l, p, ex, now) == \E g : g = [k \in 0..Len(l) |-> MoveTurn(w, l, p, ex, now, k, g)]

(* That loop computes one result. *)
LEMMA MoveExists ==
    ASSUME NEW w, NEW l, Len(l) \in Nat, NEW p, NEW ex, NEW now
    PROVE  MoveTurns(w, l, p, ex, now)
<1> DEFINE L == Len(l)
           T == {n \in Nat : \E g : \A i \in 0..L : i <= n => g[i] = MoveTurn(w, l, p, ex, now, i, g)}
<1>1. 0 \in T
  <2> DEFINE g == [i \in 0..L |-> [w EXCEPT !.far[p] = << >>]]
  <2>1. \A i \in 0..L : i <= 0 => g[i] = MoveTurn(w, l, p, ex, now, i, g)
    BY DEF MoveTurn
  <2> HIDE DEF g
  <2> QED BY <2>1
<1>2. ASSUME NEW n \in T PROVE n + 1 \in T
  <2>1. n \in Nat
    OBVIOUS
  <2>2. PICK g : \A i \in 0..L : i <= n => g[i] = MoveTurn(w, l, p, ex, now, i, g)
    OBVIOUS
  <2> DEFINE k == [i \in 0..L |-> MoveTurn(w, l, p, ex, now, i, g)]
  <2>3. ASSUME NEW i \in 0..L, i <= n + 1 PROVE k[i] = MoveTurn(w, l, p, ex, now, i, k)
    <3>1. k[i] = MoveTurn(w, l, p, ex, now, i, g)
      OBVIOUS
    <3>2. CASE i = 0
      BY <3>1, <3>2 DEF MoveTurn
    <3>3. CASE i # 0
      <4>1. i - 1 \in 0..L /\ i - 1 <= n
        BY <2>1, <2>3, <3>3
      <4>2. k[i - 1] = g[i - 1]
        BY <2>2, <4>1
      <4> HIDE DEF k
      <4> QED BY <3>1, <3>3, <4>2 DEF MoveTurn
    <3> QED BY <3>2, <3>3
  <2> HIDE DEF k
  <2>4. \E x : \A i \in 0..L : i <= n + 1 => x[i] = MoveTurn(w, l, p, ex, now, i, x)
    BY <2>3
  <2> QED BY <2>1, <2>4
<1>3. T = Nat
  <2> HIDE DEF T
  <2>1. T \subseteq Nat
    BY DEF T
  <2> QED BY <1>1, <1>2, <2>1, Induction
<1>4. L \in T
  <2> HIDE DEF T
  <2> QED BY <1>3
<1>5. PICK g : \A i \in 0..L : i <= L => g[i] = MoveTurn(w, l, p, ex, now, i, g)
  BY <1>4
<1> DEFINE k == [i \in 0..L |-> MoveTurn(w, l, p, ex, now, i, g)]
<1>6. ASSUME NEW i \in 0..L PROVE k[i] = MoveTurn(w, l, p, ex, now, i, k)
  <2>1. \A j \in 0..L : k[j] = g[j]
    BY <1>5
  <2>2. i # 0 => i - 1 \in 0..L
    OBVIOUS
  <2>3. k[i] = MoveTurn(w, l, p, ex, now, i, g)
    OBVIOUS
  <2> HIDE DEF k
  <2> QED BY <2>1, <2>2, <2>3 DEF MoveTurn
<1>7. k = [i \in 0..L |-> MoveTurn(w, l, p, ex, now, i, k)]
  BY <1>6
<1> HIDE DEF k
<1>8. \E x : x = [i \in 0..Len(l) |-> MoveTurn(w, l, p, ex, now, i, x)]
  BY <1>7
<1> QED BY <1>8 DEF MoveTurns

(* Its result after each timer. *)
Moving(f, w, p, now, l) ==
    /\ f[0] = [w EXCEPT !.far[p] = << >>]
    /\ \A k \in 1..Len(l) : f[k] = Place(f[k - 1], l[k], expire[l[k]], now)
    /\ MoveList(w, p[1], p[2], now) = f[Len(l)]

(* It adds the timers of the list one after the other. *)
LEMMA MoveIs ==
    ASSUME NEW w, NEW p \in Far, NEW now, NEW l, l = w.far[p], Len(l) \in Nat
    PROVE  \E f : Moving(f, w, p, now, l)
<1> DEFINE L == Len(l)
           f == CHOOSE g : g = [k \in 0..L |-> MoveTurn(w, l, p, expire, now, k, g)]
<1>1. f = [k \in 0..L |-> MoveTurn(w, l, p, expire, now, k, f)]
  <2>1. MoveTurns(w, l, p, expire, now)
    <3> HIDE DEF f
    <3> QED BY MoveExists
  <2>2. \E g : g = [k \in 0..L |-> MoveTurn(w, l, p, expire, now, k, g)]
    BY <2>1 DEF MoveTurns
  <2> QED BY <2>2
<1>2. MoveList(w, p[1], p[2], now) = f[L]
  <2>1. <<p[1], p[2]>> = p
    BY FarPair
  <2> QED BY <2>1 DEF MoveList, MoveTurn
<1> HIDE DEF f
<1>3. f[0] = [w EXCEPT !.far[p] = << >>]
  BY <1>1 DEF MoveTurn
<1>4. ASSUME NEW k \in 1..L PROVE f[k] = Place(f[k - 1], l[k], expire[l[k]], now)
  <2>1. k \in 0..L /\ k # 0
    OBVIOUS
  <2> QED BY <1>1, <2>1 DEF MoveTurn
<1>5. Moving(f, w, p, now, l)
  BY <1>2, <1>3, <1>4 DEF Moving
<1> QED BY <1>5

(* After it they are where they belong, if the others are. *)
LEMMA MoveKeeps ==
    ASSUME NEW w, NEW p \in Far, NEW now \in Nat, NEW S, NEW l, l = w.far[p], l \in Seq(Node), Range(l) \subseteq S,
           \A n \in Node : expire[n] \in Nat,
           InPlace([w EXCEPT !.far[p] = << >>], expire, now, S \ Range(l))
    PROVE  InPlace(MoveList(w, p[1], p[2], now), expire, now, S)
<1> DEFINE L == Len(l)
<1>0. L \in Nat /\ DOMAIN l = 1..L /\ \A k \in 1..L : l[k] \in Node
  BY ElementOfSeq
<1>m. PICK f : Moving(f, w, p, now, l)
  BY <1>0, MoveIs
<1>1. /\ f[0] = [w EXCEPT !.far[p] = << >>]
      /\ \A k \in 1..L : f[k] = Place(f[k - 1], l[k], expire[l[k]], now)
      /\ MoveList(w, p[1], p[2], now) = f[L]
  BY <1>m DEF Moving
<1> DEFINE Done(k) == (S \ Range(l)) \cup {l[a] : a \in 1..k}
           T == {k \in Nat : k <= L => InPlace(f[k], expire, now, Done(k))}
<1>2. 0 \in T
  <2>1. 1..0 = {}
    OBVIOUS
  <2>2. Done(0) = S \ Range(l)
    BY <2>1
  <2> HIDE DEF Done
  <2> QED BY <1>1, <2>2
<1>3. ASSUME NEW k \in T PROVE k + 1 \in T
  <2>1. k \in Nat
    OBVIOUS
  <2> SUFFICES ASSUME k + 1 <= L PROVE InPlace(f[k + 1], expire, now, Done(k + 1))
    BY <2>1
  <2>2. InPlace(f[k], expire, now, Done(k))
    BY <1>0, <2>1
  <2>3. k + 1 \in 1..L /\ (k + 1) - 1 = k /\ \A a \in 1..(k + 1) : a \in 1..k \/ a = k + 1
    BY <1>0, <2>1
  <2>4. Done(k + 1) = Done(k) \cup {l[k + 1]}
    BY <2>1, <2>3
  <2>5. PICK n \in Node : n = l[k + 1]
    BY <1>0, <2>3
  <2>6. f[k + 1] = Place(f[k], n, expire[n], now)
    BY <1>1, <2>3, <2>5
  <2> HIDE DEF Done
  <2>7. InPlace(Place(f[k], n, expire[n], now), expire, now, Done(k) \cup {n})
    BY <2>2, PlaceKeeps
  <2> QED BY <2>4, <2>5, <2>6, <2>7
<1>4. T = Nat
  <2>1. T \subseteq Nat
    OBVIOUS
  <2> HIDE DEF T
  <2> QED BY <1>2, <1>3, <2>1, Induction
<1>5. InPlace(f[L], expire, now, Done(L))
  <2>1. L \in T
    <3> HIDE DEF T
    <3> QED BY <1>0, <1>4
  <2>2. L <= L
    BY <1>0
  <2> QED BY <2>1, <2>2
<1>6. Done(L) = S
  <2>1. {l[a] : a \in 1..L} = Range(l)
    BY <1>0 DEF Range
  <2> QED BY <2>1
<1> HIDE DEF Done
<1> QED BY <1>1, <1>5, <1>6

-----------------------------------------------------------------------------
(* The order of the timers, and the timers that are left.                  *)

(* x is before y in s. *)
Before(s, x, y) == \E a, b \in DOMAIN s : a < b /\ s[a] = x /\ s[b] = y

(* A timer at the end of a list is after those of the list. *)
LEMMA BeforeAppend ==
    ASSUME NEW s \in Seq(Node), NEW n \in Node
    PROVE  /\ \A x, y : Before(s, x, y) => Before(Append(s, n), x, y)
           /\ \A x \in Range(s) : Before(Append(s, n), x, n)
<1> DEFINE t == Append(s, n)
<1>1. /\ t \in Seq(Node) /\ Len(t) = Len(s) + 1 /\ t[Len(s) + 1] = n
      /\ \A j \in 1..Len(s) : t[j] = s[j]
  BY AppendProperties
<1>2. Len(s) \in Nat /\ DOMAIN s = 1..Len(s) /\ DOMAIN t = 1..(Len(s) + 1)
  BY <1>1
<1> HIDE DEF t
<1>3. ASSUME NEW x, NEW y, Before(s, x, y) PROVE Before(t, x, y)
  <2>1. PICK a \in DOMAIN s, b \in DOMAIN s : a < b /\ s[a] = x /\ s[b] = y
    BY <1>3 DEF Before
  <2>2. a \in DOMAIN t /\ b \in DOMAIN t /\ t[a] = x /\ t[b] = y
    BY <1>1, <1>2, <2>1
  <2> QED BY <2>1, <2>2 DEF Before
<1>4. ASSUME NEW x \in Range(s) PROVE Before(t, x, n)
  <2>1. PICK a \in DOMAIN s : s[a] = x
    BY <1>4 DEF Range
  <2>2. a \in DOMAIN t /\ t[a] = x /\ Len(s) + 1 \in DOMAIN t /\ a < Len(s) + 1
    BY <1>1, <1>2, <2>1
  <2> QED BY <1>1, <2>2 DEF Before
<1> QED BY <1>3, <1>4 DEF t

OthersTurn(l, S, i, g) ==
    IF i = 0 THEN << >> ELSE IF l[i] \in S THEN g[i - 1] ELSE Append(g[i - 1], l[i])

OthersTurns(l, S) == \E g : g = [i \in 0..Len(l) |-> OthersTurn(l, S, i, g)]

(* The loop over the line has a result. *)
LEMMA OthersExists ==
    ASSUME NEW l, Len(l) \in Nat, NEW S
    PROVE  OthersTurns(l, S)
<1> DEFINE L == Len(l)
           T == {n \in Nat : \E g : \A i \in 0..L : i <= n => g[i] = OthersTurn(l, S, i, g)}
<1>1. 0 \in T
  <2> DEFINE g == [i \in 0..L |-> << >>]
  <2>1. \A i \in 0..L : i <= 0 => g[i] = OthersTurn(l, S, i, g)
    BY DEF OthersTurn
  <2> HIDE DEF g
  <2> QED BY <2>1
<1>2. ASSUME NEW n \in T PROVE n + 1 \in T
  <2>1. n \in Nat
    OBVIOUS
  <2>2. PICK g : \A i \in 0..L : i <= n => g[i] = OthersTurn(l, S, i, g)
    OBVIOUS
  <2> DEFINE k == [i \in 0..L |-> OthersTurn(l, S, i, g)]
  <2>3. ASSUME NEW i \in 0..L, i <= n + 1 PROVE k[i] = OthersTurn(l, S, i, k)
    <3>1. k[i] = OthersTurn(l, S, i, g)
      OBVIOUS
    <3>2. CASE i = 0
      BY <3>1, <3>2 DEF OthersTurn
    <3>3. CASE i # 0
      <4>1. i - 1 \in 0..L /\ i - 1 <= n
        BY <2>1, <2>3, <3>3
      <4>2. k[i - 1] = g[i - 1]
        BY <2>2, <4>1
      <4> HIDE DEF k
      <4> QED BY <3>1, <3>3, <4>2 DEF OthersTurn
    <3> QED BY <3>2, <3>3
  <2> HIDE DEF k
  <2>4. \E x : \A i \in 0..L : i <= n + 1 => x[i] = OthersTurn(l, S, i, x)
    BY <2>3
  <2> QED BY <2>1, <2>4
<1>3. T = Nat
  <2> HIDE DEF T
  <2>1. T \subseteq Nat
    BY DEF T
  <2> QED BY <1>1, <1>2, <2>1, Induction
<1>4. L \in T
  <2> HIDE DEF T
  <2> QED BY <1>3
<1>5. PICK g : \A i \in 0..L : i <= L => g[i] = OthersTurn(l, S, i, g)
  BY <1>4
<1> DEFINE k == [i \in 0..L |-> OthersTurn(l, S, i, g)]
<1>6. ASSUME NEW i \in 0..L PROVE k[i] = OthersTurn(l, S, i, k)
  <2>1. \A j \in 0..L : k[j] = g[j]
    BY <1>5
  <2>2. i # 0 => i - 1 \in 0..L
    OBVIOUS
  <2>3. k[i] = OthersTurn(l, S, i, g)
    OBVIOUS
  <2> HIDE DEF k
  <2> QED BY <2>1, <2>2, <2>3 DEF OthersTurn
<1>7. k = [i \in 0..L |-> OthersTurn(l, S, i, k)]
  BY <1>6
<1> HIDE DEF k
<1>8. \E x : x = [i \in 0..Len(l) |-> OthersTurn(l, S, i, x)]
  BY <1>7
<1> QED BY <1>8 DEF OthersTurns

Choosing(f, l, S) ==
    /\ f[0] = << >>
    /\ \A i \in 1..Len(l) : f[i] = IF l[i] \in S THEN f[i - 1] ELSE Append(f[i - 1], l[i])
    /\ Others(l, S) = f[Len(l)]

(* It goes through the line timer by timer. *)
LEMMA OthersIs ==
    ASSUME NEW l, Len(l) \in Nat, NEW S
    PROVE  \E f : Choosing(f, l, S)
<1> DEFINE L == Len(l)
           f == CHOOSE g : g = [i \in 0..L |-> OthersTurn(l, S, i, g)]
<1>1. f = [i \in 0..L |-> OthersTurn(l, S, i, f)]
  <2>1. OthersTurns(l, S)
    <3> HIDE DEF f
    <3> QED BY OthersExists
  <2>2. \E g : g = [i \in 0..L |-> OthersTurn(l, S, i, g)]
    BY <2>1 DEF OthersTurns
  <2> QED BY <2>2
<1>2. Others(l, S) = f[L]
  BY DEF Others, OthersTurn
<1> HIDE DEF f
<1>3. f[0] = << >>
  BY <1>1 DEF OthersTurn
<1>4. ASSUME NEW i \in 1..L PROVE f[i] = IF l[i] \in S THEN f[i - 1] ELSE Append(f[i - 1], l[i])
  <2>1. i \in 0..L /\ i # 0
    OBVIOUS
  <2> QED BY <1>1, <2>1 DEF OthersTurn
<1>5. Choosing(f, l, S)
  BY <1>2, <1>3, <1>4 DEF Choosing
<1> QED BY <1>5

(* The timers that are left are the others, in the order they had. *)
LEMMA OthersAre ==
    ASSUME NEW l \in Seq(Node), NEW S
    PROVE  /\ Others(l, S) \in Seq(Node) /\ Range(Others(l, S)) = Range(l) \ S
           /\ \A x, y : Before(l, x, y) /\ x \notin S /\ y \notin S => Before(Others(l, S), x, y)
<1> DEFINE L == Len(l)
<1>0. L \in Nat /\ DOMAIN l = 1..L /\ \A k \in 1..L : l[k] \in Node
  BY ElementOfSeq
<1>m. PICK f : Choosing(f, l, S)
  BY <1>0, OthersIs
<1>1. /\ f[0] = << >>
      /\ \A i \in 1..L : f[i] = IF l[i] \in S THEN f[i - 1] ELSE Append(f[i - 1], l[i])
      /\ Others(l, S) = f[L]
  BY <1>m DEF Choosing
<1> DEFINE P(k) == /\ f[k] \in Seq(Node) /\ Range(f[k]) = {l[a] : a \in 1..k} \ S
                   /\ \A a, b \in 1..k : a < b /\ l[a] \notin S /\ l[b] \notin S => Before(f[k], l[a], l[b])
           T == {k \in Nat : k <= L => P(k)}
<1>2. 0 \in T
  <2>1. 1..0 = {} /\ Range(<< >>) = {} /\ << >> \in Seq(Node)
    BY DEF Range
  <2>2. P(0)
    BY <1>1, <2>1
  <2> HIDE DEF P
  <2> QED BY <2>2
<1>3. ASSUME NEW k \in T PROVE k + 1 \in T
  <2>1. k \in Nat
    OBVIOUS
  <2> SUFFICES ASSUME k + 1 <= L PROVE P(k + 1)
    BY <2>1
  <2>2. P(k)
    <3> HIDE DEF P
    <3> QED BY <1>0, <2>1
  <2>3. k + 1 \in 1..L /\ (k + 1) - 1 = k /\ \A a \in 1..(k + 1) : a \in 1..k \/ a = k + 1
    BY <1>0, <2>1
  <2>4. PICK n \in Node : n = l[k + 1]
    BY <1>0, <2>3
  <2>5. {l[a] : a \in 1..(k + 1)} = {l[a] : a \in 1..k} \cup {n}
    BY <2>1, <2>3, <2>4
  <2>6. f[k + 1] = IF n \in S THEN f[k] ELSE Append(f[k], n)
    BY <1>1, <2>3, <2>4
  <2>7. CASE n \in S
    <3>1. f[k + 1] = f[k]
      BY <2>6, <2>7
    <3>2. \A a, b \in 1..(k + 1) : a < b /\ l[a] \notin S /\ l[b] \notin S => Before(f[k + 1], l[a], l[b])
      BY <2>2, <2>3, <2>4, <2>7, <3>1
    <3> QED BY <2>2, <2>5, <2>7, <3>1, <3>2
  <2>8. CASE n \notin S
    <3>1. f[k + 1] = Append(f[k], n)
      BY <2>6, <2>8
    <3>2. f[k + 1] \in Seq(Node) /\ Range(f[k + 1]) = Range(f[k]) \cup {n}
      BY <2>2, <3>1, RangeAppend
    <3>3. ASSUME NEW a \in 1..(k + 1), NEW b \in 1..(k + 1), a < b, l[a] \notin S, l[b] \notin S
          PROVE  Before(f[k + 1], l[a], l[b])
      <4>0. f[k] \in Seq(Node)
        BY <2>2
      <4>1. a \in 1..k
        BY <2>1, <3>3
      <4>2. l[a] \in Range(f[k])
        BY <2>2, <3>3, <4>1
      <4>3. CASE b = k + 1
        BY <2>4, <3>1, <4>0, <4>2, <4>3, BeforeAppend
      <4>4. CASE b # k + 1
        <5>1. b \in 1..k
          BY <2>3, <4>4
        <5>2. Before(f[k], l[a], l[b])
          BY <2>2, <3>3, <4>1, <5>1
        <5> QED BY <3>1, <4>0, <5>2, BeforeAppend
      <4> QED BY <4>3, <4>4
    <3>4. Range(f[k + 1]) = {l[a] : a \in 1..(k + 1)} \ S
      BY <2>2, <2>5, <2>8, <3>2
    <3> QED BY <3>2, <3>3, <3>4
  <2> QED BY <2>7, <2>8
<1>4. T = Nat
  <2>1. T \subseteq Nat
    OBVIOUS
  <2> HIDE DEF T
  <2> QED BY <1>2, <1>3, <2>1, Induction
<1>5. P(L)
  <2>1. L \in T
    <3> HIDE DEF T
    <3> QED BY <1>0, <1>4
  <2>2. L <= L
    BY <1>0
  <2> HIDE DEF P
  <2> QED BY <2>1, <2>2
<1>6. {l[a] : a \in 1..L} = Range(l)
  BY <1>0 DEF Range
<1>7. ASSUME NEW x, NEW y, Before(l, x, y), x \notin S, y \notin S PROVE Before(Others(l, S), x, y)
  <2>1. PICK a \in DOMAIN l, b \in DOMAIN l : a < b /\ l[a] = x /\ l[b] = y
    BY <1>7 DEF Before
  <2> QED BY <1>0, <1>1, <1>5, <1>7, <2>1
<1> QED BY <1>1, <1>5, <1>6, <1>7

-----------------------------------------------------------------------------
(* timer_shift and timer_execute                                           *)

(* A timer belongs to one list. *)
LEMMA OneList ==
    ASSUME NEW e \in Nat, NEW now \in Nat, NEW p \in Far, Belongs(e, now, p)
    PROVE  /\ \A j \in Near : ~BelongsNear(e, now, j)
           /\ \A q \in Far : Belongs(e, now, q) => q = p
<1> DEFINE S(k) == SameBlock(e, now, k)
<1>0. \A a, b \in 0..3 : a <= b /\ S(a) => S(b)
  BY SameAll
<1>1. p[1] \in 0..3 /\ ~S(p[1]) /\ (p[1] < 3 => S(p[1] + 1)) /\ p[2] = Index(e, p[1])
  BY FarPair DEF Belongs, Level
<1>2. ASSUME NEW j \in Near, BelongsNear(e, now, j) PROVE FALSE
  <2>1. S(0)
    BY <1>2 DEF BelongsNear
  <2> HIDE DEF S
  <2> QED BY <1>0, <1>1, <2>1
<1>3. ASSUME NEW q \in Far, Belongs(e, now, q) PROVE q = p
  <2>1. q[1] \in 0..3 /\ ~S(q[1]) /\ (q[1] < 3 => S(q[1] + 1)) /\ q[2] = Index(e, q[1])
    BY <1>3, FarPair DEF Belongs, Level
  <2>2. q[1] = p[1]
    <3> HIDE DEF S
    <3>1. ASSUME q[1] < p[1] PROVE FALSE
      <4>1. S(q[1] + 1) /\ q[1] + 1 \in 0..3 /\ q[1] + 1 <= p[1]
        BY <1>1, <2>1, <3>1
      <4> QED BY <1>0, <1>1, <4>1
    <3>2. ASSUME p[1] < q[1] PROVE FALSE
      <4>1. S(p[1] + 1) /\ p[1] + 1 \in 0..3 /\ p[1] + 1 <= q[1]
        BY <1>1, <2>1, <3>2
      <4> QED BY <1>0, <2>1, <4>1
    <3> QED BY <1>1, <2>1, <3>1, <3>2
  <2> QED BY <1>1, <2>1, <2>2, FarPair
<1> QED BY <1>2, <1>3

(* An empty list holds nothing. *)
LEMMA RangeEmpty == Range(<< >>) = {} /\ << >> \in Seq(Node)
BY DEF Range

(* A list of near that is emptied leaves the others in place. *)
LEMMA NearEmptied ==
    ASSUME NEW w, NEW ex, NEW now \in Nat, NEW S, NEW j \in Near, InPlace(w, ex, now, S),
           \A n \in S : n \in Node /\ ex[n] \in Nat
    PROVE  InPlace([near |-> [w.near EXCEPT ![j] = << >>], far |-> w.far], ex, now, S \ Range(w.near[j]))
<1> DEFINE v == [near |-> [w.near EXCEPT ![j] = << >>], far |-> w.far]
           R == S \ Range(w.near[j])
<1>0. w \in Wheels /\ w.near \in [Near -> Seq(Node)] /\ w.far \in [Far -> Seq(Node)]
  BY DEF InPlace, Wheels
<1>1. /\ v.near[j] = << >> /\ \A i \in Near : i # j => v.near[i] = w.near[i]
      /\ v.far = w.far /\ v \in Wheels
  BY <1>0, RangeEmpty DEF Wheels
<1> HIDE DEF v
<1>2. ASSUME NEW i \in Near, NEW n \in Range(v.near[i]) PROVE n \in R /\ BelongsNear(ex[n], now, i)
  <2>1. i # j /\ n \in Range(w.near[i])
    BY <1>1, <1>2, RangeEmpty
  <2>2. n \in S /\ BelongsNear(ex[n], now, i)
    BY <2>1 DEF InPlace
  <2>3. n \notin Range(w.near[j])
    <3> SUFFICES ASSUME n \in Range(w.near[j]) PROVE FALSE
      OBVIOUS
    <3>1. BelongsNear(ex[n], now, j)
      BY DEF InPlace
    <3> QED BY <2>1, <2>2, <3>1 DEF BelongsNear
  <2> QED BY <2>2, <2>3
<1>3. ASSUME NEW q \in Far, NEW n \in Range(v.far[q]) PROVE n \in R /\ Belongs(ex[n], now, q)
  <2>1. n \in S /\ Belongs(ex[n], now, q) /\ ex[n] \in Nat
    BY <1>1, <1>3 DEF InPlace
  <2>2. n \notin Range(w.near[j])
    <3> SUFFICES ASSUME n \in Range(w.near[j]) PROVE FALSE
      OBVIOUS
    <3>1. BelongsNear(ex[n], now, j)
      BY DEF InPlace
    <3> QED BY <2>1, <3>1, OneList
  <2> QED BY <2>1, <2>2
<1>4. ASSUME NEW n \in R
      PROVE  (\E i \in Near : n \in Range(v.near[i])) \/ (\E q \in Far : n \in Range(v.far[q]))
  <2>1. n \in S /\ n \notin Range(w.near[j])
    OBVIOUS
  <2>2. (\E i \in Near : n \in Range(w.near[i])) \/ (\E q \in Far : n \in Range(w.far[q]))
    BY <2>1 DEF InPlace
  <2>3. ASSUME NEW i \in Near, n \in Range(w.near[i]) PROVE n \in Range(v.near[i])
    BY <1>1, <2>1, <2>3
  <2> QED BY <1>1, <2>2, <2>3
<1>5. InPlace(v, ex, now, R)
  <2> HIDE DEF R
  <2> QED BY <1>1, <1>2, <1>3, <1>4 DEF InPlace
<1> QED BY <1>5 DEF v

(* The state between two times: every list but p is as it is to be. *)
ButFor(w, ex, ct, S, p) ==
    /\ \A j \in Near : \A n \in Range(w.near[j]) : n \in S /\ BelongsNear(ex[n], ct, j)
    /\ \A q \in Far : \A n \in Range(w.far[q]) : n \in S /\ (q # p => Belongs(ex[n], ct, q))
    /\ \A q \in Far : q # p => \A n \in Range(w.far[q]) : n \notin Range(w.far[p])
    /\ \A j \in Near : \A n \in Range(w.near[j]) : n \notin Range(w.far[p])
    /\ \A n \in S : (\E j \in Near : n \in Range(w.near[j])) \/ (\E q \in Far : n \in Range(w.far[q]))

(* Moving that list then puts the wheel in place. *)
LEMMA MoveOne ==
    ASSUME NEW w \in Wheels, NEW ct \in Nat, NEW S, NEW p \in Far, ButFor(w, expire, ct, S, p),
           \A n \in Node : expire[n] \in Nat
    PROVE  InPlace(MoveList(w, p[1], p[2], ct), expire, ct, S)
<1> DEFINE v == [w EXCEPT !.far[p] = << >>]
           l == w.far[p]
           R == S \ Range(l)
<1>0. w.near \in [Near -> Seq(Node)] /\ w.far \in [Far -> Seq(Node)]
  BY DEF Wheels
<1>1. /\ v.far[p] = << >> /\ \A q \in Far : q # p => v.far[q] = w.far[q]
      /\ v.near = w.near /\ v \in Wheels
  BY <1>0, RangeEmpty DEF Wheels
<1>2. l \in Seq(Node)
  BY <1>0
<1> HIDE DEF v
<1>3. ASSUME NEW i \in Near, NEW n \in Range(v.near[i]) PROVE n \in R /\ BelongsNear(expire[n], ct, i)
  BY <1>1, <1>3 DEF ButFor
<1>4. ASSUME NEW q \in Far, NEW n \in Range(v.far[q]) PROVE n \in R /\ Belongs(expire[n], ct, q)
  <2>1. q # p /\ n \in Range(w.far[q])
    BY <1>1, <1>4, RangeEmpty
  <2> QED BY <2>1 DEF ButFor
<1>5. ASSUME NEW n \in R
      PROVE  (\E i \in Near : n \in Range(v.near[i])) \/ (\E q \in Far : n \in Range(v.far[q]))
  <2>1. (\E j \in Near : n \in Range(w.near[j])) \/ (\E q \in Far : n \in Range(w.far[q]))
    BY DEF ButFor
  <2>2. ASSUME NEW q \in Far, n \in Range(w.far[q]) PROVE n \in Range(v.far[q])
    <3>1. q # p
      BY <2>2
    <3> QED BY <1>1, <2>2, <3>1
  <2> QED BY <1>1, <2>1, <2>2
<1>6. Range(l) \subseteq S
  BY DEF ButFor
<1>7. InPlace(v, expire, ct, R)
  <2> HIDE DEF R
  <2> QED BY <1>1, <1>3, <1>4, <1>5 DEF InPlace
<1> HIDE DEF l
<1>8. l = w.far[p]
  BY DEF l
<1> QED BY <1>2, <1>6, <1>7, <1>8, MoveKeeps DEF v

(* Every timer of S is due in L[n] ticks. *)
DueIn(ex, now, S, L) == \A n \in S : n \in Node /\ L[n] \in 1..MaxDelay /\ ex[n] = (now + L[n]) % Wrap

(* The list that timer_shift moves at ct, if it moves one. *)
Shifts(ct, p) == IF ct = 0 THEN p = <<3, 0>> ELSE Starts(ct, p[1]) /\ p[2] = Index(ct, p[1])

(* timer_shift moves that list, or nothing. *)
LEMMA ShiftedIs ==
    ASSUME NEW w, NEW ct \in Nat
    PROVE  /\ \A p \in Far : Shifts(ct, p) => Shifted(w, ct) = MoveList(w, p[1], p[2], ct)
           /\ (\A p \in Far : ~Shifts(ct, p)) => Shifted(w, ct) = w
<1>1. CASE ct = 0
  <2>1. <<3, 0>> \in Far
    BY TimerAssumption DEF Far, Level
  <2>2. Shifted(w, ct) = MoveList(w, 3, 0, ct)
    BY <1>1 DEF Shifted
  <2>3. ASSUME NEW p \in Far, Shifts(ct, p) PROVE p[1] = 3 /\ p[2] = 0
    BY <1>1, <2>3 DEF Shifts
  <2>4. Shifts(ct, <<3, 0>>)
    BY <1>1 DEF Shifts
  <2> QED BY <2>1, <2>2, <2>3, <2>4
<1>2. CASE ct # 0
  <2>1. ASSUME NEW p \in Far, Shifts(ct, p) PROVE Shifted(w, ct) = MoveList(w, p[1], p[2], ct)
    <3>1. p[1] \in Level /\ Starts(ct, p[1]) /\ p[2] = Index(ct, p[1])
      BY <1>2, <2>1, FarPair DEF Shifts
    <3>2. \A j \in Level : Starts(ct, j) => j = p[1]
      BY <3>1, OneStarts
    <3>3. (CHOOSE j \in Level : Starts(ct, j)) = p[1]
      BY <3>1, <3>2
    <3> QED BY <1>2, <3>1, <3>3 DEF Shifted
  <2>2. ASSUME \A p \in Far : ~Shifts(ct, p) PROVE Shifted(w, ct) = w
    <3>1. ASSUME NEW i \in Level, Starts(ct, i) PROVE FALSE
      <4>1. <<i, Index(ct, i)>> \in Far
        BY IndexIn DEF Far
      <4>2. Shifts(ct, <<i, Index(ct, i)>>)
        BY <1>2, <3>1 DEF Shifts
      <4> QED BY <2>2, <4>1, <4>2
    <3> QED BY <1>2, <3>1 DEF Shifted
  <2> QED BY <2>1, <2>2
<1> QED BY <1>1, <1>2

(* A tick leaves every timer in its list, but for those that timer_shift    *)
(* moves.                                                                   *)
LEMMA TickKeeps ==
    ASSUME NEW ex, NEW now \in 0..(Wrap - 1), NEW S, NEW L, NEW ct, ct = (now + 1) % Wrap,
           DueIn(ex, now, S, L), NEW n \in S
    PROVE  /\ \A j \in Near : BelongsNear(ex[n], now, j) => BelongsNear(ex[n], ct, j)
           /\ \A p \in Far : Belongs(ex[n], now, p) => Belongs(ex[n], ct, p) \/ Shifts(ct, p)
<1> DEFINE e == ex[n]
           d == L[n]
<1>0. d \in 1..MaxDelay /\ e = (now + d) % Wrap
  BY DEF DueIn
<1>1. ct \in 0..(Wrap - 1) /\ ct \in Nat /\ e \in Nat
  BY <1>0, Tick, After
<1> HIDE DEF e, d
<1>2. \A i \in Level : SameBlock(e, now, i) => SameBlock(e, ct, i)
  BY <1>0, Stays
<1>3. ASSUME NEW j \in Near, BelongsNear(e, now, j) PROVE BelongsNear(e, ct, j)
  <2>1. 0 \in Level
    BY DEF Level
  <2> QED BY <1>2, <1>3, <2>1 DEF BelongsNear
<1>4. ASSUME NEW p \in Far, Belongs(e, now, p) PROVE Belongs(e, ct, p) \/ Shifts(ct, p)
  <2>1. PICK i \in Level : i = p[1]
    BY FarPair
  <2>2. ~SameBlock(e, now, i) /\ p[2] = Index(e, i) /\ (i < 3 => SameBlock(e, now, i + 1))
    BY <1>4, <2>1 DEF Belongs
  <2>3. i < 3 => SameBlock(e, ct, i + 1)
    BY <1>2, <2>2 DEF Level
  <2>4. CASE ~SameBlock(e, ct, i)
    BY <2>1, <2>2, <2>3, <2>4 DEF Belongs
  <2>5. CASE SameBlock(e, ct, i)
    <3>1. Reached(ct, e, i)
      BY <1>0, <2>2, <2>5, Reaches
    <3>2. p = <<i, p[2]>>
      BY <2>1, FarPair
    <3> QED BY <2>1, <2>2, <3>1, <3>2 DEF Reached, Shifts
  <2> QED BY <2>4, <2>5
<1> QED BY <1>3, <1>4 DEF e

(* timer_shift keeps the wheel in place. *)
LEMMA ShiftKeeps ==
    ASSUME NEW w, NEW now \in 0..(Wrap - 1), NEW S, NEW L, NEW ct, ct = (now + 1) % Wrap,
           InPlace(w, expire, now, S), DueIn(expire, now, S, L), \A n \in Node : expire[n] \in Nat
    PROVE  InPlace(Shifted(w, ct), expire, ct, S)
<1>0. ct \in Nat /\ now \in Nat /\ w \in Wheels
  BY Tick DEF InPlace
<1>1. \A n \in S : expire[n] \in Nat
  BY DEF DueIn
<1>2. ASSUME NEW j \in Near, NEW n \in Range(w.near[j])
      PROVE  n \in S /\ BelongsNear(expire[n], now, j) /\ BelongsNear(expire[n], ct, j)
  <2>1. n \in S /\ BelongsNear(expire[n], now, j)
    BY <1>2 DEF InPlace
  <2> QED BY <2>1, TickKeeps
<1>3. ASSUME NEW q \in Far, NEW n \in Range(w.far[q])
      PROVE  /\ n \in S /\ Belongs(expire[n], now, q)
             /\ Belongs(expire[n], ct, q) \/ Shifts(ct, q)
  <2>1. n \in S /\ Belongs(expire[n], now, q)
    BY <1>3 DEF InPlace
  <2> QED BY <2>1, TickKeeps
<1>4. \A n \in S : (\E j \in Near : n \in Range(w.near[j])) \/ (\E q \in Far : n \in Range(w.far[q]))
  BY DEF InPlace
<1>5. CASE \A p \in Far : ~Shifts(ct, p)
  <2>1. InPlace(w, expire, ct, S)
    BY <1>0, <1>2, <1>3, <1>4, <1>5 DEF InPlace
  <2> QED BY <1>0, <1>5, <2>1, ShiftedIs
<1>6. CASE \E p \in Far : Shifts(ct, p)
  <2>1. PICK p \in Far : Shifts(ct, p)
    BY <1>6
  <2>2. ASSUME NEW q \in Far, Shifts(ct, q) PROVE q = p
    <3>1. q[1] \in Level /\ p[1] \in Level /\ q = <<q[1], q[2]>> /\ p = <<p[1], p[2]>>
      BY FarPair
    <3>2. CASE ct = 0
      BY <2>1, <2>2, <3>2 DEF Shifts
    <3>3. CASE ct # 0
      <4>1. Starts(ct, q[1]) /\ q[2] = Index(ct, q[1]) /\ Starts(ct, p[1]) /\ p[2] = Index(ct, p[1])
        BY <2>1, <2>2, <3>3 DEF Shifts
      <4>2. q[1] = p[1]
        BY <1>0, <3>1, <4>1, OneStarts
      <4> QED BY <3>1, <4>1, <4>2
    <3> QED BY <3>2, <3>3
  <2>3. ASSUME NEW q \in Far, q # p, NEW n \in Range(w.far[q])
        PROVE  n \in S /\ Belongs(expire[n], ct, q) /\ n \notin Range(w.far[p])
    <3>1. n \in S /\ Belongs(expire[n], now, q) /\ Belongs(expire[n], ct, q) /\ expire[n] \in Nat
      BY <1>1, <1>3, <2>2, <2>3
    <3>2. ASSUME n \in Range(w.far[p]) PROVE FALSE
      <4>1. Belongs(expire[n], now, p)
        BY <1>3, <3>2
      <4> QED BY <1>0, <2>3, <3>1, <4>1, OneList
    <3> QED BY <3>1, <3>2
  <2>4. ASSUME NEW j \in Near, NEW n \in Range(w.near[j]), n \in Range(w.far[p]) PROVE FALSE
    <3>1. Belongs(expire[n], now, p) /\ n \in S /\ expire[n] \in Nat
      BY <1>1, <1>3, <2>4
    <3>2. BelongsNear(expire[n], now, j)
      BY <1>2, <2>4
    <3> QED BY <1>0, <3>1, <3>2, OneList
  <2>5. ButFor(w, expire, ct, S, p)
    BY <1>2, <1>3, <1>4, <2>3, <2>4 DEF ButFor
  <2>6. InPlace(MoveList(w, p[1], p[2], ct), expire, ct, S)
    BY <1>0, <2>5, MoveOne
  <2>7. Shifted(w, ct) = MoveList(w, p[1], p[2], ct)
    BY <1>0, <2>1, ShiftedIs
  <2> QED BY <2>6, <2>7
<1> QED BY <1>5, <1>6

(* The list of a tick holds the timers that are due, and no others. *)
HoldsDue(w, ex, now, S) ==
    /\ now % TIME_NEAR \in Near
    /\ \A n \in S : n \in Range(w.near[now % TIME_NEAR]) <=> ex[n] = now

LEMMA TakenAre ==
    ASSUME NEW w, NEW ex, NEW now \in 0..(Wrap - 1), NEW S, InPlace(w, ex, now, S),
           \A n \in S : ex[n] \in Nat
    PROVE  HoldsDue(w, ex, now, S)
<1>0. TIME_NEAR \in Nat \ {0} /\ now \in Nat /\ Block(0) = TIME_NEAR
  BY BlockFacts, TimerAssumption, WrapFacts
<1>1. PICK j \in Near : j = now % TIME_NEAR
  BY <1>0, ModRange DEF Near
<1>2. ASSUME NEW n \in S, n \in Range(w.near[j]) PROVE ex[n] = now
  <2>1. ex[n] % TIME_NEAR = j /\ ex[n] \div TIME_NEAR = now \div TIME_NEAR /\ ex[n] \in Nat
    BY <1>0, <1>2 DEF InPlace, BelongsNear, SameBlock
  <2>2. PICK q1 \in Nat, r1 \in 0..(TIME_NEAR - 1) :
              ex[n] = q1 * TIME_NEAR + r1 /\ ex[n] \div TIME_NEAR = q1 /\ ex[n] % TIME_NEAR = r1
    BY <1>0, <2>1, DivForm
  <2>3. PICK q2 \in Nat, r2 \in 0..(TIME_NEAR - 1) :
              now = q2 * TIME_NEAR + r2 /\ now \div TIME_NEAR = q2 /\ now % TIME_NEAR = r2
    BY <1>0, DivForm
  <2>4. q1 = q2 /\ r1 = r2
    BY <1>1, <2>1, <2>2, <2>3
  <2> QED BY <2>2, <2>3, <2>4
<1>3. ASSUME NEW n \in S, ex[n] = now PROVE n \in Range(w.near[j])
  <2>1. (\E i \in Near : n \in Range(w.near[i])) \/ (\E p \in Far : n \in Range(w.far[p]))
    BY DEF InPlace
  <2>2. ASSUME NEW i \in Near, n \in Range(w.near[i]) PROVE i = j
    BY <1>1, <1>3, <2>2 DEF InPlace, BelongsNear
  <2>3. ASSUME NEW p \in Far, n \in Range(w.far[p]) PROVE FALSE
    BY <1>3, <2>3 DEF InPlace, Belongs, SameBlock
  <2> QED BY <2>1, <2>2, <2>3
<1> QED BY <1>1, <1>2, <1>3 DEF HoldsDue

-----------------------------------------------------------------------------
(* The order of a list.                                                    *)

(* The timers of l are in the order in which ln has them. *)
Sorted(ln, l) == \A i \in DOMAIN l : \A j \in 1..(i - 1) : Before(ln, l[j], l[i])

InOrder(w, ln) == (\A j \in Near : Sorted(ln, w.near[j])) /\ (\A p \in Far : Sorted(ln, w.far[p]))

(* A list stays sorted when what is appended is after all of it. *)
LEMMA SortedAppend ==
    ASSUME NEW ln, NEW l \in Seq(Node), NEW n \in Node, Sorted(ln, l), \A x \in Range(l) : Before(ln, x, n)
    PROVE  Sorted(ln, Append(l, n))
<1> DEFINE t == Append(l, n)
<1>1. /\ t \in Seq(Node) /\ Len(t) = Len(l) + 1 /\ t[Len(l) + 1] = n
      /\ \A j \in 1..Len(l) : t[j] = l[j]
  BY AppendProperties
<1>2. Len(l) \in Nat /\ DOMAIN l = 1..Len(l) /\ DOMAIN t = 1..(Len(l) + 1)
  BY <1>1
<1> HIDE DEF t
<1>3. ASSUME NEW i \in DOMAIN t, NEW j \in 1..(i - 1) PROVE Before(ln, t[j], t[i])
  <2>1. j \in DOMAIN l /\ t[j] = l[j]
    BY <1>1, <1>2
  <2>2. CASE i = Len(l) + 1
    <3>1. l[j] \in Range(l)
      BY <2>1 DEF Range
    <3> QED BY <1>1, <2>1, <2>2, <3>1
  <2>3. CASE i # Len(l) + 1
    <3>1. i \in DOMAIN l /\ t[i] = l[i]
      BY <1>1, <1>2, <2>3
    <3> QED BY <2>1, <3>1 DEF Sorted
  <2> QED BY <2>2, <2>3
<1>4. Sorted(ln, t)
  BY <1>3 DEF Sorted
<1> QED BY <1>4 DEF t

(* add_node keeps the lists sorted when the timer is after those of the     *)
(* lists to which it may belong.                                            *)
LEMMA PlaceSorted ==
    ASSUME NEW w \in Wheels, NEW ln, NEW n \in Node, NEW e \in Nat, NEW now \in Nat, InOrder(w, ln),
           \A j \in Near : BelongsNear(e, now, j) => \A x \in Range(w.near[j]) : Before(ln, x, n),
           \A p \in Far : Belongs(e, now, p) => \A x \in Range(w.far[p]) : Before(ln, x, n)
    PROVE  Place(w, n, e, now) \in Wheels /\ InOrder(Place(w, n, e, now), ln)
<1> DEFINE v == Place(w, n, e, now)
<1>0. w.near \in [Near -> Seq(Node)] /\ w.far \in [Far -> Seq(Node)]
  BY DEF Wheels
<1>1. ASSUME NEW j \in Near, v = [w EXCEPT !.near[j] = Append(@, n)], BelongsNear(e, now, j)
      PROVE  v \in Wheels /\ InOrder(v, ln)
  <2> HIDE DEF v
  <2>1. w.near[j] \in Seq(Node) /\ Sorted(ln, w.near[j])
    BY <1>0 DEF InOrder
  <2>2. Append(w.near[j], n) \in Seq(Node) /\ Sorted(ln, Append(w.near[j], n))
    BY <1>1, <2>1, RangeAppend, SortedAppend
  <2>3. v.near = [w.near EXCEPT ![j] = Append(@, n)] /\ v.far = w.far /\ v \in Wheels
    BY <1>0, <1>1, <2>2 DEF Wheels
  <2>4. v.near[j] = Append(w.near[j], n) /\ \A i \in Near : i # j => v.near[i] = w.near[i]
    BY <1>0, <2>3
  <2>5. ASSUME NEW i \in Near PROVE Sorted(ln, v.near[i])
    BY <2>2, <2>4 DEF InOrder
  <2> QED BY <2>3, <2>5 DEF InOrder
<1>2. ASSUME NEW q \in Far, v = [w EXCEPT !.far[q] = Append(@, n)], Belongs(e, now, q)
      PROVE  v \in Wheels /\ InOrder(v, ln)
  <2> HIDE DEF v
  <2>1. w.far[q] \in Seq(Node) /\ Sorted(ln, w.far[q])
    BY <1>0 DEF InOrder
  <2>2. Append(w.far[q], n) \in Seq(Node) /\ Sorted(ln, Append(w.far[q], n))
    BY <1>2, <2>1, RangeAppend, SortedAppend
  <2>3. v.far = [w.far EXCEPT ![q] = Append(@, n)] /\ v.near = w.near /\ v \in Wheels
    BY <1>0, <1>2, <2>2 DEF Wheels
  <2>4. v.far[q] = Append(w.far[q], n) /\ \A p \in Far : p # q => v.far[p] = w.far[p]
    BY <1>0, <2>3
  <2>5. ASSUME NEW p \in Far PROVE Sorted(ln, v.far[p])
    BY <2>2, <2>4 DEF InOrder
  <2> QED BY <2>3, <2>5 DEF InOrder
<1> HIDE DEF v
<1>3. \/ \E j \in Near : v = [w EXCEPT !.near[j] = Append(@, n)] /\ BelongsNear(e, now, j)
      \/ \E p \in Far : v = [w EXCEPT !.far[p] = Append(@, n)] /\ Belongs(e, now, p)
  BY PlaceIs DEF v
<1>4. v \in Wheels /\ InOrder(v, ln)
  BY <1>1, <1>2, <1>3
<1> QED BY <1>4 DEF v

(* near and the levels below i hold only timers of X. *)
LowIn(w, i, X) ==
    /\ \A j \in Near : \A n \in Range(w.near[j]) : n \in X
    /\ \A q \in Far : q[1] < i => \A n \in Range(w.far[q]) : n \in X

(* A timer of the current block of level i goes to the lists below it. *)
LEMMA PlaceLow ==
    ASSUME NEW w \in Wheels, NEW n \in Node, NEW e \in Nat, NEW now \in Nat, NEW i \in Level,
           SameBlock(e, now, i), NEW X, LowIn(w, i, X)
    PROVE  LowIn(Place(w, n, e, now), i, X \cup {n}) /\ \A q \in Far : Belongs(e, now, q) => q[1] < i
<1> DEFINE v == Place(w, n, e, now)
<1>0. w.near \in [Near -> Seq(Node)] /\ w.far \in [Far -> Seq(Node)]
  BY DEF Wheels
<1>1. ASSUME NEW j \in Near, v = [w EXCEPT !.near[j] = Append(@, n)]
      PROVE  LowIn(v, i, X \cup {n})
  <2> HIDE DEF v
  <2>1. Range(Append(w.near[j], n)) = Range(w.near[j]) \cup {n}
    BY <1>0, RangeAppend
  <2>2. /\ v.near[j] = Append(w.near[j], n) /\ v.far = w.far
        /\ \A k \in Near : k # j => v.near[k] = w.near[k]
    BY <1>0, <1>1 DEF Wheels
  <2>3. ASSUME NEW k \in Near, NEW m \in Range(v.near[k]) PROVE m \in X \cup {n}
    BY <2>1, <2>2, <2>3 DEF LowIn
  <2> QED BY <2>2, <2>3 DEF LowIn
<1>2. ASSUME NEW q \in Far, v = [w EXCEPT !.far[q] = Append(@, n)]
      PROVE  LowIn(v, i, X \cup {n})
  <2> HIDE DEF v
  <2>1. Range(Append(w.far[q], n)) = Range(w.far[q]) \cup {n}
    BY <1>0, RangeAppend
  <2>2. /\ v.far[q] = Append(w.far[q], n) /\ v.near = w.near
        /\ \A p \in Far : p # q => v.far[p] = w.far[p]
    BY <1>0, <1>2 DEF Wheels
  <2>3. ASSUME NEW p \in Far, p[1] < i, NEW m \in Range(v.far[p]) PROVE m \in X \cup {n}
    BY <2>1, <2>2, <2>3 DEF LowIn
  <2> QED BY <2>2, <2>3 DEF LowIn
<1> HIDE DEF v
<1>3. \/ \E j \in Near : v = [w EXCEPT !.near[j] = Append(@, n)] /\ BelongsNear(e, now, j)
      \/ \E p \in Far : v = [w EXCEPT !.far[p] = Append(@, n)] /\ Belongs(e, now, p)
  BY PlaceIs DEF v
<1>4. LowIn(v, i, X \cup {n})
  BY <1>1, <1>2, <1>3
<1>5. ASSUME NEW q \in Far, Belongs(e, now, q) PROVE q[1] < i
  <2>1. q[1] \in 0..3 /\ i \in 0..3 /\ ~SameBlock(e, now, q[1])
    BY <1>5, FarPair DEF Belongs, Level
  <2>2. ~(i <= q[1])
    BY <2>1, SameAll
  <2> QED BY <2>1, <2>2
<1> QED BY <1>4, <1>5 DEF v

(* move_list keeps the order when the lists below are empty. *)
LEMMA MoveSorted ==
    ASSUME NEW w \in Wheels, NEW ln, NEW p \in Far, NEW ct \in Nat, InOrder(w, ln), LowIn(w, p[1], {}),
           \A n \in Node : expire[n] \in Nat,
           \A n \in Range(w.far[p]) : SameBlock(expire[n], ct, p[1])
    PROVE  InOrder(MoveList(w, p[1], p[2], ct), ln)
<1> DEFINE l == w.far[p]
           L == Len(l)
           v == [w EXCEPT !.far[p] = << >>]
<1>0. /\ w.near \in [Near -> Seq(Node)] /\ w.far \in [Far -> Seq(Node)]
      /\ p[1] \in Level
  BY FarPair DEF Wheels
<1>1. /\ v.far[p] = << >> /\ \A q \in Far : q # p => v.far[q] = w.far[q]
      /\ v.near = w.near /\ v \in Wheels
  BY <1>0, RangeEmpty DEF Wheels
<1>2. l \in Seq(Node) /\ Sorted(ln, l)
  BY <1>0 DEF InOrder
<1> HIDE DEF v
<1>3. InOrder(v, ln)
  <2>1. Sorted(ln, << >>)
    BY DEF Sorted
  <2> QED BY <1>1, <2>1 DEF InOrder
<1>4. LowIn(v, p[1], {})
  BY <1>1, RangeEmpty DEF LowIn
<1>l. l = w.far[p]
  OBVIOUS
<1> HIDE DEF l
<1>5. L \in Nat /\ DOMAIN l = 1..L /\ \A k \in 1..L : l[k] \in Node /\ l[k] \in Range(l)
  BY <1>2, ElementOfSeq DEF Range
<1>m. PICK f : Moving(f, w, p, ct, l)
  BY <1>5, <1>l, MoveIs
<1>6. /\ f[0] = v
      /\ \A k \in 1..L : f[k] = Place(f[k - 1], l[k], expire[l[k]], ct)
      /\ MoveList(w, p[1], p[2], ct) = f[L]
  BY <1>m DEF Moving, v
<1> DEFINE X(k) == {l[a] : a \in 1..k}
           P(k) == f[k] \in Wheels /\ InOrder(f[k], ln) /\ LowIn(f[k], p[1], X(k))
           T == {k \in Nat : k <= L => P(k)}
<1>7. 0 \in T
  <2>1. 1..0 = {}
    OBVIOUS
  <2>2. X(0) = {}
    BY <2>1
  <2> HIDE DEF X
  <2>3. P(0)
    BY <1>1, <1>3, <1>4, <1>6, <2>2
  <2> HIDE DEF P
  <2> QED BY <2>3
<1>8. ASSUME NEW k \in T PROVE k + 1 \in T
  <2>1. k \in Nat
    OBVIOUS
  <2> SUFFICES ASSUME k + 1 <= L PROVE P(k + 1)
    BY <2>1
  <2>2. P(k)
    <3> HIDE DEF P
    <3> QED BY <1>5, <2>1
  <2>3. k + 1 \in 1..L /\ (k + 1) - 1 = k /\ \A a \in 1..(k + 1) : a \in 1..k \/ a = k + 1
    BY <1>5, <2>1
  <2>4. PICK n \in Node : n = l[k + 1] /\ n \in Range(l)
    BY <1>5, <2>3
  <2>5. X(k + 1) = X(k) \cup {n}
    BY <2>1, <2>3, <2>4
  <2>6. f[k + 1] = Place(f[k], n, expire[n], ct)
    BY <1>6, <2>3, <2>4
  <2>7. ASSUME NEW x \in X(k) PROVE Before(ln, x, n)
    <3>1. PICK a \in 1..k : x = l[a]
      BY <2>7
    <3>2. k + 1 \in DOMAIN l /\ a \in 1..((k + 1) - 1)
      BY <1>5, <2>1, <2>3
    <3> QED BY <1>2, <2>4, <3>1, <3>2 DEF Sorted
  <2> HIDE DEF X
  <2>8. f[k] \in Wheels /\ InOrder(f[k], ln) /\ LowIn(f[k], p[1], X(k))
    BY <2>2
  <2>9. SameBlock(expire[n], ct, p[1]) /\ expire[n] \in Nat
    BY <1>l, <2>4
  <2>10. /\ LowIn(Place(f[k], n, expire[n], ct), p[1], X(k) \cup {n})
         /\ \A q \in Far : Belongs(expire[n], ct, q) => q[1] < p[1]
    BY <1>0, <2>8, <2>9, PlaceLow
  <2>11. /\ \A j \in Near : \A x \in Range(f[k].near[j]) : Before(ln, x, n)
         /\ \A q \in Far : Belongs(expire[n], ct, q) => \A x \in Range(f[k].far[q]) : Before(ln, x, n)
    BY <2>7, <2>8, <2>10 DEF LowIn
  <2>12. /\ Place(f[k], n, expire[n], ct) \in Wheels
         /\ InOrder(Place(f[k], n, expire[n], ct), ln)
    BY <2>8, <2>9, <2>11, PlaceSorted
  <2> QED BY <2>5, <2>6, <2>10, <2>12
<1>9. T = Nat
  <2>1. T \subseteq Nat
    OBVIOUS
  <2> HIDE DEF T
  <2> QED BY <1>7, <1>8, <2>1, Induction
<1>10. P(L)
  <2>1. L \in T
    <3> HIDE DEF T
    <3> QED BY <1>5, <1>9
  <2>2. L <= L
    BY <1>5
  <2> HIDE DEF P
  <2> QED BY <2>1, <2>2
<1> QED BY <1>6, <1>10

(* The current block of level i is the one with its list's index in the     *)
(* current block above.                                                     *)
LEMMA SameIndex ==
    ASSUME NEW a \in Nat, NEW c \in Nat, NEW i \in Level, Index(a, i) = Index(c, i),
           a \div Block(i + 1) = c \div Block(i + 1)
    PROVE  SameBlock(a, c, i)
<1> DEFINE B == Block(i)
<1>0. B \in Nat \ {0} /\ TIME_LEVEL \in Nat \ {0} /\ Block(i + 1) = TIME_LEVEL * B
  BY BlockFacts, TimerAssumption DEF Level
<1>1. (a \div B) % TIME_LEVEL = (c \div B) % TIME_LEVEL
  BY DEF Index
<1> HIDE DEF B
<1>2. (a \div B) \div TIME_LEVEL = (c \div B) \div TIME_LEVEL
  <2>1. a \div (TIME_LEVEL * B) = c \div (TIME_LEVEL * B)
    BY <1>0
  <2>2. a \div (TIME_LEVEL * B) = (a \div B) \div TIME_LEVEL
    BY <1>0, DivSplit
  <2>3. c \div (TIME_LEVEL * B) = (c \div B) \div TIME_LEVEL
    BY <1>0, DivSplit
  <2> QED BY <2>1, <2>2, <2>3
<1>3. PICK x \in Nat, y \in Nat : x = a \div B /\ y = c \div B
  BY <1>0, DivNat
<1>4. PICK q1 \in Nat, r1 \in 0..(TIME_LEVEL - 1) :
            x = q1 * TIME_LEVEL + r1 /\ x \div TIME_LEVEL = q1 /\ x % TIME_LEVEL = r1
  BY <1>0, DivForm
<1>5. PICK q2 \in Nat, r2 \in 0..(TIME_LEVEL - 1) :
            y = q2 * TIME_LEVEL + r2 /\ y \div TIME_LEVEL = q2 /\ y % TIME_LEVEL = r2
  BY <1>0, DivForm
<1>6. q1 = q2 /\ r1 = r2
  BY <1>1, <1>2, <1>3, <1>4, <1>5
<1>7. x = y
  BY <1>4, <1>5, <1>6
<1> QED BY <1>3, <1>7 DEF SameBlock, B

(* When timer_shift moves a list, no timer is in the block of that level    *)
(* that ends, and those of the list are in the one that starts.             *)
LEMMA ShiftBlock ==
    ASSUME NEW now \in 0..(Wrap - 1), NEW d \in 1..MaxDelay, NEW e, e = (now + d) % Wrap,
           NEW ct, ct = (now + 1) % Wrap, NEW p \in Far, Shifts(ct, p)
    PROVE  /\ ~SameBlock(e, now, p[1])
           /\ Belongs(e, now, p) => SameBlock(e, ct, p[1])
<1> DEFINE B == Block(p[1])
<1>0. p[1] \in Level /\ p[2] \in 0..(TIME_LEVEL - 1) /\ B \in Nat \ {0} /\ Wrap \in Nat \ {0} /\ TIME_LEVEL \in Nat \ {0}
  BY FarPair, BlockFacts, WrapFacts, TimerAssumption DEF Level
<1>1. e \in 0..(Wrap - 1) /\ ct \in 0..(Wrap - 1) /\ e \in Nat /\ ct \in Nat /\ now \in Nat
  BY <1>0, After, Tick
<1>2. ASSUME SameBlock(e, now, p[1]) PROVE FALSE
  <2>1. ct = now + 1 /\ ct # 0
    BY <1>0, <1>1, <1>2, Ahead
  <2>2. SameBlock(e, ct, p[1])
    BY <1>0, <1>2, Stays
  <2>3. ct % B = 0
    BY <2>1 DEF Shifts, Starts
  <2>4. now \div B = ct \div B
    BY <1>2, <2>2 DEF SameBlock
  <2> HIDE DEF B
  <2>5. (now + 1) \div B = (now \div B) + 1 /\ now \div B \in Nat
    BY <1>0, <1>1, <2>1, <2>3, DivNext, DivNat
  <2> QED BY <2>1, <2>4, <2>5
<1>3. ASSUME Belongs(e, now, p) PROVE SameBlock(e, ct, p[1])
  <2>1. p[2] = Index(e, p[1]) /\ (p[1] < 3 => SameBlock(e, now, p[1] + 1))
    BY <1>3 DEF Belongs
  <2>2. Index(ct, p[1]) = p[2]
    <3>1. CASE ct = 0
      <4>1. p[1] = 3 /\ p[2] = 0
        BY <3>1 DEF Shifts
      <4>2. 0 \in 0..(B - 1) /\ 0 \in 0..(TIME_LEVEL - 1)
        BY <1>0
      <4>3. 0 \div B = 0 /\ 0 % TIME_LEVEL = 0
        <5> HIDE DEF B
        <5> QED BY <1>0, <4>2, DivSmall
      <4> QED BY <3>1, <4>1, <4>3 DEF Index, B
    <3>2. CASE ct # 0
      BY <3>2 DEF Shifts
    <3> QED BY <3>1, <3>2
  <2>3. e \div Block(p[1] + 1) = ct \div Block(p[1] + 1)
    <3>1. CASE p[1] < 3
      <4>1. p[1] + 1 \in Level
        BY <1>0, <3>1 DEF Level
      <4>2. SameBlock(e, ct, p[1] + 1)
        BY <2>1, <3>1, <4>1, Stays
      <4> QED BY <4>2 DEF SameBlock
    <3>2. CASE p[1] = 3
      <4>1. Block(p[1] + 1) = Wrap
        BY <3>2 DEF Wrap
      <4>2. e \div Wrap = 0 /\ ct \div Wrap = 0
        BY <1>0, <1>1, DivSmall
      <4> QED BY <4>1, <4>2
    <3> QED BY <1>0, <3>1, <3>2 DEF Level
  <2> QED BY <1>0, <1>1, <2>1, <2>2, <2>3, SameIndex
<1> QED BY <1>2, <1>3

(* timer_shift keeps the order of every list. *)
LEMMA ShiftSorted ==
    ASSUME NEW w, NEW now \in 0..(Wrap - 1), NEW S, NEW L, NEW ct, ct = (now + 1) % Wrap,
           InPlace(w, expire, now, S), DueIn(expire, now, S, L), \A n \in Node : expire[n] \in Nat,
           NEW ln, InOrder(w, ln)
    PROVE  InOrder(Shifted(w, ct), ln)
<1>0. ct \in Nat /\ now \in Nat /\ w \in Wheels
  BY Tick DEF InPlace
<1>1. CASE \A p \in Far : ~Shifts(ct, p)
  BY <1>0, <1>1, ShiftedIs
<1>2. CASE \E p \in Far : Shifts(ct, p)
  <2>1. PICK p \in Far : Shifts(ct, p)
    BY <1>2
  <2>2. p[1] \in 0..3
    BY FarPair DEF Level
  <2>3. ASSUME NEW n \in S
        PROVE  /\ expire[n] \in Nat /\ ~SameBlock(expire[n], now, p[1])
               /\ Belongs(expire[n], now, p) => SameBlock(expire[n], ct, p[1])
    <3>1. n \in Node /\ L[n] \in 1..MaxDelay /\ expire[n] = (now + L[n]) % Wrap
      BY DEF DueIn
    <3> QED BY <2>1, <3>1, ShiftBlock
  <2>4. ASSUME NEW j \in Near, NEW n \in Range(w.near[j]) PROVE FALSE
    <3>1. n \in S /\ SameBlock(expire[n], now, 0)
      BY <2>4 DEF InPlace, BelongsNear
    <3>2. SameBlock(expire[n], now, p[1])
      BY <1>0, <2>2, <2>3, <3>1, SameAll
    <3> QED BY <2>3, <3>1, <3>2
  <2>5. ASSUME NEW q \in Far, q[1] < p[1], NEW n \in Range(w.far[q]) PROVE FALSE
    <3>1. q[1] \in 0..3
      BY FarPair DEF Level
    <3>2. n \in S /\ Belongs(expire[n], now, q)
      BY <2>5 DEF InPlace
    <3>3. SameBlock(expire[n], now, q[1] + 1) /\ q[1] + 1 \in 0..3 /\ q[1] + 1 <= p[1]
      BY <2>2, <2>5, <3>1, <3>2 DEF Belongs
    <3>4. SameBlock(expire[n], now, p[1])
      BY <1>0, <2>2, <2>3, <3>2, <3>3, SameAll
    <3> QED BY <2>3, <3>2, <3>4
  <2>6. LowIn(w, p[1], {})
    BY <2>4, <2>5 DEF LowIn
  <2>7. ASSUME NEW n \in Range(w.far[p]) PROVE SameBlock(expire[n], ct, p[1])
    <3>1. n \in S /\ Belongs(expire[n], now, p)
      BY <2>7 DEF InPlace
    <3> QED BY <2>3, <3>1
  <2>8. InOrder(MoveList(w, p[1], p[2], ct), ln)
    BY <1>0, <2>6, <2>7, MoveSorted
  <2> QED BY <1>0, <2>1, <2>8, ShiftedIs
<1> QED BY <1>1, <1>2

(* The lists are sorted too by what is left of the line, once the other     *)
(* timers are in no list.                                                   *)
LEMMA LeftSorted ==
    ASSUME NEW w, NEW ex, NEW now, NEW S, InPlace(w, ex, now, S), NEW ln \in Seq(Node), InOrder(w, ln),
           NEW R, S \cap R = {}
    PROVE  InOrder(w, Others(ln, R))
<1>0. w.near \in [Near -> Seq(Node)] /\ w.far \in [Far -> Seq(Node)]
  BY DEF InPlace, Wheels
<1>1. ASSUME NEW l \in Seq(Node), Sorted(ln, l), \A n \in Range(l) : n \notin R
      PROVE  Sorted(Others(ln, R), l)
  <2>1. ASSUME NEW i \in DOMAIN l, NEW j \in 1..(i - 1) PROVE Before(Others(ln, R), l[j], l[i])
    <3>1. j \in DOMAIN l
      OBVIOUS
    <3>2. l[j] \notin R /\ l[i] \notin R
      BY <1>1, <3>1 DEF Range
    <3>3. Before(ln, l[j], l[i])
      BY <1>1 DEF Sorted
    <3> QED BY <3>2, <3>3, OthersAre
  <2> QED BY <2>1 DEF Sorted
<1>2. ASSUME NEW j \in Near PROVE Sorted(Others(ln, R), w.near[j])
  <2>1. w.near[j] \in Seq(Node) /\ Sorted(ln, w.near[j])
    BY <1>0 DEF InOrder
  <2>2. \A n \in Range(w.near[j]) : n \notin R
    BY DEF InPlace
  <2> QED BY <1>1, <2>1, <2>2
<1>3. ASSUME NEW p \in Far PROVE Sorted(Others(ln, R), w.far[p])
  <2>1. w.far[p] \in Seq(Node) /\ Sorted(ln, w.far[p])
    BY <1>0 DEF InOrder
  <2>2. \A n \in Range(w.far[p]) : n \notin R
    BY DEF InPlace
  <2> QED BY <1>1, <2>1, <2>2
<1> QED BY <1>2, <1>3 DEF InOrder

-----------------------------------------------------------------------------
(* The timer                                                               *)

(* Timers sent are due, and no longer in the wheel. *)
SentDue(ls, ln, L) == \A n \in Range(ls) : L[n] = 0 /\ n \notin Range(ln)

TimerInv ==
    /\ TimerTypeOK
    /\ DueIn(expire, time, Range(line), left)
    /\ SentDue(list, line, left)
    /\ InPlace(Wheel, expire, time, Range(line))
    /\ InOrder(Wheel, line)

(* The timers of a list are nodes. *)
LEMMA RangeNode == ASSUME NEW s \in Seq(Node) PROVE Range(s) \subseteq Node
BY ElementOfSeq DEF Range

(* What is in no list may get another time. *)
LEMMA InPlaceSame ==
    ASSUME NEW w, NEW ex, NEW ey, NEW now, NEW S, InPlace(w, ex, now, S), \A n \in S : ey[n] = ex[n]
    PROVE  InPlace(w, ey, now, S)
<1>1. ASSUME NEW j \in Near, NEW n \in Range(w.near[j]) PROVE n \in S /\ BelongsNear(ey[n], now, j)
  <2>1. n \in S /\ BelongsNear(ex[n], now, j)
    BY <1>1 DEF InPlace
  <2> QED BY <2>1
<1>2. ASSUME NEW p \in Far, NEW n \in Range(w.far[p]) PROVE n \in S /\ Belongs(ey[n], now, p)
  <2>1. n \in S /\ Belongs(ex[n], now, p)
    BY <1>2 DEF InPlace
  <2> QED BY <2>1
<1> QED BY <1>1, <1>2 DEF InPlace

(* A wheel is its near lists and its levels. *)
LEMMA WheelIs == ASSUME NEW w \in Wheels PROVE w = [near |-> w.near, far |-> w.far]
BY DEF Wheels

(* timer_execute takes the timers that are due, in their order. *)
LEMMA TakeStep ==
    ASSUME NEW w, NEW now \in 0..(Wrap - 1), NEW L, Take(w, now),
           InPlace(w, expire, now, Range(line)), InOrder(w, line),
           line \in Seq(Node), expire \in [Node -> 0..(Wrap - 1)],
           \A n \in Range(line) : L[n] \in 0..MaxDelay /\ expire[n] = (now + L[n]) % Wrap
    PROVE  /\ near' \in [Near -> Seq(Node)] /\ far' \in [Far -> Seq(Node)]
           /\ list' \in Seq(Node) /\ line' \in Seq(Node)
           /\ DueIn(expire, now, Range(line'), L) /\ SentDue(list', line', L)
           /\ InPlace(Wheel', expire, now, Range(line')) /\ InOrder(Wheel', line')
           /\ Sorted(line, list')
<1> DEFINE j == now % TIME_NEAR
           l == w.near[j]
           v == [near |-> [w.near EXCEPT ![j] = << >>], far |-> w.far]
           S == Range(line)
           R == Range(l)
<1>0. /\ w.near \in [Near -> Seq(Node)] /\ w.far \in [Far -> Seq(Node)]
      /\ Wrap \in Nat \ {0} /\ MaxDelay \in Nat /\ now \in Nat
  BY WrapFacts DEF InPlace, Wheels
<1>1. \A n \in S : n \in Node /\ expire[n] \in Nat
  BY <1>0, RangeNode
<1>2. j \in Near /\ \A n \in S : n \in R <=> expire[n] = now
  <2>1. \A n \in Range(line) : expire[n] \in Nat
    BY <1>1
  <2>2. HoldsDue(w, expire, now, Range(line))
    BY <2>1, TakenAre
  <2> QED BY <2>2 DEF HoldsDue
<1> HIDE DEF j
<1>3. list' = l /\ near' = [w.near EXCEPT ![j] = << >>] /\ far' = w.far /\ line' = Others(line, R)
  BY DEF Take, j
<1>4. l \in Seq(Node) /\ Sorted(line, l)
  BY <1>0, <1>2 DEF InOrder
<1>5. line' \in Seq(Node) /\ Range(line') = S \ R
  BY <1>3, OthersAre
<1>6. InPlace(v, expire, now, S \ R)
  BY <1>0, <1>1, <1>2, NearEmptied
<1>7. Wheel' = v
  BY <1>3 DEF Wheel
<1>8. InOrder(v, line)
  <2>1. v.near[j] = << >> /\ v.far = w.far /\ \A i \in Near : i # j => v.near[i] = w.near[i]
    BY <1>0, <1>2
  <2>2. Sorted(line, << >>)
    BY DEF Sorted
  <2> HIDE DEF v
  <2> QED BY <2>1, <2>2 DEF InOrder
<1>9. InOrder(v, line')
  <2>1. (S \ R) \cap R = {}
    OBVIOUS
  <2> HIDE DEF v, R, S
  <2> QED BY <1>3, <1>6, <1>8, <2>1, LeftSorted
<1>10. ASSUME NEW n \in S PROVE n \in R <=> L[n] = 0
  <2>1. L[n] \in 0..MaxDelay /\ expire[n] = (now + L[n]) % Wrap
    OBVIOUS
  <2>2. CASE L[n] = 0
    <3>1. now + L[n] = now
      BY <1>0, <2>2
    <3>2. now % Wrap = now
      BY <1>0, DivSmall
    <3> QED BY <1>2, <2>1, <2>2, <3>1, <3>2
  <2>3. CASE L[n] # 0
    <3>1. L[n] \in 1..MaxDelay
      BY <1>0, <2>1, <2>3
    <3>2. (now + L[n]) % Wrap # now
      BY <3>1, After
    <3> QED BY <1>2, <2>1, <2>3, <3>2
  <2> QED BY <2>2, <2>3
<1>11. R \subseteq S
  BY <1>2 DEF InPlace
<1> HIDE DEF R, S, l, v
<1>12. DueIn(expire, now, Range(line'), L)
  <2>1. ASSUME NEW n \in S \ R PROVE n \in Node /\ L[n] \in 1..MaxDelay /\ expire[n] = (now + L[n]) % Wrap
    <3>1. L[n] \in 0..MaxDelay /\ expire[n] = (now + L[n]) % Wrap /\ L[n] # 0
      BY <1>10 DEF S
    <3> QED BY <1>0, <1>1, <3>1
  <2> QED BY <1>5, <2>1 DEF DueIn
<1>13. SentDue(list', line', L)
  BY <1>3, <1>5, <1>10, <1>11 DEF SentDue, R
<1>14. near' \in [Near -> Seq(Node)] /\ far' \in [Far -> Seq(Node)]
  BY <1>0, <1>3, RangeEmpty
<1> QED BY <1>3, <1>4, <1>5, <1>6, <1>7, <1>9, <1>12, <1>13, <1>14

(* skynet_timer_init *)
LEMMA TimerInitInv == TimerInit => TimerInv
<1> SUFFICES ASSUME TimerInit PROVE TimerInv
  OBVIOUS
<1>0. Wrap \in Nat \ {0} /\ MaxDiff \in Nat
  BY WrapFacts, TimerAssumption
<1>1. TimerTypeOK
  BY <1>0 DEF TimerInit, TimerTypeOK
<1>2. Range(line) = {} /\ Range(list) = {}
  BY RangeEmpty DEF TimerInit
<1>3. DueIn(expire, time, Range(line), left) /\ SentDue(list, line, left)
  BY <1>2 DEF DueIn, SentDue
<1>4. Wheel \in Wheels /\ (\A j \in Near : Wheel.near[j] = << >>) /\ (\A p \in Far : Wheel.far[p] = << >>)
  BY RangeEmpty DEF TimerInit, Wheel, Wheels, Near, Far
<1>5. InPlace(Wheel, expire, time, Range(line))
  BY <1>2, <1>4, RangeEmpty DEF InPlace
<1>6. InOrder(Wheel, line)
  <2>1. Sorted(line, << >>)
    BY DEF Sorted
  <2> QED BY <1>4, <2>1 DEF InOrder
<1> QED BY <1>1, <1>3, <1>5, <1>6 DEF TimerInv

(* timer_add *)
LEMMA AddStep ==
    ASSUME TimerInv, NEW n \in Node, NEW d \in 1..MaxDelay, TimerAdd(n, d)
    PROVE  TimerInv'
<1> DEFINE e == (d + time) % Wrap
           w == Place(Wheel, n, e, time)
           S == Range(line)
<1>0. /\ TimerTypeOK /\ DueIn(expire, time, S, left) /\ SentDue(list, line, left)
      /\ InPlace(Wheel, expire, time, S) /\ InOrder(Wheel, line)
  BY DEF TimerInv
<1>1. /\ time \in 0..(Wrap - 1) /\ expire \in [Node -> 0..(Wrap - 1)] /\ line \in Seq(Node)
      /\ left \in [Node -> Int] /\ Wrap \in Nat \ {0} /\ MaxDelay \in Nat /\ time \in Nat
  BY <1>0, WrapFacts DEF TimerTypeOK
<1>2. e \in 0..(Wrap - 1) /\ e = (time + d) % Wrap /\ e \in Nat
  <2>1. d + time = time + d
    BY <1>1
  <2> QED BY <1>1, <2>1, After
<1>3. /\ n \notin S /\ n \notin Range(list)
      /\ expire' = [expire EXCEPT ![n] = e] /\ near' = w.near /\ far' = w.far
      /\ line' = Append(line, n) /\ left' = [left EXCEPT ![n] = d]
      /\ time' = time /\ list' = list /\ tpc' = tpc /\ todo' = todo
  BY DEF TimerAdd
<1> HIDE DEF e
<1>4. /\ expire' \in [Node -> 0..(Wrap - 1)] /\ expire'[n] = e /\ left' \in [Node -> Int] /\ left'[n] = d
      /\ \A m \in Node : m # n => expire'[m] = expire[m] /\ left'[m] = left[m]
  BY <1>1, <1>2, <1>3
<1>5. line' \in Seq(Node) /\ Range(line') = S \cup {n}
  BY <1>1, <1>3, RangeAppend
<1>6. S \subseteq Node
  BY <1>1, RangeNode
<1>7. InPlace(w, expire', time, S \cup {n})
  <2>1. \A m \in S : expire'[m] = expire[m]
    BY <1>3, <1>4, <1>6
  <2>2. InPlace(Wheel, expire', time, S)
    BY <1>0, <2>1, InPlaceSame
  <2>3. expire'[n] \in Nat
    BY <1>2, <1>4
  <2> HIDE DEF S
  <2>4. InPlace(Place(Wheel, n, expire'[n], time), expire', time, S \cup {n})
    BY <1>1, <2>2, <2>3, PlaceKeeps
  <2> QED BY <1>4, <2>4
<1>8. w \in Wheels /\ Wheel' = w
  <2>1. w \in Wheels
    BY <1>7 DEF InPlace
  <2>2. w = [near |-> w.near, far |-> w.far]
    BY <2>1, WheelIs
  <2> HIDE DEF w
  <2> QED BY <1>3, <2>1, <2>2 DEF Wheel
<1>9. InOrder(w, line')
  <2>1. Wheel \in Wheels
    BY <1>0 DEF InPlace
  <2>2. \A x, y : Before(line, x, y) => Before(line', x, y)
    BY <1>1, <1>3, BeforeAppend
  <2>3. \A x \in S : Before(line', x, n)
    BY <1>1, <1>3, BeforeAppend
  <2>4. InOrder(Wheel, line')
    BY <1>0, <2>2 DEF InOrder, Sorted
  <2>5. /\ \A j \in Near : \A x \in Range(Wheel.near[j]) : Before(line', x, n)
        /\ \A p \in Far : \A x \in Range(Wheel.far[p]) : Before(line', x, n)
    BY <1>0, <2>3 DEF InPlace
  <2> QED BY <1>1, <1>2, <2>1, <2>4, <2>5, PlaceSorted
<1>10. DueIn(expire', time', Range(line'), left')
  <2>1. ASSUME NEW m \in S \cup {n}
        PROVE  m \in Node /\ left'[m] \in 1..MaxDelay /\ expire'[m] = (time + left'[m]) % Wrap
    <3>1. CASE m = n
      BY <1>2, <1>4, <3>1
    <3>2. CASE m # n
      <4>1. m \in S /\ m \in Node
        BY <1>6, <3>2
      <4>2. left[m] \in 1..MaxDelay /\ expire[m] = (time + left[m]) % Wrap
        BY <1>0, <4>1 DEF DueIn
      <4> QED BY <1>4, <3>2, <4>1, <4>2
    <3> QED BY <3>1, <3>2
  <2> QED BY <1>3, <1>5, <2>1 DEF DueIn
<1>11. SentDue(list', line', left')
  <2>1. ASSUME NEW m \in Range(list) PROVE left'[m] = 0 /\ m \notin S \cup {n}
    <3>1. m # n /\ m \in Node
      BY <1>0, <1>3, <2>1, RangeNode DEF TimerTypeOK
    <3>2. left[m] = 0 /\ m \notin S
      BY <1>0, <2>1 DEF SentDue
    <3> QED BY <1>4, <3>1, <3>2
  <2> QED BY <1>3, <1>5, <2>1 DEF SentDue
<1>12. TimerTypeOK'
  <2>1. near' \in [Near -> Seq(Node)] /\ far' \in [Far -> Seq(Node)]
    <3> HIDE DEF w
    <3> QED BY <1>3, <1>8 DEF Wheels
  <2> QED BY <1>0, <1>3, <1>4, <1>5, <2>1 DEF TimerTypeOK, Near, Far
<1> HIDE DEF w
<1>13. InPlace(Wheel', expire', time', Range(line')) /\ InOrder(Wheel', line')
  BY <1>3, <1>5, <1>7, <1>8, <1>9
<1> QED BY <1>10, <1>11, <1>12, <1>13 DEF TimerInv

(* timer_update when the clock has not moved yet *)
LEMMA TakeNow ==
    ASSUME TimerInv, Take(Wheel, time), UNCHANGED <<time, expire, left>>,
           tpc' \in {"rest", "exec0", "exec1"}, todo' \in 0..MaxDiff
    PROVE  TimerInv' /\ Sorted(line, list')
<1>0. /\ TimerTypeOK /\ DueIn(expire, time, Range(line), left)
      /\ InPlace(Wheel, expire, time, Range(line)) /\ InOrder(Wheel, line)
  BY DEF TimerInv
<1>1. /\ time \in 0..(Wrap - 1) /\ expire \in [Node -> 0..(Wrap - 1)] /\ line \in Seq(Node)
      /\ left \in [Node -> Int] /\ MaxDelay \in Nat
  BY <1>0, WrapFacts DEF TimerTypeOK
<1>2. \A n \in Range(line) : left[n] \in 0..MaxDelay /\ expire[n] = (time + left[n]) % Wrap
  BY <1>0, <1>1 DEF DueIn
<1>3. /\ near' \in [Near -> Seq(Node)] /\ far' \in [Far -> Seq(Node)]
      /\ list' \in Seq(Node) /\ line' \in Seq(Node)
      /\ DueIn(expire, time, Range(line'), left) /\ SentDue(list', line', left)
      /\ InPlace(Wheel', expire, time, Range(line')) /\ InOrder(Wheel', line')
      /\ Sorted(line, list')
  BY <1>0, <1>1, <1>2, TakeStep
<1>4. TimerTypeOK'
  BY <1>1, <1>3 DEF TimerTypeOK, Near, Far
<1> QED BY <1>3, <1>4 DEF TimerInv

(* timer_shift and timer_execute at the next tick *)
LEMMA TakeNext ==
    ASSUME TimerInv, NEW ct, ct = (time + 1) % Wrap, time' = ct, Take(Shifted(Wheel, ct), ct),
           left' = [n \in Node |-> IF n \in Range(line) THEN left[n] - 1 ELSE left[n]],
           tpc' = "exec1", UNCHANGED <<expire, todo>>
    PROVE  TimerInv' /\ Sorted(line, list')
<1>0. /\ TimerTypeOK /\ DueIn(expire, time, Range(line), left)
      /\ InPlace(Wheel, expire, time, Range(line)) /\ InOrder(Wheel, line)
  BY DEF TimerInv
<1>1. /\ time \in 0..(Wrap - 1) /\ expire \in [Node -> 0..(Wrap - 1)] /\ line \in Seq(Node)
      /\ left \in [Node -> Int] /\ MaxDelay \in Nat /\ Wrap \in Nat \ {0}
  BY <1>0, WrapFacts DEF TimerTypeOK
<1>2. ct \in 0..(Wrap - 1) /\ \A n \in Node : expire[n] \in Nat
  BY <1>1, Tick
<1>3. InPlace(Shifted(Wheel, ct), expire, ct, Range(line)) /\ InOrder(Shifted(Wheel, ct), line)
  BY <1>0, <1>1, <1>2, ShiftKeeps, ShiftSorted
<1>4. left' \in [Node -> Int] /\ \A n \in Range(line) : n \in Node /\ left'[n] = left[n] - 1
  BY <1>1, RangeNode
<1>5. ASSUME NEW n \in Range(line) PROVE left'[n] \in 0..MaxDelay /\ expire[n] = (ct + left'[n]) % Wrap
  <2>1. PICK d \in 1..MaxDelay : d = left[n] /\ expire[n] = (time + d) % Wrap
    BY <1>0 DEF DueIn
  <2>2. left'[n] = d - 1 /\ d - 1 \in 0..MaxDelay
    <3>1. left'[n] = left[n] - 1
      BY <1>4
    <3>2. d - 1 \in 0..MaxDelay
      BY <1>1
    <3> QED BY <2>1, <3>1, <3>2
  <2>3. (ct + (d - 1)) % Wrap = (time + d) % Wrap
    BY <1>1, OneLess
  <2> QED BY <2>1, <2>2, <2>3
<1>6. /\ near' \in [Near -> Seq(Node)] /\ far' \in [Far -> Seq(Node)]
      /\ list' \in Seq(Node) /\ line' \in Seq(Node)
      /\ DueIn(expire, ct, Range(line'), left') /\ SentDue(list', line', left')
      /\ InPlace(Wheel', expire, ct, Range(line')) /\ InOrder(Wheel', line')
      /\ Sorted(line, list')
  <2>1. PICK w, L : w = Shifted(Wheel, ct) /\ L = left'
    OBVIOUS
  <2>2. Take(w, ct) /\ InPlace(w, expire, ct, Range(line)) /\ InOrder(w, line)
    BY <1>3, <2>1
  <2>3. \A n \in Range(line) : L[n] \in 0..MaxDelay /\ expire[n] = (ct + L[n]) % Wrap
    BY <1>5, <2>1
  <2>4. /\ near' \in [Near -> Seq(Node)] /\ far' \in [Far -> Seq(Node)]
        /\ list' \in Seq(Node) /\ line' \in Seq(Node)
        /\ DueIn(expire, ct, Range(line'), L) /\ SentDue(list', line', L)
        /\ InPlace(Wheel', expire, ct, Range(line')) /\ InOrder(Wheel', line')
        /\ Sorted(line, list')
    BY <1>1, <1>2, <2>2, <2>3, TakeStep
  <2> QED BY <2>1, <2>4
<1>7. TimerTypeOK'
  BY <1>0, <1>1, <1>2, <1>4, <1>6 DEF TimerTypeOK, Near, Far
<1> QED BY <1>6, <1>7 DEF TimerInv

(* An empty list is sorted. *)
LEMMA NothingSorted == ASSUME NEW ln, NEW s, s = << >> PROVE Sorted(ln, s)
BY DEF Sorted

(* dispatch_list *)
LEMMA DispatchStep == TimerInv /\ DispatchOne => TimerInv'
<1> SUFFICES ASSUME TimerInv, DispatchOne PROVE TimerInv'
  OBVIOUS
<1> DEFINE h == Head(list)
<1>0. /\ TimerTypeOK /\ DueIn(expire, time, Range(line), left) /\ SentDue(list, line, left)
      /\ InPlace(Wheel, expire, time, Range(line)) /\ InOrder(Wheel, line)
  BY DEF TimerInv
<1>1. /\ list # << >> /\ list' = Tail(list) /\ expire' = [expire EXCEPT ![h] = 0]
      /\ time' = time /\ near' = near /\ far' = far /\ tpc' = tpc /\ todo' = todo /\ line' = line /\ left' = left
  BY DEF DispatchOne
<1>2. list \in Seq(Node) /\ expire \in [Node -> 0..(Wrap - 1)] /\ 0 \in 0..(Wrap - 1) /\ line \in Seq(Node)
  BY <1>0, WrapFacts DEF TimerTypeOK
<1>3. h \in Range(list) /\ list' \in Seq(Node) /\ Range(list') \subseteq Range(list)
  <2>1. Len(list) \in Nat \ {0} /\ DOMAIN list = 1..Len(list) /\ h = list[1]
    BY <1>1, <1>2, EmptySeq
  <2>2. list' \in Seq(Node) /\ Len(list') = Len(list) - 1 /\ \A i \in 1..Len(list') : list'[i] = list[i + 1]
    BY <1>1, <1>2, HeadTailProperties
  <2>3. DOMAIN list' = 1..(Len(list) - 1) /\ \A i \in DOMAIN list' : i + 1 \in DOMAIN list /\ list'[i] = list[i + 1]
    BY <2>1, <2>2
  <2>4. 1 \in DOMAIN list
    BY <2>1
  <2> QED BY <2>1, <2>2, <2>3, <2>4 DEF Range
<1>4. h \notin Range(line)
  BY <1>0, <1>3 DEF SentDue
<1> HIDE DEF h
<1>5. /\ expire' \in [Node -> 0..(Wrap - 1)]
      /\ \A n \in Range(line) : expire'[n] = expire[n]
  BY <1>1, <1>2, <1>4, RangeNode
<1>6. TimerTypeOK'
  BY <1>0, <1>1, <1>3, <1>5 DEF TimerTypeOK
<1>7. DueIn(expire', time', Range(line'), left')
  BY <1>0, <1>1, <1>5 DEF DueIn
<1>8. SentDue(list', line', left')
  BY <1>0, <1>1, <1>3 DEF SentDue
<1>9. Wheel' = Wheel
  BY <1>1 DEF Wheel
<1>10. InPlace(Wheel, expire', time, Range(line))
  BY <1>0, <1>5, InPlaceSame
<1>11. InPlace(Wheel', expire', time', Range(line')) /\ InOrder(Wheel', line')
  BY <1>0, <1>1, <1>9, <1>10
<1> QED BY <1>6, <1>7, <1>8, <1>11 DEF TimerInv

(* One step of the timer; what it sends is in the order of the line. *)
LEMMA TimerStep ==
    ASSUME TimerInv, [TimerNext]_timerVars
    PROVE  TimerInv' /\ (list = << >> => Sorted(line, list'))
<1>0. TimerTypeOK
  BY DEF TimerInv
<1>1. ASSUME NEW n \in Node, NEW d \in 1..MaxDelay, TimerAdd(n, d)
      PROVE  TimerInv' /\ (list = << >> => Sorted(line, list'))
  <2>1. list' = list
    BY <1>1 DEF TimerAdd
  <2> QED BY <1>1, <2>1, AddStep, NothingSorted
<1>2. ASSUME NEW diff \in 1..MaxDiff, UpdateTime(diff)
      PROVE  TimerInv' /\ (list = << >> => Sorted(line, list'))
  <2>1. /\ todo' \in 0..MaxDiff /\ list' = list
        /\ UNCHANGED <<time, near, far, expire, list, tpc, line, left>>
    BY <1>2, TimerAssumption DEF UpdateTime
  <2>2. TimerTypeOK' /\ Wheel' = Wheel
    BY <1>0, <2>1 DEF TimerTypeOK, Wheel
  <2>3. TimerInv'
    BY <2>1, <2>2 DEF TimerInv
  <2> QED BY <2>1, <2>3, NothingSorted
<1>3. CASE UpdateStart
  <2>1. /\ Take(Wheel, time) /\ UNCHANGED <<time, expire, left>> /\ tpc' \in {"rest", "exec0", "exec1"}
        /\ todo' \in 0..MaxDiff
    BY <1>0, <1>3, TimerAssumption DEF UpdateStart, TimerTypeOK
  <2> QED BY <2>1, TakeNow
<1>4. CASE UpdateShift
  <2>1. CASE near[time % TIME_NEAR] # << >>
    <3>1. /\ Take(Wheel, time) /\ UNCHANGED <<time, expire, left>> /\ tpc' \in {"rest", "exec0", "exec1"}
          /\ todo' \in 0..MaxDiff
      BY <1>0, <1>4, <2>1 DEF UpdateShift, TimerTypeOK
    <3> QED BY <3>1, TakeNow
  <2>2. CASE near[time % TIME_NEAR] = << >>
    <3>1. PICK ct : ct = (time + 1) % Wrap
      OBVIOUS
    <3>2. /\ time' = ct /\ Take(Shifted(Wheel, ct), ct) /\ tpc' = "exec1" /\ UNCHANGED <<expire, todo>>
          /\ left' = [n \in Node |-> IF n \in Range(line) THEN left[n] - 1 ELSE left[n]]
      BY <1>4, <2>2, <3>1 DEF UpdateShift
    <3> QED BY <3>1, <3>2, TakeNext
  <2> QED BY <2>1, <2>2
<1>5. CASE UpdateEnd
  <2>1. CASE near[time % TIME_NEAR] # << >>
    <3>1. /\ Take(Wheel, time) /\ UNCHANGED <<time, expire, left>> /\ tpc' \in {"rest", "exec0", "exec1"}
          /\ todo' \in 0..MaxDiff
      BY <1>0, <1>5, <2>1 DEF UpdateEnd, TimerTypeOK
    <3> QED BY <3>1, TakeNow
  <2>2. CASE near[time % TIME_NEAR] = << >>
    <3>1. tpc' = "rest" /\ UNCHANGED <<time, near, far, expire, list, todo, line, left>>
      BY <1>5, <2>2 DEF UpdateEnd
    <3>2. TimerTypeOK' /\ Wheel' = Wheel
      BY <1>0, <3>1 DEF TimerTypeOK, Wheel
    <3>3. TimerInv'
      BY <3>1, <3>2 DEF TimerInv
    <3> QED BY <3>1, <3>3, NothingSorted
  <2> QED BY <2>1, <2>2
<1>6. CASE DispatchOne
  BY <1>6, DispatchStep DEF DispatchOne
<1>7. CASE UNCHANGED timerVars
  <2>1. UNCHANGED <<time, near, far, expire, list, tpc, todo, line, left>>
    BY <1>7 DEF timerVars
  <2>2. TimerTypeOK' /\ Wheel' = Wheel
    BY <1>0, <2>1 DEF TimerTypeOK, Wheel
  <2>3. TimerInv'
    BY <2>1, <2>2 DEF TimerInv
  <2> QED BY <2>1, <2>3, NothingSorted
<1> QED BY <1>1, <1>2, <1>3, <1>4, <1>5, <1>6, <1>7 DEF TimerNext

(* The invariant holds in every state. *)
LEMMA TimerInvariant == TimerSpec => []TimerInv
<1>1. TimerInit => TimerInv
  BY TimerInitInv
<1>2. TimerInv /\ [TimerNext]_timerVars => TimerInv'
  BY TimerStep
<1> QED BY <1>1, <1>2, PTL DEF TimerSpec

(* The clock, the expiry times and the lists keep their types, whatever the *)
(* sizes of the wheel, the timers and the delays.                           *)
THEOREM TimerTypeCorrect == TimerSpec => []TimerTypeOK
<1>1. TimerInv => TimerTypeOK
  BY DEF TimerInv
<1> QED BY <1>1, TimerInvariant, PTL

(* timer_add, timer_shift, timer_execute: no timer is sent before or after  *)
(* the tick it is due, whatever level it waited in and when the clock wraps *)
(* around.                                                                  *)
THEOREM TimersFireOnTime == TimerSpec => []FiresOnTime
<1>1. ASSUME TimerInv PROVE FiresOnTime
  <2>1. DueIn(expire, time, Range(line), left) /\ SentDue(list, line, left) /\ MaxDelay \in Nat
    BY <1>1, WrapFacts DEF TimerInv
  <2> QED BY <2>1 DEF FiresOnTime, DueIn, SentDue
<1> QED BY <1>1, TimerInvariant, PTL

(* link, move_list: timers due in the same tick are sent in the order in    *)
(* which they were added.                                                   *)
THEOREM TimersFireInOrder == TimerSpec => FiresInOrder
<1> DEFINE A == \A i \in DOMAIN list' :
                   list = << >> => \A j \in 1..(i - 1) :
                       \E a, b \in DOMAIN line : a < b /\ line[a] = list'[j] /\ line[b] = list'[i]
<1>1. ASSUME TimerInv, [TimerNext]_timerVars PROVE A
  <2>1. list = << >> => Sorted(line, list')
    BY <1>1, TimerStep
  <2> QED BY <2>1 DEF Sorted, Before
<1>2. TimerInv /\ [TimerNext]_timerVars => [A]_timerVars
  BY <1>1
<1> HIDE DEF A
<1>3. TimerSpec => [][A]_timerVars
  BY <1>2, TimerInvariant, PTL DEF TimerSpec
<1> QED BY <1>3 DEF FiresInOrder, A
=============================================================================
