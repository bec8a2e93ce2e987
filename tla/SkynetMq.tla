------------------------------ MODULE SkynetMq ------------------------------
(***************************************************************************)
(* The ring buffer inside one message queue of skynet_mq.c.  All of it     *)
(* happens under the queue's spinlock, so each operation is one step.  The *)
(* buffer doubles when the push fills its last cell; the length over which *)
(* a queue is reported as overloaded doubles with every report.            *)
(***************************************************************************)
EXTENDS Integers, Sequences

CONSTANTS
    Item,          \* messages
    QueueSize,     \* DEFAULT_QUEUE_SIZE
    Overload,      \* MQ_OVERLOAD
    MaxLength,     \* bound: messages in the queue
    NoItem         \* a cell without a message

ASSUME MqAssumption == NoItem \notin Item /\ QueueSize \in Nat \ {0, 1} /\ Overload \in Nat \ {0} /\ MaxLength \in Nat

VARIABLES
    ring,        \* q->queue, of q->cap cells
    head, tail,  \* q->head, q->tail
    overload,    \* q->overload
    threshold    \* q->overload_threshold

mqVars == <<ring, head, tail, overload, threshold>>

cap == Len(ring)
Cell(r, i) == r[i + 1]

MqInit ==
    /\ ring = [i \in 1..QueueSize |-> NoItem]
    /\ head = 0 /\ tail = 0
    /\ overload = 0 /\ threshold = Overload

(* skynet_mq_length *)
MqLength == IF head <= tail THEN tail - head ELSE tail + cap - head

(* Mutant of MqPush: expand_queue copies from cell 0 instead of head. *)
MqPushUnrotated(v) ==
    /\ MqLength < MaxLength
    /\ LET r == [ring EXCEPT ![tail + 1] = v]
           t == IF tail + 1 >= cap THEN 0 ELSE tail + 1
       IN  IF head = t
             THEN /\ ring' = [i \in 1..(2 * cap) |-> IF i <= cap THEN r[i] ELSE NoItem]
                  /\ head' = 0 /\ tail' = cap
             ELSE ring' = r /\ tail' = t /\ UNCHANGED head
    /\ UNCHANGED <<overload, threshold>>

(* skynet_mq_push, expand_queue *)
MqPush(v) ==
    /\ MqLength < MaxLength
    /\ LET r == [ring EXCEPT ![tail + 1] = v]
           t == IF tail + 1 >= cap THEN 0 ELSE tail + 1
       IN  IF head = t
             THEN /\ ring' = [i \in 1..(2 * cap) |->
                                IF i <= cap THEN Cell(r, (head + i - 1) % cap) ELSE NoItem]
                  /\ head' = 0 /\ tail' = cap
             ELSE ring' = r /\ tail' = t /\ UNCHANGED head
    /\ UNCHANGED <<overload, threshold>>

(* The threshold, doubled until it is not below the length. *)
Raised(n) ==
    LET f[k \in Nat] == IF n > k THEN f[2 * k] ELSE k IN f[threshold]

(* skynet_mq_pop; the cell it leaves is garbage nobody reads. *)
MqPop ==
    \/ /\ head # tail
       /\ LET h == IF head + 1 >= cap THEN 0 ELSE head + 1
              n == IF tail - h < 0 THEN tail - h + cap ELSE tail - h
          IN  /\ head' = h
              /\ ring' = [ring EXCEPT ![head + 1] = NoItem]
              /\ threshold' = Raised(n)
              /\ overload' = IF n > threshold THEN n ELSE overload
       /\ UNCHANGED tail
    \/ /\ head = tail
       /\ threshold' = Overload
       /\ UNCHANGED <<ring, head, tail, overload>>

(* skynet_mq_overload: the report is given once. *)
MqOverload ==
    /\ overload # 0 /\ overload' = 0
    /\ UNCHANGED <<ring, head, tail, threshold>>

MqNext == MqPop \/ MqOverload \/ \E v \in Item : MqPush(v)

MqSpec == MqInit /\ [][MqNext]_mqVars

-----------------------------------------------------------------------------
(* The messages from head to tail, around the end of the buffer. *)
Contents == [i \in 1..MqLength |-> Cell(ring, (head + i - 1) % cap)]

(* The buffer has its type, head and tail point into it, and the cells     *)
(* between them hold messages: skynet_mq_pop never reads an empty cell.    *)
RingOK ==
    /\ ring \in Seq(Item \cup {NoItem}) /\ cap >= QueueSize
    /\ head \in 0..(cap - 1) /\ tail \in 0..(cap - 1) /\ overload \in Nat
    /\ Contents \in Seq(Item)

(* Every variable has its type. *)
MqTypeOK == RingOK /\ threshold \in Nat

(* skynet_mq_push, skynet_mq_pop and expand_queue keep every message and    *)
(* their order, wherever head and tail are when the buffer doubles.         *)
Fifo == INSTANCE FifoQueue WITH items <- Contents
ImplementsFifoQueue == Fifo!Spec
=============================================================================
