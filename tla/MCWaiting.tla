------------------------------ MODULE MCWaiting ------------------------------
(***************************************************************************)
(* What coroutines, threads and statements wait for: the critical section, *)
(* the reader-writer lock, the pool of database connections and the answer *)
(* of an HTTP server.  They share no state: a behaviour of this            *)
(* specification is one of one component, `part`, while the others stay as *)
(* they began.                                                             *)
(***************************************************************************)
EXTENDS SkynetQueue, RWLock, DbPool, HttpSocket

VARIABLE part

waitingVars == <<part, vars, lockVars, dbVars, httpVars>>

WaitingInit ==
    /\ part \in {"queue", "lock", "db", "http"}
    /\ Init /\ LockInit /\ DbInit /\ HttpInit

WaitingNext ==
    /\ UNCHANGED part
    /\ \/ part = "queue" /\ Next /\ UNCHANGED <<lockVars, dbVars, httpVars>>
       \/ part = "lock" /\ LockNext /\ UNCHANGED <<vars, dbVars, httpVars>>
       \/ part = "db" /\ DbNext /\ UNCHANGED <<vars, lockVars, httpVars>>
       \/ part = "http" /\ HttpNext /\ UNCHANGED <<vars, lockVars, dbVars>>

(* No fair step is enabled in the initial states, so that the fairness of   *)
(* one component asks nothing of the behaviours of another.                 *)
WaitingSpec ==
    /\ WaitingInit /\ [][WaitingNext]_waitingVars
    /\ Fairness /\ LockFairness /\ DbFairness /\ HttpFairness

-----------------------------------------------------------------------------
(* The variables of every component keep their types (SkynetQueue, RWLock,  *)
(* DbPool, HttpSocket); a statement is executed twice at most.              *)
WaitingTypeOK == TypeOK /\ LockTypeOK /\ DbTypeOK /\ HttpTypeOK

(* Whoever waits gets on: for the section (queue.lua), as a writer for the  *)
(* lock (rwlock.h), for a connection and its answer (mysqlpool.lua).        *)
WaitingEnds == WaiterEnters /\ WriterEnters /\ StatementEnds

-----------------------------------------------------------------------------
(* Bytes of an answer: 1 and 2 stand for CR and LF; a CR that ends no line   *)
(* comes before one that does.                                              *)
MCStream == <<0, 1, 1, 2, 0>>
MCSep == <<1, 2>>
=============================================================================
