------------------------------- MODULE DbPool -------------------------------
(***************************************************************************)
(* mysqlpool: the service through which every other one reaches the        *)
(* database.  A statement takes a connection of the pool in turn; when it  *)
(* fails the whole pool is closed and opened again, and the statement is   *)
(* executed once more.  Every query, connect and disconnect yields, so     *)
(* statements run in between and several restarts may overlap; CMD.stop    *)
(* walks the table it found and then installs an empty one.                *)
(*                                                                         *)
(* A connection whose socket broke connects again on its next request      *)
(* (socketchannel), unless it was closed by disconnect; disconnect then    *)
(* takes away its methods.                                                 *)
(***************************************************************************)
EXTENDS Naturals, Sequences, FiniteSets

CONSTANTS
    Statement,      \* the execute requests
    maxconn,        \* mysql_maxconn
    MaxOutages      \* bound: how often the database goes down

ASSUME DbAssumption == maxconn \in Nat \ {0, 1} /\ MaxOutages \in Nat

VARIABLES
    server,         \* the database is "up" or "down"
    outages,
    tables,         \* the values the variable pool has had; the last is current
    index,          \* the next connection to hand out
    made,           \* connections made so far; they are named 1..made
    closed,         \* connections whose channel was closed
    bare,           \* connections that have lost their methods
    st,             \* the coroutine of each statement
    runs            \* how often the database executed it

dbVars == <<server, outages, tables, index, made, closed, bare, st, runs>>

pool == tables[Len(tables)]

DbInit ==
    /\ server = "up" /\ outages = 0
    /\ tables = <<[i \in 1..maxconn |-> i]>> /\ index = 2
    /\ made = maxconn /\ closed = {} /\ bare = {}
    /\ st = [s \in Statement |-> [pc |-> "idle", again |-> FALSE, db |-> 0, t |-> 0, n |-> 0]]
    /\ runs = [s \in Statement |-> 0]

Fault ==
    /\ \/ server = "up" /\ outages < MaxOutages /\ server' = "down" /\ outages' = outages + 1
       \/ server = "down" /\ server' = "up" /\ UNCHANGED outages
    /\ UNCHANGED <<tables, index, made, closed, bare, st, runs>>

(* getconn, then the query is sent.  Its assertion on db ends the statement *)
(* with an error, and leaves index where it is.                            *)
Getconn(s, again) ==
    IF index \in DOMAIN pool
      THEN /\ st' = [st EXCEPT ![s] = [@ EXCEPT !.pc = "query", !.again = again, !.db = pool[index]]]
           /\ index' = IF index + 1 > maxconn THEN 2 ELSE index + 1
      ELSE st' = [st EXCEPT ![s].pc = "raised"] /\ UNCHANGED index

Execute(s) ==
    /\ st[s].pc = "idle"
    /\ Getconn(s, FALSE)
    /\ UNCHANGED <<server, outages, tables, made, closed, bare, runs>>

(* The query is answered. *)
QueryOk(s) ==
    /\ st[s].pc = "query" /\ server = "up" /\ st[s].db \notin closed
    /\ st' = [st EXCEPT ![s].pc = "done"]
    /\ runs' = [runs EXCEPT ![s] = @ + 1]
    /\ UNCHANGED <<server, outages, tables, index, made, closed, bare>>

(* It fails: the connection broke or was closed by a restart, before the   *)
(* database executed the statement or after.  CMD.stop begins its walk.    *)
QueryFails(s) ==
    /\ st[s].pc = "query" /\ (server = "down" \/ st[s].db \in closed)
    /\ \E did \in {0, 1} : runs' = [runs EXCEPT ![s] = @ + did]
    /\ st' = [st EXCEPT ![s] = [@ EXCEPT !.pc = "stop", !.t = Len(tables), !.n = 1]]
    /\ UNCHANGED <<server, outages, tables, index, made, closed, bare>>

(* One turn of the loop of CMD.stop: disconnect closes the channel ... *)
Stop(s) ==
    LET t == tables[st[s].t] IN
    /\ st[s].pc = "stop" /\ st[s].n <= Len(t)
    /\ IF t[st[s].n] \in bare THEN st' = [st EXCEPT ![s].pc = "raised"] /\ UNCHANGED closed
       ELSE st' = [st EXCEPT ![s].pc = "closing"] /\ closed' = closed \cup {t[st[s].n]}
    /\ UNCHANGED <<server, outages, tables, index, made, bare, runs>>

(* ... and takes the methods away. *)
Stopping(s) ==
    /\ st[s].pc = "closing"
    /\ bare' = bare \cup {tables[st[s].t][st[s].n]}
    /\ st' = [st EXCEPT ![s] = [@ EXCEPT !.pc = "stop", !.n = @ + 1]]
    /\ UNCHANGED <<server, outages, tables, index, made, closed, runs>>

(* The walk is over: an empty pool.  CMD.start's own stop finds nothing.   *)
Stopped(s) ==
    /\ st[s].pc = "stop" /\ st[s].n > Len(tables[st[s].t])
    /\ tables' = Append(tables, << >>)
    /\ st' = [st EXCEPT ![s] = [@ EXCEPT !.pc = "connect", !.n = 1]]
    /\ UNCHANGED <<server, outages, index, made, closed, bare, runs>>

(* mysql.connect: the connection goes into whatever the pool is now, and   *)
(* `set names` is sent; connect raises when the database is down.          *)
Connect(s) ==
    /\ st[s].pc = "connect"
    /\ IF server = "up"
         THEN /\ made' = made + 1
              /\ tables' = [tables EXCEPT ![Len(tables)] = Append(@, made + 1)]
              /\ st' = [st EXCEPT ![s] = [@ EXCEPT !.pc = "names", !.db = made + 1]]
         ELSE st' = [st EXCEPT ![s].pc = "raised"] /\ UNCHANGED <<made, tables>>
    /\ UNCHANGED <<server, outages, index, closed, bare, runs>>

(* `set names` raises when the connection broke or was closed meanwhile. *)
SetNamesFails(s) ==
    /\ st[s].pc = "names" /\ (server = "down" \/ st[s].db \in closed)
    /\ st' = [st EXCEPT ![s].pc = "raised"]
    /\ UNCHANGED <<server, outages, tables, index, made, closed, bare, runs>>

(* Mutant of SetNames: a statement is executed again as often as it fails. *)
SetNamesForever(s) ==
    /\ st[s].pc = "names" /\ server = "up" /\ st[s].db \notin closed
    /\ \/ /\ st[s].n < maxconn
          /\ st' = [st EXCEPT ![s] = [@ EXCEPT !.pc = "connect", !.n = @ + 1]] /\ UNCHANGED index
       \/ st[s].n = maxconn /\ Getconn(s, FALSE)
    /\ UNCHANGED <<server, outages, tables, made, closed, bare, runs>>

(* The next connection, or the restart is over: the statement is executed  *)
(* again unless this was the second time (no_re_execute).                  *)
SetNames(s) ==
    /\ st[s].pc = "names" /\ server = "up" /\ st[s].db \notin closed
    /\ \/ /\ st[s].n < maxconn
          /\ st' = [st EXCEPT ![s] = [@ EXCEPT !.pc = "connect", !.n = @ + 1]] /\ UNCHANGED index
       \/ st[s].n = maxconn /\ ~st[s].again /\ Getconn(s, TRUE)
       \/ /\ st[s].n = maxconn /\ st[s].again
          /\ st' = [st EXCEPT ![s].pc = "done"] /\ UNCHANGED index
    /\ UNCHANGED <<server, outages, tables, made, closed, bare, runs>>

DbStep(s) ==
    \/ QueryOk(s) \/ QueryFails(s) \/ Stop(s) \/ Stopping(s) \/ Stopped(s)
    \/ Connect(s) \/ SetNamesFails(s) \/ SetNames(s)

DbNext == Fault \/ \E s \in Statement : Execute(s) \/ DbStep(s)

(* A query is answered or fails, and coroutines are resumed; the database   *)
(* comes up again.                                                          *)
DbFairness ==
    /\ \A s \in Statement : WF_dbVars(DbStep(s))
    /\ WF_dbVars(server = "down" /\ Fault)

DbSpec == DbInit /\ [][DbNext]_dbVars /\ DbFairness

-----------------------------------------------------------------------------
(* Properties.                                                             *)

(* Type invariant; a connection that has lost its methods was closed. *)
DbTypeOK ==
    /\ server \in {"up", "down"} /\ outages \in 0..MaxOutages /\ index \in 2..maxconn
    /\ \A i \in DOMAIN tables : tables[i] \in Seq(1..made)
    /\ bare \subseteq closed /\ closed \subseteq 1..made
    /\ runs \in [Statement -> 0..2]
    /\ \A s \in Statement :
         st[s].pc \in {"idle", "query", "stop", "closing", "connect", "names", "done", "raised"}

(* Every statement ends, whatever the restarts of the others do to it. *)
StatementEnds == \A s \in Statement : st[s].pc # "idle" ~> st[s].pc \in {"done", "raised"}

(* execute reconnects after a failure: with the database up for good there *)
(* is again and again a connection to hand out.                            *)
PoolRecovers == <>[](server = "up") => []<>(index \in DOMAIN pool)
=============================================================================
