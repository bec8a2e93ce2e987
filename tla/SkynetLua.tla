------------------------------ MODULE SkynetLua ------------------------------
(***************************************************************************)
(* skynet.lua: how a Lua service runs its coroutines.  A message starts a  *)
(* coroutine or resumes the one that waits for its session; when that one  *)
(* yields, suspend goes on with the coroutines others have woken and with  *)
(* the calls that have failed, each of which is resumed inside the frame   *)
(* of the one before it.  A coroutine that raises unwinds all frames.      *)
(*                                                                         *)
(* The service has one peer, which sends requests, is called and may exit. *)
(***************************************************************************)
EXTENDS Naturals, Sequences, FiniteSets, SequencesExt

CONSTANTS
    Co,            \* coroutines; one that has raised is not used again
    Nil,
    MaxSession,    \* bound: calls, sleeps, waits and timeouts
    MaxRequest,    \* bound: requests of the peer
    MaxWoken,      \* bound: length of wakeup_queue
    MaxForks       \* bound: forks

ASSUME LuaAssumption ==
    /\ IsFiniteSet(Co) /\ Nil \notin Co /\ "BREAK" \notin Co \cup {Nil}
    /\ MaxSession \in Nat /\ MaxRequest \in Nat /\ MaxWoken \in Nat /\ MaxForks \in Nat

Session == 1..MaxSession
Request == 1..MaxRequest

VARIABLES
    phase,                  \* where dispatch_message is
    cur,                    \* the coroutine that runs
    frames,                 \* outer frames of suspend that have to call dispatch_error_queue
    status,                 \* of the coroutines
    waitsFor,               \* the session a coroutine has yielded with
    coroutine_pool,         \* ends with the one to be used next
    session_id_coroutine,
    sleep_session,          \* 0: nil
    watching_session,
    handling,               \* session_coroutine_id, _address: the request handled; 0: nil
    session_response,
    unresponse,
    watching_service,       \* of the peer
    dead_service,           \* of the peer
    wakeup_queue, error_queue, fork_queue,
    session,                \* the last session given out
    timers,                 \* sessions whose timer has not fired
    requested,                  \* kind of each request: none, call or send
    responses, errors,      \* answers sent to the peer's requests
    peer,                   \* what the peer has done about each call
    forks,
    disturbed               \* history: a coroutine raised, or one was woken twice

runVars == <<phase, cur, frames, status, waitsFor, coroutine_pool>>
waitVars == <<session_id_coroutine, sleep_session, watching_session, session, timers, peer>>
serveVars == <<handling, session_response, unresponse, watching_service, requested, responses, errors>>
queueVars == <<wakeup_queue, error_queue, fork_queue>>
luaVars == <<runVars, waitVars, serveVars, queueVars, dead_service, forks, disturbed>>

LuaInit ==
    /\ phase = "new" /\ cur = Nil /\ frames = 0
    /\ status = [c \in Co |-> "pool"] /\ waitsFor = [c \in Co |-> 0]
    /\ coroutine_pool = (CHOOSE all \in SetToSeqs(Co) : TRUE)
    /\ session_id_coroutine = [s \in Session |-> Nil]
    /\ sleep_session = [c \in Co |-> 0] /\ watching_session = {}
    /\ handling = [c \in Co |-> 0] /\ session_response = {} /\ unresponse = {}
    /\ watching_service = 0 /\ dead_service = FALSE
    /\ wakeup_queue = <<>> /\ error_queue = <<>> /\ fork_queue = {}
    /\ session = 0 /\ timers = {}
    /\ requested = [r \in Request |-> "none"]
    /\ responses = [r \in Request |-> 0] /\ errors = {}
    /\ peer = [s \in Session |-> "none"] /\ forks = 0 /\ disturbed = FALSE

-----------------------------------------------------------------------------
(* co_create: c is the coroutine to be used.  bound: there are Co of them. *)
CoCreate(c) ==
    coroutine_pool # <<>> /\ c = Last(coroutine_pool) /\ coroutine_pool' = Front(coroutine_pool)

(* Coroutine c runs next, at this depth. *)
Runs(c, depth) == phase' = "run" /\ cur' = c /\ frames' = depth

(* The coroutine that ran has yielded or ended: suspend goes on. *)
Suspended == phase' = "wake" /\ cur' = Nil /\ UNCHANGED frames

(* An error leaves all frames; dispatch_message still runs the forks.      *)
Unwinds == phase' = "fork" /\ cur' = Nil /\ frames' = 0

(* Coroutine c is resumed from what it waits for, session s.                *)
Resumes(c, s, depth) ==
    /\ Runs(c, depth)
    /\ status' = [status EXCEPT ![c] = "run"] /\ waitsFor' = [waitsFor EXCEPT ![c] = 0]
    /\ sleep_session' = [sleep_session EXCEPT ![c] = 0]
    /\ watching_session' = watching_session \ {s}

-----------------------------------------------------------------------------
(* Messages.                                                                *)

(* skynet.start: messages are dispatched from now on. *)
LuaStart == phase = "new" /\ phase' = "idle" /\ UNCHANGED <<coroutine_pool, cur, frames, status, waitsFor, waitVars, serveVars, queueVars, dead_service, forks, disturbed>>

(* A request of the peer, a call or a send, gets a coroutine. *)
DispatchRequest(r, kind, c) ==
    /\ phase = "idle" /\ ~dead_service /\ requested[r] = "none" /\ \A q \in 1..(r - 1) : requested[q] # "none"
    /\ CoCreate(c) /\ status' = [status EXCEPT ![c] = "run"] /\ Runs(c, 0)
    /\ requested' = [requested EXCEPT ![r] = kind] /\ handling' = [handling EXCEPT ![c] = r]
    /\ watching_service' = watching_service + 1
    /\ UNCHANGED <<waitsFor, waitVars, session_response, unresponse, responses, errors, queueVars, dead_service, forks, disturbed>>

(* The timer of session s fires: a sleep ends or a timeout's function starts, *)
(* unless the sleep was broken.                                               *)
DispatchTimer(s) ==
    LET co == session_id_coroutine[s]
    IN /\ phase = "idle" /\ s \in timers /\ timers' = timers \ {s}
       /\ session_id_coroutine' = [session_id_coroutine EXCEPT ![s] = Nil]
       /\ IF co \in Co THEN Resumes(co, s, 0)
          ELSE Unwinds /\ UNCHANGED <<status, waitsFor, sleep_session, watching_session>>
       /\ UNCHANGED <<coroutine_pool, session, peer, serveVars, queueVars, dead_service, forks, disturbed>>

(* The peer responds to call s; nobody may wait for it any more if an error  *)
(* came first (unknown_response raises).                                     *)
DispatchResponse(s) ==
    LET co == session_id_coroutine[s]
    IN /\ phase = "idle" /\ ~dead_service /\ peer[s] \in {"called", "failed"}
       /\ peer' = [peer EXCEPT ![s] = IF @ = "called" THEN "responded" ELSE "done"]
       /\ session_id_coroutine' = [session_id_coroutine EXCEPT ![s] = Nil]
       /\ IF co \in Co THEN Resumes(co, s, 0)
          ELSE Unwinds /\ UNCHANGED <<status, waitsFor, sleep_session, watching_session>>
       /\ UNCHANGED <<coroutine_pool, session, timers, serveVars, queueVars, dead_service, forks, disturbed>>

(* _error_dispatch: the peer reports an error of call s, also of one it has  *)
(* responded to, and also after it has exited, when its queue is dropped.    *)
DispatchError(s) ==
    /\ phase = "idle" /\ peer[s] \in {"called", "responded"}
    /\ peer' = [peer EXCEPT ![s] = IF @ = "called" THEN "failed" ELSE "done"]
    /\ error_queue' = IF s \in watching_session THEN Append(error_queue, s) ELSE error_queue
    /\ Suspended
    /\ UNCHANGED <<coroutine_pool, status, waitsFor, session_id_coroutine, sleep_session, watching_session, session, timers, serveVars, wakeup_queue, fork_queue, dead_service, forks, disturbed>>

(* Mutant of DispatchExit: it stops at the first call it finds. *)
DispatchExitFirst(failed) ==
    /\ phase = "idle" /\ ~dead_service /\ dead_service' = TRUE
    /\ error_queue' = IF failed = <<>> THEN error_queue ELSE Append(error_queue, Head(failed))
    /\ Suspended
    /\ UNCHANGED <<coroutine_pool, status, waitsFor, waitVars, serveVars, wakeup_queue, fork_queue, forks, disturbed>>

(* _error_dispatch: the peer exits.  All calls to it have failed, in the    *)
(* order of pairs().                                                        *)
DispatchExit(failed) ==
    /\ phase = "idle" /\ ~dead_service /\ dead_service' = TRUE
    /\ error_queue' = error_queue \o failed
    /\ Suspended
    /\ UNCHANGED <<coroutine_pool, status, waitsFor, waitVars, serveVars, wakeup_queue, fork_queue, forks, disturbed>>

(* Another message, such as the service's periodic timer, whose handler ends *)
(* at once.  It matters if something is left in the queues.                  *)
DispatchOther ==
    /\ phase = "idle" /\ (wakeup_queue # <<>> \/ error_queue # <<>>)
    /\ Suspended
    /\ UNCHANGED <<coroutine_pool, status, waitsFor, waitVars, serveVars, queueVars, dead_service, forks, disturbed>>

-----------------------------------------------------------------------------
(* What a running coroutine may do.                                         *)
Yields(kind, s) ==
    /\ phase = "run" /\ s = session + 1 /\ s \in Session /\ session' = s
    /\ status' = [status EXCEPT ![cur] = kind] /\ waitsFor' = [waitsFor EXCEPT ![cur] = s]
    /\ session_id_coroutine' = [session_id_coroutine EXCEPT ![s] = cur]
    /\ Suspended
    /\ UNCHANGED <<coroutine_pool, serveVars, queueVars, dead_service, forks, disturbed>>

(* skynet.call.  To a peer that has exited it raises at once. *)
SkynetCall ==
    LET s == session + 1
    IN /\ Yields("call", s) /\ ~dead_service
       /\ watching_session' = watching_session \cup {s}
       /\ peer' = [peer EXCEPT ![s] = "called"]
       /\ UNCHANGED <<sleep_session, timers>>

(* skynet.sleep *)
SkynetSleep ==
    LET s == session + 1
    IN /\ Yields("sleep", s) /\ timers' = timers \cup {s}
       /\ sleep_session' = [sleep_session EXCEPT ![cur] = s]
       /\ UNCHANGED <<watching_session, peer>>

(* skynet.wait *)
SkynetWait ==
    LET s == session + 1
    IN /\ Yields("wait", s)
       /\ sleep_session' = [sleep_session EXCEPT ![cur] = s]
       /\ UNCHANGED <<watching_session, timers, peer>>

(* skynet.timeout: function c is started by a timer. *)
Timeout(c) ==
    LET s == session + 1
    IN /\ phase = "run" /\ s \in Session /\ session' = s /\ CoCreate(c)
       /\ status' = [status EXCEPT ![c] = "timeout"] /\ waitsFor' = [waitsFor EXCEPT ![c] = s]
       /\ session_id_coroutine' = [session_id_coroutine EXCEPT ![s] = c]
       /\ timers' = timers \cup {s}
       /\ UNCHANGED <<phase, cur, frames, sleep_session, watching_session, peer, serveVars, queueVars, dead_service, forks, disturbed>>

(* skynet.fork *)
Fork(c) ==
    /\ phase = "run" /\ CoCreate(c) /\ forks < MaxForks /\ forks' = forks + 1
    /\ status' = [status EXCEPT ![c] = "forked"] /\ fork_queue' = fork_queue \cup {c}
    /\ UNCHANGED <<phase, cur, frames, waitsFor, waitVars, serveVars, wakeup_queue, error_queue, dead_service, disturbed>>

(* skynet.wakeup *)
SkynetWakeup(c) ==
    /\ phase = "run" /\ sleep_session[c] # 0 /\ Len(wakeup_queue) < MaxWoken
    /\ wakeup_queue' = Append(wakeup_queue, c)
    /\ disturbed' = (disturbed \/ Contains(wakeup_queue, c))
    /\ UNCHANGED <<runVars, waitVars, serveVars, error_queue, fork_queue, dead_service, forks>>

(* What is sent back for request r; nothing if it was a send.               *)
Responds(r, ok) ==
    /\ responses' = IF ok /\ requested[r] = "call" THEN [responses EXCEPT ![r] = @ + 1] ELSE responses
    /\ errors' = IF ~ok /\ requested[r] = "call" THEN errors \cup {r} ELSE errors

(* skynet.ret, once; a package that is too large becomes an error. *)
Ret(ok) ==
    LET r == handling[cur]
    IN /\ phase = "run" /\ r # 0 /\ requested[r] = "call" /\ cur \notin session_response
       /\ session_response' = session_response \cup {cur}
       /\ IF dead_service THEN UNCHANGED <<responses, errors>> ELSE Responds(r, ok)
       /\ UNCHANGED <<runVars, waitVars, handling, unresponse, watching_service, requested, queueVars, dead_service, forks, disturbed>>

(* skynet.response: the answer is left to whoever calls the closure. *)
Response ==
    LET r == handling[cur]
    IN /\ phase = "run" /\ r # 0 /\ cur \notin session_response
       /\ session_response' = session_response \cup {cur}
       /\ unresponse' = unresponse \cup {r} /\ watching_service' = watching_service + 1
       /\ UNCHANGED <<runVars, waitVars, handling, requested, responses, errors, queueVars, dead_service, forks, disturbed>>

(* The closure of request r is called, with a result, an error or "TEST",   *)
(* which only looks whether the peer is gone.                               *)
Closure(r, how) ==
    /\ phase = "run" /\ r \in unresponse /\ (how = "TEST" => dead_service)
    /\ unresponse' = unresponse \ {r} /\ watching_service' = watching_service - 1
    /\ IF dead_service THEN UNCHANGED <<responses, errors>> ELSE Responds(r, how = "ok")
    /\ UNCHANGED <<runVars, waitVars, handling, session_response, requested, queueVars, dead_service, forks, disturbed>>

(* Mutant of CoExit: a handler that ends does not look at the queues. *)
CoExitAtOnce ==
    /\ phase = "run" /\ Unwinds /\ status' = [status EXCEPT ![cur] = "pool"] /\ coroutine_pool' = Append(coroutine_pool, cur)
    /\ handling' = [handling EXCEPT ![cur] = 0] /\ session_response' = session_response \ {cur}
    /\ watching_service' = IF handling[cur] # 0 THEN watching_service - 1 ELSE watching_service
    /\ UNCHANGED <<waitsFor, waitVars, unresponse, requested, responses, errors, queueVars, dead_service, forks, disturbed>>

(* The function ends ("EXIT"): the coroutine goes back to the pool. *)
CoExit ==
    /\ phase = "run" /\ Suspended /\ status' = [status EXCEPT ![cur] = "pool"] /\ coroutine_pool' = Append(coroutine_pool, cur)
    /\ handling' = [handling EXCEPT ![cur] = 0] /\ session_response' = session_response \ {cur}
    /\ watching_service' = IF handling[cur] # 0 THEN watching_service - 1 ELSE watching_service
    /\ UNCHANGED <<waitsFor, waitVars, unresponse, requested, responses, errors, queueVars, dead_service, forks, disturbed>>

(* The function raises.  Its request is answered by an error; the peer stays *)
(* watched.                                                                  *)
Raise ==
    /\ phase = "run" /\ Unwinds /\ status' = [status EXCEPT ![cur] = "dead"]
    /\ handling' = [handling EXCEPT ![cur] = 0] /\ disturbed' = TRUE
    /\ errors' = IF handling[cur] # 0 /\ requested[handling[cur]] = "call" THEN errors \cup {handling[cur]} ELSE errors
    /\ UNCHANGED <<coroutine_pool, waitsFor, waitVars, session_response, unresponse, watching_service, requested, responses, queueVars, dead_service, forks>>

(* skynet.exit: callers that wait get errors. *)
Quit ==
    LET open == ({handling[c] : c \in Co} \ {0}) \cup IF dead_service THEN {} ELSE unresponse
    IN /\ phase = "run" /\ phase' = "gone" /\ cur' = Nil /\ fork_queue' = {} /\ unresponse' = {}
       /\ errors' = errors \cup {r \in open : requested[r] = "call"}
       /\ UNCHANGED <<coroutine_pool, frames, status, waitsFor, waitVars, handling, session_response, watching_service, requested, responses, wakeup_queue, error_queue, dead_service, forks, disturbed>>

-----------------------------------------------------------------------------
(* The end of suspend.                                                      *)

(* dispatch_wakeup: the first one woken runs, inside this frame.  One that   *)
(* does not sleep any more is dropped, and the queue is left at that.        *)
DispatchWakeup ==
    /\ phase = "wake"
    /\ wakeup_queue' = IF wakeup_queue = <<>> THEN <<>> ELSE Tail(wakeup_queue)
    /\ IF wakeup_queue # <<>> /\ sleep_session[Head(wakeup_queue)] # 0
         THEN LET c == Head(wakeup_queue)
                  s == sleep_session[c]
              IN /\ Resumes(c, s, frames + 1)
                 /\ session_id_coroutine' = [session_id_coroutine EXCEPT ![s] = IF status[c] = "wait" THEN Nil ELSE "BREAK"]
         ELSE /\ phase' = "err"
              /\ UNCHANGED <<cur, frames, status, waitsFor, session_id_coroutine, sleep_session, watching_session>>
    /\ UNCHANGED <<coroutine_pool, session, timers, peer, serveVars, error_queue, fork_queue, dead_service, forks, disturbed>>

(* dispatch_error_queue: the coroutine of the first failed call runs.  If    *)
(* there is none (the error was reported twice) resuming it raises.          *)
DispatchErrorQueue ==
    /\ phase = "err" /\ error_queue # <<>> /\ error_queue' = Tail(error_queue)
    /\ LET s == Head(error_queue)
           co == session_id_coroutine[s]
       IN /\ session_id_coroutine' = [session_id_coroutine EXCEPT ![s] = Nil]
          /\ IF co \in Co THEN Resumes(co, s, frames) /\ UNCHANGED disturbed
             ELSE Unwinds /\ disturbed' = TRUE /\ UNCHANGED <<status, waitsFor, sleep_session, watching_session>>
    /\ UNCHANGED <<coroutine_pool, session, timers, peer, serveVars, wakeup_queue, fork_queue, dead_service, forks>>

(* Nothing has failed: suspend returns to the frame around it. *)
SuspendReturns ==
    /\ phase = "err" /\ error_queue = <<>>
    /\ IF frames > 0 THEN frames' = frames - 1 /\ UNCHANGED phase
                     ELSE phase' = "fork" /\ UNCHANGED frames
    /\ UNCHANGED <<coroutine_pool, cur, status, waitsFor, waitVars, serveVars, queueVars, dead_service, forks, disturbed>>

(* dispatch_message runs what was forked, each on its own. *)
DispatchFork(c) ==
    /\ phase = "fork" /\ c \in fork_queue /\ fork_queue' = fork_queue \ {c}
    /\ Runs(c, 0) /\ status' = [status EXCEPT ![c] = "run"]
    /\ UNCHANGED <<coroutine_pool, waitsFor, waitVars, serveVars, wakeup_queue, error_queue, dead_service, forks, disturbed>>

DispatchReturns ==
    /\ phase = "fork" /\ fork_queue = {} /\ phase' = "idle"
    /\ UNCHANGED <<coroutine_pool, cur, frames, status, waitsFor, waitVars, serveVars, queueVars, dead_service, forks, disturbed>>

-----------------------------------------------------------------------------
Dispatches ==
    \/ \E r \in Request, kind \in {"call", "send"}, c \in Co : DispatchRequest(r, kind, c)
    \/ \E s \in Session : DispatchTimer(s) \/ DispatchResponse(s) \/ DispatchError(s)
    \/ \E failed \in SetToSeqs(watching_session) : DispatchExit(failed)

Body ==
    \/ SkynetCall \/ SkynetSleep \/ SkynetWait \/ Response \/ CoExit \/ Raise \/ Quit
    \/ \E c \in Co : Timeout(c) \/ Fork(c) \/ SkynetWakeup(c)
    \/ \E ok \in BOOLEAN : Ret(ok)
    \/ \E r \in Request, how \in {"ok", "fail", "TEST"} : Closure(r, how)

Goes ==
    \/ DispatchWakeup \/ DispatchErrorQueue \/ SuspendReturns \/ DispatchReturns
    \/ \E c \in Co : DispatchFork(c)

LuaNext == LuaStart \/ Dispatches \/ DispatchOther \/ Body \/ Goes

(* A coroutine that runs comes to an end or yields, suspend goes on, and    *)
(* messages keep coming: the room agents have a timer of a second.          *)
LuaFairness == WF_luaVars(Body) /\ WF_luaVars(Goes) /\ WF_luaVars(DispatchOther)

LuaSpec == LuaInit /\ [][LuaNext]_luaVars /\ LuaFairness

-----------------------------------------------------------------------------
(* Types; the peer is watched for every request in hand and every answer    *)
(* deferred, so that the counts suspend adds to and takes from exist.       *)
LuaTypeOK ==
    /\ phase \in {"new", "idle", "run", "wake", "err", "fork", "gone"}
    /\ cur \in Co \cup {Nil} /\ (phase = "run" <=> cur # Nil)
    /\ session_id_coroutine \in [Session -> Co \cup {Nil, "BREAK"}]
    /\ phase # "gone" =>
         watching_service >= Cardinality({c \in Co : handling[c] # 0}) + Cardinality(unresponse)

(* No coroutine that waits is forgotten: its session leads to it, and the   *)
(* tables of sleepers and of calls agree with what it waits for.            *)
WaitersKnown ==
    \A c \in Co :
        /\ status[c] \in {"call", "sleep", "wait", "timeout"} => session_id_coroutine[waitsFor[c]] = c
        /\ status[c] \in {"sleep", "wait"} <=> sleep_session[c] # 0
        /\ status[c] = "call" <=> waitsFor[c] \in watching_session
        /\ status[c] \in {"sleep", "timeout"} => waitsFor[c] \in timers

(* Between messages nobody is left who was woken or whose call has failed,  *)
(* in however many frames they were resumed, as long as no coroutine raised *)
(* and none was woken twice.                                                *)
QueuesDrained ==
    phase = "idle" /\ ~disturbed => wakeup_queue = <<>> /\ error_queue = <<>> /\ frames = 0

(* A call of the peer is responded to once at most, and nobody who may still *)
(* wait for an answer is left behind when the service exits.                 *)
RequestsAnswered ==
    /\ \A r \in Request : responses[r] <= 1
    /\ phase = "gone" =>
         \A c \in Co : LET r == handling[c] IN r # 0 /\ requested[r] = "call" => r \in errors

(* No coroutine is forgotten, none is left in the queues between messages,   *)
(* and no request is answered twice or left to an exit.                      *)
LuaSafe == WaitersKnown /\ QueuesDrained /\ RequestsAnswered

(* A deferred answer is given or dropped with the peer, never lost with the  *)
(* service.                                                                  *)
DeferredAnswered ==
    [][phase' = "gone" => \A r \in unresponse : requested[r] = "call" => dead_service \/ r \in errors']_luaVars

(* A call that was answered, or whose peer has exited, ends, although other  *)
(* coroutines raise while the failures are handed out.                       *)
CallReturns ==
    \A s \in Session :
        (s \in watching_session /\ (peer[s] # "called" \/ dead_service)) ~> (s \notin watching_session \/ phase = "gone")

(* A coroutine that was woken runs.                                          *)
WokenRuns ==
    \A c \in Co, s \in Session :
        (sleep_session[c] = s /\ Contains(wakeup_queue, c)) ~> (sleep_session[c] # s \/ phase = "gone")

(* Whoever waits for the service or in it is served: calls return, woken     *)
(* coroutines run, deferred answers are given.                               *)
LuaLive == CallReturns /\ WokenRuns /\ DeferredAnswered
=============================================================================
