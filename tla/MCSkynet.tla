------------------------------ MODULE MCSkynet ------------------------------
(***************************************************************************)
(* How messages are run: by the workers of the kernel, as callbacks of     *)
(* services, and by skynet.lua, in the coroutines of one service.  The two *)
(* share no state: a behaviour of this specification is one of one level,  *)
(* `part`, while the other stays as it began.                              *)
(***************************************************************************)
EXTENDS SkynetServer, SkynetLua

CONSTANTS s1, s2, w1, w2

VARIABLE part

skynetVars == <<part, serverVars, luaVars>>

SkynetInit == part \in {"server", "lua"} /\ ServerInit /\ LuaInit

(* Nothing need arrive for a service that is idle or has exited. *)
NoMessage == phase \in {"idle", "gone"} /\ UNCHANGED luaVars

SkynetNext ==
    /\ UNCHANGED part
    /\ \/ part = "server" /\ ServerNext /\ UNCHANGED luaVars
       \/ part = "lua" /\ (LuaNext \/ NoMessage) /\ UNCHANGED serverVars

(* ServerFairness, for the behaviours in which the kernel runs.  No fair step *)
(* of LuaFairness is enabled in the initial states.                           *)
Server(A) == part = "server" /\ A
SkynetFairness ==
    /\ \A t \in Threads : WF_serverVars(Server(Steps(t)))
    /\ \A w \in Worker : /\ WF_serverVars(Server(WorkerSteps(w)))
                         /\ WF_serverVars(Server(InitOk(w) \/ InitFail(w)))
    /\ WF_serverVars(Server(\E w \in Worker : Wakeup(w)))
    /\ WF_serverVars(Server(Shutdown))
    /\ LuaFairness

SkynetSpec == SkynetInit /\ [][SkynetNext]_skynetVars /\ SkynetFairness

-----------------------------------------------------------------------------
(* The variables of both levels keep their types.                           *)
SkynetTypeOK == ServerTypeOK /\ LuaTypeOK

-----------------------------------------------------------------------------
(* One worker takes a message at a time, the other all there are. *)
MCWeight == [w \in Worker |-> IF w = w1 THEN -1 ELSE 0]
=============================================================================
