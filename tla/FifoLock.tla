------------------------------ MODULE FifoLock ------------------------------
(***************************************************************************)
(* What skynet.queue promises: a lock that is granted in the order it was  *)
(* asked for.  `line` is everybody who has asked and not yet released; the *)
(* one in front owns the lock.                                             *)
(***************************************************************************)
EXTENDS Sequences

CONSTANT Client

VARIABLE line

InLine(c) == \E i \in DOMAIN line : line[i] = c

Init == line = << >>

Request(c) == ~InLine(c) /\ line' = Append(line, c)

Release == line # << >> /\ line' = Tail(line)

Next == (\E c \in Client : Request(c)) \/ Release

Spec == Init /\ [][Next]_line
=============================================================================
