----------------------------- MODULE AckChannel -----------------------------
(***************************************************************************)
(* What an acknowledged emit of a socket client promises its caller,       *)
(* stated without connections, queues or timers.  Every message is        *)
(* emitted at most once.  The server receives each message at most once  *)
(* and in emission order, possibly missing some.  The caller's ack        *)
(* callback reports success only for a message the server received, and  *)
(* an outcome once reported is never revised.                             *)
(***************************************************************************)
EXTENDS Sequences, SequencesExt

CONSTANTS Msgs  \* the messages emitted with an ack callback

VARIABLES
    status,  \* m -> "idle" | "waiting" | "ok" | "err": what the caller saw
    recv,    \* the messages the server received, in arrival order
    order    \* the messages emitted, in emission order

vars == << status, recv, order >>

Init ==
    /\ status = [m \in Msgs |-> "idle"]
    /\ recv = << >>
    /\ order = << >>

Emit(m) ==
    /\ status[m] = "idle"
    /\ status' = [status EXCEPT ![m] = "waiting"]
    /\ order' = Append(order, m)
    /\ UNCHANGED recv

\* The position of an emitted message in emission order.
Pos(m) == SelectInSeq(order, LAMBDA x : x = m)

\* A message may reach the server after its caller saw a timeout, but never
\* twice, and never after a message emitted later than it.
Deliver(m) ==
    /\ status[m] \in {"waiting", "err"}
    /\ m \notin ToSet(recv)
    /\ \A x \in ToSet(recv) : Pos(x) < Pos(m)
    /\ recv' = Append(recv, m)
    /\ UNCHANGED << status, order >>

ResolveOk(m) ==
    /\ status[m] = "waiting"
    /\ m \in ToSet(recv)
    /\ status' = [status EXCEPT ![m] = "ok"]
    /\ UNCHANGED << recv, order >>

ResolveErr(m) ==
    /\ status[m] = "waiting"
    /\ status' = [status EXCEPT ![m] = "err"]
    /\ UNCHANGED << recv, order >>

Next == \E m \in Msgs : Emit(m) \/ Deliver(m) \/ ResolveOk(m) \/ ResolveErr(m)

Spec == Init /\ [][Next]_vars

=============================================================================
