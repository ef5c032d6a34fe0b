----------------------------- MODULE RemoteCall -----------------------------
(***************************************************************************)
(* What a remote procedure call promises its caller: the abstract          *)
(* specification that RpcNode implements.  A call is invoked once; the     *)
(* peer produces a result for it at most once, possibly after the caller   *)
(* has given up; the promise settles at most once, and it is fulfilled     *)
(* only with a result the peer produced.                                   *)
(***************************************************************************)
CONSTANT Call

VARIABLES phase,     \* phase[c]: what the caller of c has been told
          produced   \* the calls the peer has produced a result for

vars == <<phase, produced>>

Init == /\ phase = [c \in Call |-> "idle"]
        /\ produced = {}

Invoke(c) == /\ phase[c] = "idle"
             /\ phase' = [phase EXCEPT ![c] = "waiting"]
             /\ UNCHANGED produced

Produce(c) == /\ phase[c] # "idle"
              /\ c \notin produced
              /\ produced' = produced \cup {c}
              /\ UNCHANGED phase

Fulfil(c) == /\ phase[c] = "waiting"
             /\ c \in produced
             /\ phase' = [phase EXCEPT ![c] = "fulfilled"]
             /\ UNCHANGED produced

\* One failure may end several calls of a caller at once.
Reject(S) == /\ \A c \in S : phase[c] = "waiting"
             /\ phase' = [c \in Call |-> IF c \in S THEN "rejected" ELSE phase[c]]
             /\ UNCHANGED produced

Next == \/ \E c \in Call : Invoke(c) \/ Produce(c) \/ Fulfil(c)
        \/ \E S \in SUBSET Call : Reject(S)

Spec == Init /\ [][Next]_vars
=============================================================================
