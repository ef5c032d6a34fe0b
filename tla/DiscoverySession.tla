-------------------------- MODULE DiscoverySession --------------------------
(***************************************************************************)
(* What a wallet discovery promises the dApp: the abstract specification   *)
(* that Discovery implements.  One session is open at a time.  While it is *)
(* open wallets are found, at most one under each reverse domain name; it  *)
(* closes once, and what it had found by then is its result for good.      *)
(***************************************************************************)
CONSTANTS Session, Responder, Rdns

VARIABLES phase,   \* phase[s]: what the caller of startDiscovery has been told
          found    \* found[s]: the wallets of session s

vars == <<phase, found>>

Init == /\ phase = [s \in Session |-> "idle"]
        /\ found = [s \in Session |-> {}]

Open(s) == /\ \A t \in Session : phase[t] # "waiting"
           /\ phase[s] = "idle"
           /\ phase' = [phase EXCEPT ![s] = "waiting"]
           /\ UNCHANGED found

Find(s, r) == /\ phase[s] = "waiting"
              /\ \A q \in found[s] : Rdns[q] # Rdns[r]
              /\ found' = [found EXCEPT ![s] = @ \cup {r}]
              /\ UNCHANGED phase

Resolve(s) == /\ phase[s] = "waiting"
              /\ phase' = [phase EXCEPT ![s] = "resolved"]
              /\ UNCHANGED found

Reject(s) == /\ phase[s] = "waiting"
             /\ phase' = [phase EXCEPT ![s] = "rejected"]
             /\ found' = [found EXCEPT ![s] = {}]

Next == \E s \in Session : \/ Open(s) \/ Resolve(s) \/ Reject(s)
                           \/ \E r \in Responder : Find(s, r)

Spec == Init /\ [][Next]_vars
=============================================================================
