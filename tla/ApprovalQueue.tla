--------------------------- MODULE ApprovalQueue ----------------------------
(***************************************************************************)
(* ApprovalQueueManager and the middleware in front of it.  A wm_call that *)
(* needs approval tells the wallet's user interface of itself, enters the  *)
(* queue under its JSON-RPC id, and blocks there until resolveApproval, a  *)
(* timeout or cleanupAll settles the promise it waits for.                 *)
(*                                                                         *)
(* The manager keeps a context, a resolver and a timer per id.  Context    *)
(* and resolver are set and deleted together: `pending` is both maps.      *)
(***************************************************************************)
CONSTANTS Request,     \* the requests that need an approval
          Id,          \* Id[r]: the JSON-RPC id the dApp gave r
          Immediate,   \* requests the interface approves inside its callback
          None         \* no request

ASSUME NoneAssumption == None \notin Request

VARIABLES pending,   \* pending[i]: the request queued under id i, or None
          armed,     \* ids whose timer is running
          verdict,   \* verdict[r]: the promise r blocks on
          dialog     \* dialog[r]: what the user was asked, and answered

queueVars == <<pending, armed, verdict, dialog>>

Ids      == {Id[r] : r \in Request}
Verdicts == {"none", "waiting", "approved", "denied", "timedOut", "cleared", "duplicate"}
Dialogs  == {"none", "open", "yes", "no"}

QueueInit == /\ pending = [i \in Ids |-> None]
             /\ armed = {}
             /\ verdict = [r \in Request |-> "none"]
             /\ dialog = [r \in Request |-> "none"]

\* Faults: one answer releases every request, as if the queue were keyed by
\* method; the timer of a released request is left running.
ReleaseEvery(i, v) ==
  /\ pending' = [j \in Ids |-> None]
  /\ armed' = {}
  /\ verdict' = [r \in Request |-> IF verdict[r] = "waiting" THEN v ELSE verdict[r]]

ReleaseKeepingTimer(i, v) ==
  /\ pending' = [pending EXCEPT ![i] = None]
  /\ armed' = armed
  /\ verdict' = [r \in Request |-> IF r = pending[i] THEN v ELSE verdict[r]]

\* The request queued under id i is told v and leaves all the maps; if none
\* is queued, nothing happens (resolveApproval returns false).
Release(i, v) ==
  /\ pending' = [pending EXCEPT ![i] = None]
  /\ armed' = armed \ {i}
  /\ verdict' = [r \in Request |-> IF r = pending[i] THEN v ELSE verdict[r]]

\* Faults: the id is stored for the request; no timer is started.
EnqueueId(r) ==
  /\ pending' = [pending EXCEPT ![Id[r]] = Id[r]]
  /\ armed' = armed \cup {Id[r]}
  /\ verdict' = [verdict EXCEPT ![r] = "waiting"]

EnqueueUntimed(r) ==
  /\ pending' = [pending EXCEPT ![Id[r]] = r]
  /\ armed' = armed
  /\ verdict' = [verdict EXCEPT ![r] = "waiting"]

Enqueue(r) ==
  /\ pending' = [pending EXCEPT ![Id[r]] = r]
  /\ armed' = armed \cup {Id[r]}
  /\ verdict' = [verdict EXCEPT ![r] = "waiting"]

\* The middleware calls onApprovalQueued and only then queueApproval: an
\* interface that opens a dialog ...
AskUser(r) ==
  /\ verdict[r] = "none" /\ r \notin Immediate
  /\ dialog' = [dialog EXCEPT ![r] = "open"]
  /\ \/ /\ pending[Id[r]] = None
        /\ Enqueue(r)
     \/ /\ pending[Id[r]] # None
        /\ verdict' = [verdict EXCEPT ![r] = "duplicate"]
        /\ UNCHANGED <<pending, armed>>

\* ... or one that calls resolveApproval in the callback, which finds no
\* entry of r yet and can only release an older request with the same id.
AutoApprove(r) ==
  /\ verdict[r] = "none" /\ r \in Immediate
  /\ dialog' = [dialog EXCEPT ![r] = "yes"]
  /\ pending' = [pending EXCEPT ![Id[r]] = r]
  /\ armed' = armed \cup {Id[r]}
  /\ verdict' = [q \in Request |-> IF q = r THEN "waiting"
                                   ELSE IF q = pending[Id[r]] THEN "approved"
                                   ELSE verdict[q]]

Queue(r) == AskUser(r) \/ AutoApprove(r)

\* The user decides in the dialog of r; the interface resolves r's id.
Decide(r) ==
  /\ dialog[r] = "open"
  /\ \/ /\ dialog' = [dialog EXCEPT ![r] = "yes"]
        /\ Release(Id[r], "approved")
     \/ /\ dialog' = [dialog EXCEPT ![r] = "no"]
        /\ Release(Id[r], "denied")

Expire(i) ==
  /\ i \in armed
  /\ Release(i, "timedOut")
  /\ UNCHANGED dialog

CleanupAll ==
  /\ pending' = [i \in Ids |-> None]
  /\ armed' = {}
  /\ verdict' = [r \in Request |-> IF verdict[r] = "waiting" THEN "cleared" ELSE verdict[r]]
  /\ UNCHANGED dialog

QueueNext == \/ \E r \in Request : Queue(r) \/ Decide(r)
             \/ \E i \in Ids : Expire(i)
             \/ CleanupAll

\* A timer that stays armed fires.  This is weak fairness of Expire(i), which
\* is enabled while its guard holds, with the guard written out.
TimerFires(i) == []<>(i \notin armed) \/ []<><<Expire(i)>>_queueVars

\* Timers fire; the user owes nobody an answer.
QueueSpec == /\ QueueInit /\ [][QueueNext]_queueVars
             /\ \A i \in Ids : TimerFires(i)

-----------------------------------------------------------------------------
\* The values the queue may take.
QueueTypeOK == /\ pending \in [Ids -> Request \cup {None}]
               /\ armed \subseteq Ids
               /\ verdict \in [Request -> Verdicts]
               /\ dialog \in [Request -> Dialogs]

\* The maps agree with each other and with the blocked requests: a request
\* blocks exactly while its own id leads to it, and exactly then its timer
\* runs.  A request whose entry were overwritten or deleted without being
\* told would block forever; a timer left behind would deny a later request.
QueueConsistent ==
  /\ \A r \in Request : verdict[r] = "waiting" <=> pending[Id[r]] = r
  /\ armed = {i \in Ids : pending[i] # None}

\* Concurrent requests of one method each need their own approval: a request
\* is approved only if the user said yes in the dialog of that very request.
\* This needs an id no other request has, as randomUUID gives it.
OwnVerdict ==
  \A r \in Request : (\A q \in Request \ {r} : Id[q] # Id[r]) =>
    /\ verdict[r] = "approved" => dialog[r] = "yes"
    /\ verdict[r] = "denied" => dialog[r] = "no"

\* A blocked request is released even if the user never answers.
Released == \A r \in Request : verdict[r] = "waiting" ~> verdict[r] # "waiting"

\* An interface that approves in the callback approves ("Auto-approve
\* enabled, resolving immediately"): the request does not end in a timeout.
ImmediateIsHeard == \A r \in Immediate : verdict[r] # "timedOut"
=============================================================================
