------------------------ MODULE ApprovalQueueProofs -------------------------
(***************************************************************************)
(* For every set of requests, with ids reused in any way and interfaces    *)
(* that answer inside their callback: the maps of the queue agree with the *)
(* requests that block, and a verdict is that of the request's own dialog. *)
(***************************************************************************)
EXTENDS ApprovalQueue, TLAPS

\* An entry is under the id of its own request.
EntryIsOwn == \A i \in Ids : pending[i] # None => Id[pending[i]] = i

\* A request is asked about once it enters the queue, and not before.
AskedIffEntered ==
  \A r \in Request : dialog[r] = "none" <=> verdict[r] = "none"

IInv == QueueTypeOK /\ QueueConsistent /\ EntryIsOwn /\ AskedIffEntered /\ OwnVerdict

USE NoneAssumption

\* An empty queue agrees with itself.
LEMMA InitIInv == QueueInit => IInv
  BY DEF QueueInit, IInv, QueueTypeOK, QueueConsistent, EntryIsOwn, AskedIffEntered,
         OwnVerdict, Ids, Verdicts, Dialogs

\* Types, maps and blocked requests stay in step.
LEMMA MapsStep ==
  IInv /\ [QueueNext]_queueVars
    => QueueTypeOK' /\ QueueConsistent' /\ EntryIsOwn' /\ AskedIffEntered'
<1> SUFFICES ASSUME IInv, [QueueNext]_queueVars
             PROVE  QueueTypeOK' /\ QueueConsistent' /\ EntryIsOwn' /\ AskedIffEntered'
  OBVIOUS
<1> USE DEF IInv, QueueTypeOK, QueueConsistent, EntryIsOwn, AskedIffEntered, Verdicts, Dialogs
<1>0. \A r \in Request : Id[r] \in Ids
  BY DEF Ids
<1>1. CASE UNCHANGED queueVars
  BY <1>1 DEF queueVars
<1>2. ASSUME NEW r \in Request, AskUser(r)
      PROVE  QueueTypeOK' /\ QueueConsistent' /\ EntryIsOwn' /\ AskedIffEntered'
  BY <1>0, <1>2 DEF AskUser, Enqueue
<1>3. ASSUME NEW r \in Request, AutoApprove(r)
      PROVE  QueueTypeOK' /\ QueueConsistent' /\ EntryIsOwn' /\ AskedIffEntered'
  BY <1>0, <1>3 DEF AutoApprove
<1>4. ASSUME NEW r \in Request, Decide(r)
      PROVE  QueueTypeOK' /\ QueueConsistent' /\ EntryIsOwn' /\ AskedIffEntered'
  BY <1>0, <1>4 DEF Decide, Release
<1>5. ASSUME NEW i \in Ids, Expire(i)
      PROVE  QueueTypeOK' /\ QueueConsistent' /\ EntryIsOwn' /\ AskedIffEntered'
  BY <1>0, <1>5 DEF Expire, Release
<1>6. CASE CleanupAll
  BY <1>0, <1>6 DEF CleanupAll
<1> QED
  BY <1>1, <1>2, <1>3, <1>4, <1>5, <1>6 DEF QueueNext, Queue

\* A request whose id is its own is released by its own dialog only.
LEMMA VerdictStep == IInv /\ [QueueNext]_queueVars => OwnVerdict'
<1> SUFFICES ASSUME IInv, [QueueNext]_queueVars PROVE OwnVerdict'
  OBVIOUS
<1> SUFFICES ASSUME NEW q \in Request, \A p \in Request \ {q} : Id[p] # Id[q]
             PROVE  /\ verdict'[q] = "approved" => dialog'[q] = "yes"
                    /\ verdict'[q] = "denied" => dialog'[q] = "no"
  BY DEF OwnVerdict
<1> USE DEF IInv, QueueTypeOK, OwnVerdict, EntryIsOwn, QueueConsistent, AskedIffEntered,
            Verdicts, Dialogs
<1>0. \A r \in Request : Id[r] \in Ids
  BY DEF Ids
<1>1. CASE UNCHANGED queueVars
  BY <1>1 DEF queueVars
<1>2. ASSUME NEW r \in Request, AskUser(r)
      PROVE  /\ verdict'[q] = "approved" => dialog'[q] = "yes"
             /\ verdict'[q] = "denied" => dialog'[q] = "no"
  BY <1>2 DEF AskUser, Enqueue
<1>3. ASSUME NEW r \in Request, AutoApprove(r)
      PROVE  /\ verdict'[q] = "approved" => dialog'[q] = "yes"
             /\ verdict'[q] = "denied" => dialog'[q] = "no"
  BY <1>0, <1>3 DEF AutoApprove
<1>4. ASSUME NEW r \in Request, Decide(r)
      PROVE  /\ verdict'[q] = "approved" => dialog'[q] = "yes"
             /\ verdict'[q] = "denied" => dialog'[q] = "no"
  BY <1>0, <1>4 DEF Decide, Release
<1>5. ASSUME NEW i \in Ids, Expire(i)
      PROVE  /\ verdict'[q] = "approved" => dialog'[q] = "yes"
             /\ verdict'[q] = "denied" => dialog'[q] = "no"
  BY <1>5 DEF Expire, Release
<1>6. CASE CleanupAll
  BY <1>6 DEF CleanupAll
<1> QED
  BY <1>1, <1>2, <1>3, <1>4, <1>5, <1>6 DEF QueueNext, Queue

\* So the invariant holds in every state of the queue.
LEMMA IInvAlways == QueueSpec => []IInv
<1>1. IInv /\ [QueueNext]_queueVars => IInv'
  BY MapsStep, VerdictStep DEF IInv
<1> QED
  BY <1>1, InitIInv, PTL DEF QueueSpec

\* The variables of the queue have their types.
THEOREM QueueTypeCorrect == QueueSpec => []QueueTypeOK
<1>1. IInv => QueueTypeOK
  BY DEF IInv
<1> QED
  BY <1>1, IInvAlways, PTL

\* A request blocks exactly while its own id leads to it and its timer runs,
\* however ids are reused.
THEOREM MapsAgree == QueueSpec => []QueueConsistent
<1>1. IInv => QueueConsistent
  BY DEF IInv
<1> QED
  BY <1>1, IInvAlways, PTL

\* A request with an id of its own gets the verdict of its own dialog.
THEOREM VerdictCorrect == QueueSpec => []OwnVerdict
<1>1. IInv => OwnVerdict
  BY DEF IInv
<1> QED
  BY <1>1, IInvAlways, PTL

\* Every request that blocks is released, if not by the user then by its own
\* timer, however ids are reused: no other request can take its timer away
\* without releasing it.
THEOREM LivenessCorrect == QueueSpec => Released
<1> SUFFICES ASSUME NEW r \in Request, NEW i \in Ids, i = Id[r]
             PROVE  QueueSpec => (verdict[r] = "waiting" ~> verdict[r] # "waiting")
  BY DEF Released, Ids
<1>1. QueueSpec => []<>(i \notin armed) \/ []<><<Expire(i)>>_queueVars
  BY DEF QueueSpec, TimerFires
<1>2. IInv /\ ~(verdict[r] # "waiting") => ~(i \notin armed)
  BY DEF IInv, QueueConsistent
<1>3. IInv /\ ~(verdict[r] # "waiting") /\ Expire(i) => (verdict[r] # "waiting")'
  BY DEF IInv, QueueTypeOK, QueueConsistent, Expire, Release
<1> QED
  BY <1>1, <1>2, <1>3, IInvAlways, PTL
=============================================================================
