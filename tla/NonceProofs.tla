---------------------------- MODULE NonceProofs ----------------------------
(* Proofs about NonceSend, for every set of requests and uploads and every
   number of failures, crashes and expiries.                                 *)
EXTENDS NonceSend, FiniteSetTheorems, TLAPS

(* A request between its claim and its answer. *)
Claiming(r) == pc[r] \in {"check", "move", "release", "publish"}

(* Sent and not forgotten. *)
Remembered == incoming \ forgotten

(* Nothing failed and no upload expired. *)
Undisturbed == faults + crashes = 0 /\ pruned = {}

(* What a request has done by each of its steps. *)
Progress ==
    \A r \in Requests :
        /\ r \in incoming => built[r] = files /\ pc[r] \in {"publish", "done"}
        /\ pc[r] = "publish" => r \in incoming
        /\ answer[r] \in Requests => answer[r] \in incoming /\ pc[r] = "done"

(* The claim is exclusive and too young to be pruned ... *)
Exclusive ==
    /\ \A r, s \in Requests : Claiming(r) /\ Claiming(s) => r = s
    /\ \A r \in Requests : Claiming(r) => nonce = Empty /\ age = "fresh"

(* ... and the one message that is remembered has its id in the nonce file, or
   a claimer about to write it there. *)
Recorded ==
    /\ nonce \in Requests => nonce \in incoming
    /\ \A r \in Remembered : nonce = r \/ pc[r] = "publish"

(* What the claimer has checked stays staged until it has moved it. *)
Kept == Undisturbed =>
    /\ destroyed = {}
    /\ \A r \in Requests : pc[r] = "move" => files \subseteq staged \cup built[r]

IInv == TypeOK /\ Progress /\ Exclusive /\ Recorded /\ Kept

-----------------------------------------------------------------------------
(* The steps of a request. *)
LEMMA RequestStep == ASSUME IInv, NEW r \in Requests, Step(r) PROVE IInv'
<1> USE AnswersAssumption, BoundsAssumption DEF IInv, TypeOK, Goto, Answer,
      disk, threads, history, env
<1>1. CASE Claim(r)
  <2>1. TypeOK'
    BY <1>1 DEF Claim
  <2>2. Progress'
    BY <1>1 DEF Claim, Progress
  <2>3. Exclusive'
    BY <1>1 DEF Claim, Exclusive, Claiming, Absent, Empty
  <2>4. Recorded'
    BY <1>1 DEF Claim, Recorded, Remembered, Progress, Exclusive, Claiming
  <2>5. Kept'
    BY <1>1 DEF Claim, Kept, Undisturbed, Exclusive, Claiming
  <2> QED
    BY <2>1, <2>2, <2>3, <2>4, <2>5
<1>2. CASE Wait(r)
  <2>1. TypeOK'
    BY <1>2 DEF Wait
  <2>2. Progress'
    BY <1>2 DEF Wait, Progress
  <2>3. Exclusive'
    BY <1>2 DEF Wait, Exclusive, Claiming
  <2>4. Recorded'
    BY <1>2 DEF Wait, Recorded, Remembered, Progress, Exclusive, Claiming
  <2>5. Kept'
    BY <1>2 DEF Wait, Kept, Undisturbed, Exclusive, Claiming
  <2> QED
    BY <2>1, <2>2, <2>3, <2>4, <2>5
<1>3. CASE AwaitAnswer(r)
  <2>1. TypeOK'
    BY <1>3 DEF AwaitAnswer, Errors
  <2>2. Progress'
    BY <1>3 DEF AwaitAnswer, Progress, Recorded, Errors
  <2>3. Exclusive'
    BY <1>3 DEF AwaitAnswer, Exclusive, Claiming
  <2>4. Recorded'
    BY <1>3 DEF AwaitAnswer, Recorded, Remembered, Progress, Exclusive,
      Claiming
  <2>5. Kept'
    BY <1>3 DEF AwaitAnswer, Kept, Undisturbed, Exclusive, Claiming
  <2> QED
    BY <2>1, <2>2, <2>3, <2>4, <2>5
<1>4. CASE AwaitTimeout(r)
  <2>1. TypeOK'
    BY <1>4 DEF AwaitTimeout, Errors
  <2>2. Progress'
    BY <1>4 DEF AwaitTimeout, Progress, Errors
  <2>3. Exclusive'
    BY <1>4 DEF AwaitTimeout, Exclusive, Claiming
  <2>4. Recorded'
    BY <1>4 DEF AwaitTimeout, Recorded, Remembered, Progress, Exclusive,
      Claiming
  <2>5. Kept'
    BY <1>4 DEF AwaitTimeout, Kept, Undisturbed, Exclusive, Claiming
  <2> QED
    BY <2>1, <2>2, <2>3, <2>4, <2>5
<1>5. CASE Check(r)
  <2>1. TypeOK'
    BY <1>5 DEF Check, Errors
  <2>2. Progress'
    BY <1>5 DEF Check, Progress, Errors
  <2>3. Exclusive'
    BY <1>5 DEF Check, Exclusive, Claiming
  <2>4. Recorded'
    BY <1>5 DEF Check, Recorded, Remembered, Progress, Exclusive, Claiming
  <2>5. Kept'
    BY <1>5 DEF Check, Kept, Undisturbed, Exclusive, Claiming
  <2> QED
    BY <2>1, <2>2, <2>3, <2>4, <2>5
<1>6. CASE Spool(r)
  <2>1. TypeOK'
    BY <1>6 DEF Spool
  <2>2. Progress'
    BY <1>6 DEF Spool, Progress
  <2>3. Exclusive'
    BY <1>6 DEF Spool, Exclusive, Claiming
  <2>4. Recorded'
    BY <1>6 DEF Spool, Recorded, Remembered, Progress, Exclusive, Claiming
  <2>5. Kept'
    BY <1>6 DEF Spool, Kept, Undisturbed, Exclusive, Claiming
  <2> QED
    BY <2>1, <2>2, <2>3, <2>4, <2>5
<1>7. CASE Release(r)
  <2>1. TypeOK'
    BY <1>7 DEF Release
  <2>2. Progress'
    BY <1>7 DEF Release, Progress
  <2>3. Exclusive'
    BY <1>7 DEF Release, Exclusive, Claiming
  <2>4. Recorded'
    BY <1>7 DEF Release, Recorded, Remembered, Progress, Exclusive, Claiming
  <2>5. Kept'
    BY <1>7 DEF Release, Kept, Undisturbed, Exclusive, Claiming
  <2> QED
    BY <2>1, <2>2, <2>3, <2>4, <2>5
<1>8. CASE Publish(r)
  <2>1. TypeOK'
    BY <1>8 DEF Publish
  <2>2. Progress'
    BY <1>8 DEF Publish, Progress
  <2>3. Exclusive'
    BY <1>8 DEF Publish, Exclusive, Claiming
  <2>4. Recorded'
    BY <1>8 DEF Publish, Recorded, Remembered, Progress, Exclusive, Claiming
  <2>5. Kept'
    BY <1>8 DEF Publish, Kept, Undisturbed, Exclusive, Claiming
  <2> QED
    BY <2>1, <2>2, <2>3, <2>4, <2>5
<1>9. ASSUME NEW f \in Fids, Move(r, f) PROVE IInv'
  <2>1. TypeOK'
    BY <1>9 DEF Move
  <2>2. Progress'
    BY <1>9 DEF Move, Progress
  <2>3. Exclusive'
    BY <1>9 DEF Move, Exclusive, Claiming
  <2>4. Recorded'
    BY <1>9 DEF Move, Recorded, Remembered, Progress, Exclusive, Claiming
  <2>5. Kept'
    BY <1>9 DEF Move, Kept, Undisturbed, Exclusive, Claiming
  <2> QED
    BY <2>1, <2>2, <2>3, <2>4, <2>5
<1>10. ASSUME NEW f \in Fids, MoveGone(r, f) PROVE IInv'
  <2>1. TypeOK'
    BY <1>10 DEF MoveGone, Abort, Errors
  <2>2. Progress'
    BY <1>10 DEF MoveGone, Abort, Progress, Errors
  <2>3. Exclusive'
    BY <1>10 DEF MoveGone, Abort, Exclusive, Claiming
  <2>4. Recorded'
    BY <1>10 DEF MoveGone, Abort, Recorded, Remembered, Progress, Exclusive,
      Claiming
  <2>5. Kept'
    BY <1>10 DEF MoveGone, Abort, Kept, Undisturbed, Exclusive, Claiming
  <2> QED
    BY <2>1, <2>2, <2>3, <2>4, <2>5
<1> QED
  BY <1>1, <1>2, <1>3, <1>4, <1>5, <1>6, <1>7, <1>8, <1>9, <1>10 DEF Step

(* Its disk failures. *)
LEMMA FailureStep == ASSUME IInv, NEW r \in Requests, DiskFails(r) PROVE IInv'
<1> USE AnswersAssumption, BoundsAssumption DEF IInv, TypeOK, Goto, Answer,
      disk, threads, history, env
<1>1. CASE BuildFails(r)
  <2>1. TypeOK'
    BY <1>1 DEF BuildFails, Fault, Errors
  <2>2. Progress'
    BY <1>1 DEF BuildFails, Fault, Progress, Errors
  <2>3. Exclusive'
    BY <1>1 DEF BuildFails, Fault, Exclusive, Claiming
  <2>4. Recorded'
    BY <1>1 DEF BuildFails, Fault, Recorded, Remembered, Progress,
      Exclusive, Claiming
  <2>5. Kept'
    BY <1>1 DEF BuildFails, Fault, Kept, Undisturbed, Exclusive, Claiming
  <2> QED
    BY <2>1, <2>2, <2>3, <2>4, <2>5
<1>2. CASE SpoolFails(r)
  <2>1. TypeOK'
    BY <1>2 DEF SpoolFails, Abort, Fault, Errors
  <2>2. Progress'
    BY <1>2 DEF SpoolFails, Abort, Fault, Progress, Errors
  <2>3. Exclusive'
    BY <1>2 DEF SpoolFails, Abort, Fault, Exclusive, Claiming
  <2>4. Recorded'
    BY <1>2 DEF SpoolFails, Abort, Fault, Recorded, Remembered, Progress,
      Exclusive, Claiming
  <2>5. Kept'
    BY <1>2 DEF SpoolFails, Abort, Fault, Kept, Undisturbed, Exclusive,
      Claiming
  <2> QED
    BY <2>1, <2>2, <2>3, <2>4, <2>5
<1>3. CASE PublishFails(r)
  <2>1. TypeOK'
    BY <1>3 DEF PublishFails, Fault
  <2>2. Progress'
    BY <1>3 DEF PublishFails, Fault, Progress
  <2>3. Exclusive'
    BY <1>3 DEF PublishFails, Fault, Exclusive, Claiming
  <2>4. Recorded'
    BY <1>3 DEF PublishFails, Fault, Recorded, Remembered, Progress,
      Exclusive, Claiming
  <2>5. Kept'
    BY <1>3 DEF PublishFails, Fault, Kept, Undisturbed, Exclusive, Claiming
  <2> QED
    BY <2>1, <2>2, <2>3, <2>4, <2>5
<1>4. ASSUME NEW f \in Fids, MoveFails(r, f) PROVE IInv'
  <2>1. TypeOK'
    BY <1>4 DEF MoveFails, Abort, Fault, Errors
  <2>2. Progress'
    BY <1>4 DEF MoveFails, Abort, Fault, Progress, Errors
  <2>3. Exclusive'
    BY <1>4 DEF MoveFails, Abort, Fault, Exclusive, Claiming
  <2>4. Recorded'
    BY <1>4 DEF MoveFails, Abort, Fault, Recorded, Remembered, Progress,
      Exclusive, Claiming
  <2>5. Kept'
    BY <1>4 DEF MoveFails, Abort, Fault, Kept, Undisturbed, Exclusive,
      Claiming
  <2> QED
    BY <2>1, <2>2, <2>3, <2>4, <2>5
<1> QED
  BY <1>1, <1>2, <1>3, <1>4 DEF DiskFails

(* Time, the janitor and the crash. *)
LEMMA SystemStep == ASSUME IInv, GrowOld \/ PruneNonce \/ Crash \/ \E f \in Fids : PruneStaged(f) PROVE IInv'
<1> USE AnswersAssumption, BoundsAssumption DEF IInv, TypeOK, Goto, Answer,
      disk, threads, history, env
<1>1. CASE GrowOld
  <2>1. TypeOK'
    BY <1>1 DEF GrowOld, Running
  <2>2. Progress'
    BY <1>1 DEF GrowOld, Progress, Running
  <2>3. Exclusive'
    BY <1>1 DEF GrowOld, Exclusive, Claiming, Running
  <2>4. Recorded'
    BY <1>1 DEF GrowOld, Recorded, Remembered, Progress, Exclusive,
      Claiming, Running
  <2>5. Kept'
    BY <1>1 DEF GrowOld, Kept, Undisturbed, Exclusive, Claiming, Running
  <2> QED
    BY <2>1, <2>2, <2>3, <2>4, <2>5
<1>2. CASE PruneNonce
  <2>1. TypeOK'
    BY <1>2 DEF PruneNonce
  <2>2. Progress'
    BY <1>2 DEF PruneNonce, Progress
  <2>3. Exclusive'
    BY <1>2 DEF PruneNonce, Exclusive, Claiming
  <2>4. Recorded'
    BY <1>2 DEF PruneNonce, Recorded, Remembered, Progress, Exclusive,
      Claiming
  <2>5. Kept'
    BY <1>2 DEF PruneNonce, Kept, Undisturbed, Exclusive, Claiming
  <2> QED
    BY <2>1, <2>2, <2>3, <2>4, <2>5
<1>3. CASE Crash
  <2>1. TypeOK'
    BY <1>3 DEF Crash, Running, Errors
  <2>2. Progress'
    BY <1>3 DEF Crash, Progress, Running, Errors
  <2>3. Exclusive'
    BY <1>3 DEF Crash, Exclusive, Claiming, Running
  <2>4. Recorded'
    BY <1>3 DEF Crash, Recorded, Remembered, Progress, Exclusive, Claiming,
      Running
  <2>5. Kept'
    BY <1>3 DEF Crash, Kept, Undisturbed, Exclusive, Claiming, Running
  <2> QED
    BY <2>1, <2>2, <2>3, <2>4, <2>5
<1>4. ASSUME NEW f \in Fids, PruneStaged(f) PROVE IInv'
  <2>1. TypeOK'
    BY <1>4 DEF PruneStaged
  <2>2. Progress'
    BY <1>4 DEF PruneStaged, Progress
  <2>3. Exclusive'
    BY <1>4 DEF PruneStaged, Exclusive, Claiming
  <2>4. Recorded'
    BY <1>4 DEF PruneStaged, Recorded, Remembered, Progress, Exclusive,
      Claiming
  <2>5. Kept'
    BY <1>4 DEF PruneStaged, Kept, Undisturbed, Exclusive, Claiming
  <2> QED
    BY <2>1, <2>2, <2>3, <2>4, <2>5
<1> QED
  BY <1>1, <1>2, <1>3, <1>4

LEMMA InitIInv == Init => IInv
BY BoundsAssumption, AnswersAssumption DEF Init, IInv, TypeOK, Progress,
   Exclusive, Claiming, Recorded, Remembered, Kept, Undisturbed

LEMMA StutterStep == IInv /\ UNCHANGED vars => IInv'
BY DEF vars, disk, threads, history, env, IInv, TypeOK, Progress, Exclusive,
       Claiming, Recorded, Remembered, Kept, Undisturbed

(* The inductive invariant holds of every reachable state. *)
THEOREM NonceInvariance == Spec => []IInv
<1>1. IInv /\ [Next]_vars => IInv'
  BY RequestStep, FailureStep, SystemStep, StutterStep DEF Next
<1> QED
  BY InitIInv, <1>1, PTL DEF Spec

(* Every variable keeps its type. *)
THEOREM NonceTypeCorrect == Spec => []TypeOK
BY NonceInvariance, PTL DEF IInv

-----------------------------------------------------------------------------
(* Of the messages sent under a nonce at most one is not forgotten, however
   many requests retry it: a second one could only have been sent under a claim,
   and there is no claim while the id of the first is in the file. *)
THEOREM NoDuplicates == Spec => []AtMostOnce
<1>1. ASSUME IInv PROVE AtMostOnce
  <2>1. \A r, s \in Remembered : r = s
    BY <1>1, AnswersAssumption
    DEF IInv, TypeOK, Recorded, Remembered, Exclusive, Claiming
  <2>2. CASE Remembered = {}
    BY <2>2, FS_EmptySet DEF AtMostOnce, Remembered
  <2>3. CASE Remembered # {}
    <3>1. PICK r : Remembered = {r}
      BY <2>1, <2>3
    <3> QED
      BY <3>1, FS_Singleton DEF AtMostOnce, Remembered
  <2> QED
    BY <2>2, <2>3
<1> QED
  BY <1>1, NonceInvariance, PTL

(* 200 with an id: the message is in incoming/ with every attachment. *)
THEOREM AcknowledgedMeansSent == Spec => []AcknowledgedIsSent
<1>1. IInv => AcknowledgedIsSent
  BY DEF IInv, TypeOK, Progress, AcknowledgedIsSent
<1> QED
  BY <1>1, NonceInvariance, PTL

(* A list with a bad id costs no upload, unless a rename fails or an upload
   expires while the message is built. *)
THEOREM BadIdHarmless == Spec => []BadIdDestroysNothing
<1>1. IInv => BadIdDestroysNothing
  BY DEF IInv, Kept, Undisturbed, BadIdDestroysNothing
<1> QED
  BY <1>1, NonceInvariance, PTL
=============================================================================
