--------------------------- MODULE RerankerProofs ---------------------------
(***************************************************************************)
(* Theorems about Reranker for any number of callers and any bound on the  *)
(* queue: type correctness, that a set busy flag always has a job that     *)
(* will clear it, and that the model is on the device the circuit breaker  *)
(* has chosen.                                                             *)
(***************************************************************************)
EXTENDS Reranker, TLAPS

-----------------------------------------------------------------------------
(* Type correctness.                                                       *)

LEMMA InitType == Init => TypeOK
<1> SUFFICES ASSUME Init PROVE TypeOK
  OBVIOUS
<1>1. settings.original \in {"gpu", "cpu"}
  BY DEF Init, Settings
<1>2. pc \in [Callers -> CallerPCs]
  BY DEF Init, CallerPCs
<1>3. queue \in Seq(Jobs)
  BY DEF Init
<1>4. QED
  BY <1>1, <1>2, <1>3 DEF Init, TypeOK, WorkerPCs

LEMMA CallerType ==
    ASSUME TypeOK, NEW c \in Callers,
           CheckBusy(c) \/ CallerStep(c)
    PROVE  TypeOK'
<1> USE DEF TypeOK, Jobs, CallerPCs, Goto, callerVars, deviceVars
<1>1. CASE CheckBusy(c)
  BY <1>1 DEF CheckBusy
<1>2. CASE SetBusy(c)
  BY <1>2 DEF SetBusy
<1>3. CASE Submit(c)
  <2>1. queue' \in Seq(Jobs)
    BY <1>3 DEF Submit
  <2>2. QED
    BY <1>3, <2>1 DEF Submit
<1>4. CASE AddCallback(c)
  BY <1>4 DEF AddCallback
<1>5. CASE ReturnSkipped(c)
  BY <1>5 DEF ReturnSkipped
<1>6. CASE Return(c)
  BY <1>6 DEF Return
<1>7. CASE GiveUp(c)
  <2>1. queue' \in Seq(Jobs)
    BY <1>7 DEF GiveUp
  <2>2. QED
    BY <1>7, <2>1 DEF GiveUp
<1>8. QED
  BY <1>1, <1>2, <1>3, <1>4, <1>5, <1>6, <1>7 DEF CallerStep

\* What the end of a job does to the types.
LEMMA FinishType ==
    ASSUME TypeOK, Finish
    PROVE  /\ settings' \in Settings /\ limited' \in SUBSET Callers
           /\ pc' \in [Callers -> CallerPCs] /\ busy' \in BOOLEAN
           /\ queue' \in Seq(Jobs) /\ running' \in Jobs \cup {Nobody}
           /\ done' \in SUBSET Callers
           /\ worker' \in WorkerPCs
           /\ eager' \in {"off", "start", "loading"}
BY DEF TypeOK, Finish, WorkerPCs

LEMMA WorkerType ==
    ASSUME TypeOK, WorkerStep \/ Hang
    PROVE  TypeOK'
<1> USE DEF TypeOK, callerVars, deviceVars
<1>1. CASE Take
  BY <1>1 DEF Take, Jobs, WorkerPCs
<1>2. CASE ApiAnswers
  BY <1>2, FinishType DEF ApiAnswers
<1>3. CASE ClearBusy
  BY <1>3 DEF ClearBusy, WorkerPCs
<1>4. CASE TryRecovery
  BY <1>4 DEF TryRecovery, WorkerPCs, Settings
<1>5. CASE UseLoaded
  BY <1>5 DEF UseLoaded, WorkerPCs
<1>6. CASE StartLoad
  BY <1>6 DEF StartLoad, WorkerPCs
<1>7. CASE Loaded
  BY <1>7 DEF Loaded, WorkerPCs
<1>8. CASE LoadFails
  BY <1>8, FinishType DEF LoadFails, WorkerPCs
<1>9. CASE Predicted
  BY <1>9, FinishType DEF Predicted, ClearedFailure
<1>10. CASE PredictFails
  BY <1>10, FinishType DEF PredictFails, WorkerPCs
<1>11. CASE FallBackToCpu
  BY <1>11 DEF FallBackToCpu, WorkerPCs
<1>12. CASE Hang
  BY <1>12 DEF Hang, WorkerPCs
<1>13. QED
  BY <1>1, <1>2, <1>3, <1>4, <1>5, <1>6, <1>7, <1>8, <1>9, <1>10, <1>11, <1>12
  DEF WorkerStep

LEMMA EagerType ==
    ASSUME TypeOK, EagerStart \/ EagerStep
    PROVE  TypeOK'
BY DEF TypeOK, callerVars, deviceVars, EagerStart, EagerStep, EagerLoad, EagerEnd

LEMMA TypeStep ==
    ASSUME TypeOK, [Next]_vars
    PROVE  TypeOK'
<1>1. CASE UNCHANGED vars
  BY <1>1 DEF vars, callerVars, deviceVars, TypeOK
<1>2. QED
  BY <1>1, CallerType, WorkerType, EagerType DEF Next

\* Every variable has its type in every reachable state.
THEOREM RerankerTypeCorrect == Spec => []TypeOK
BY InitType, TypeStep, PTL DEF Spec

-----------------------------------------------------------------------------
(* The busy flag.  BusyHasOwner is not inductive: when a caller adds its   *)
(* callback to a job that is not finished, the flag stays set and the      *)
(* owner is that job, which JobKept finds in the queue or with the worker. *)

JobKept ==
    \A c \in Callers :
       pc[c] \in {"submitted", "waiting"} /\ c \notin done =>
          running = c \/ \E i \in DOMAIN queue : queue[i] = c

\* The worker thread has a job exactly while it is at one.
WorkerHasJob == running = Nobody <=> worker \in {"idle", "callback"}

FlagInv == TypeOK /\ JobKept /\ WorkerHasJob /\ BusyHasOwner

LEMMA InitFlag == Init => FlagInv
BY InitType DEF Init, FlagInv, JobKept, WorkerHasJob, BusyHasOwner

LEMMA CallerJobKept ==
    ASSUME TypeOK, JobKept, NEW c \in Callers,
           CheckBusy(c) \/ CallerStep(c)
    PROVE  JobKept'
<1> USE DEF TypeOK, JobKept, Goto, CallerPCs
<1> SUFFICES ASSUME NEW d \in Callers,
                    pc'[d] \in {"submitted", "waiting"}, d \notin done'
             PROVE  running' = d \/ \E i \in DOMAIN queue' : queue'[i] = d
  OBVIOUS
<1>1. CASE CheckBusy(c)
  BY <1>1 DEF CheckBusy
<1>2. CASE SetBusy(c)
  BY <1>2 DEF SetBusy
<1>3. CASE Submit(c)
  <2>1. queue \in Seq(Jobs) /\ queue' = Append(queue, c)
    BY <1>3 DEF Submit
  <2>2. CASE d = c
    <3>1. Len(queue) + 1 \in DOMAIN queue' /\ queue'[Len(queue) + 1] = c
      BY <2>1
    <3>2. QED
      BY <3>1, <2>2
  <2>3. CASE d # c
    <3>1. running = d \/ \E i \in DOMAIN queue : queue[i] = d
      BY <1>3, <2>3 DEF Submit
    <3>2. \A i \in DOMAIN queue : i \in DOMAIN queue' /\ queue'[i] = queue[i]
      BY <2>1
    <3>3. QED
      BY <1>3, <3>1, <3>2 DEF Submit
  <2>4. QED
    BY <2>2, <2>3
<1>4. CASE AddCallback(c)
  BY <1>4 DEF AddCallback
<1>5. CASE ReturnSkipped(c)
  BY <1>5 DEF ReturnSkipped
<1>6. CASE Return(c)
  BY <1>6 DEF Return
<1>7. CASE GiveUp(c)
  <2>1. d # c
    BY <1>7 DEF GiveUp
  <2>2. running = d \/ \E i \in DOMAIN queue : queue[i] = d
    BY <1>7, <2>1 DEF GiveUp
  <2>3. \A i \in DOMAIN queue : queue[i] = d => i \in DOMAIN queue' /\ queue'[i] = d
    BY <1>7, <2>1 DEF GiveUp
  <2>4. running = d => running' = d
    BY <1>7, <2>1 DEF GiveUp
  <2>5. QED
    BY <2>2, <2>3, <2>4
<1>8. QED
  BY <1>1, <1>2, <1>3, <1>4, <1>5, <1>6, <1>7 DEF CallerStep

\* A caller leaves the worker alone; at most its job is named Abandoned.
LEMMA CallerKeepsWorker ==
    ASSUME TypeOK, WorkerHasJob, NEW c \in Callers,
           CheckBusy(c) \/ CallerStep(c)
    PROVE  WorkerHasJob' /\ worker' = worker
           /\ (running' = Nobody <=> running = Nobody)
BY CallersAssumption
DEF WorkerHasJob, CheckBusy, CallerStep, ReturnSkipped, SetBusy, Submit,
    AddCallback, Return, GiveUp

LEMMA CallerOwner ==
    ASSUME FlagInv, NEW c \in Callers,
           CheckBusy(c) \/ CallerStep(c)
    PROVE  BusyHasOwner'
<1> USE DEF FlagInv, TypeOK, Goto, CallerPCs, BusyHasOwner
<1>0. worker' = worker /\ (running' = Nobody <=> running = Nobody)
  BY CallerKeepsWorker
<1> SUFFICES ASSUME busy' PROVE BusyHasOwner'
  OBVIOUS
<1>1. CASE CheckBusy(c)
  <2>1. busy /\ queue' = queue /\ done' = done
    BY <1>1 DEF CheckBusy
  <2>2. \A d \in Callers : pc[d] \in {"flagged", "submitted"} => pc'[d] = pc[d]
    BY <1>1 DEF CheckBusy
  <2>3. QED
    BY <1>0, <2>1, <2>2
<1>2. CASE SetBusy(c)
  BY <1>2 DEF SetBusy
<1>3. CASE Submit(c)
  <2>1. queue \in Seq(Jobs) /\ queue' = Append(queue, c)
    BY <1>3 DEF Submit
  <2>2. queue' # <<>>
    BY <2>1
  <2>3. QED
    BY <2>2
<1>4. CASE AddCallback(c)
  <2>1. pc[c] = "submitted" /\ c \notin done /\ queue' = queue
    BY <1>4 DEF AddCallback
  <2>2. running = c \/ \E i \in DOMAIN queue : queue[i] = c
    BY <2>1 DEF JobKept
  <2>3. queue # <<>> \/ running # Nobody
    BY <2>2, CallersAssumption
  <2>4. QED
    BY <1>0, <2>1, <2>3
<1>5. CASE ReturnSkipped(c)
  <2>1. busy /\ queue' = queue /\ done' = done
    BY <1>5 DEF ReturnSkipped
  <2>2. \A d \in Callers : pc[d] \in {"flagged", "submitted"} => pc'[d] = pc[d]
    BY <1>5 DEF ReturnSkipped
  <2>3. QED
    BY <1>0, <2>1, <2>2
<1>6. CASE Return(c)
  <2>1. busy /\ queue' = queue /\ done' = done \ {c}
    BY <1>6 DEF Return
  <2>2. \A d \in Callers : pc[d] \in {"flagged", "submitted"} =>
            pc'[d] = pc[d] /\ d # c
    BY <1>6 DEF Return
  <2>3. QED
    BY <1>0, <2>1, <2>2
<1>7. CASE GiveUp(c)
  <2>1. busy /\ done' = done
    BY <1>7 DEF GiveUp
  <2>2. \A d \in Callers : pc[d] \in {"flagged", "submitted"} => pc'[d] = pc[d]
    BY <1>7 DEF GiveUp
  <2>3. queue # <<>> => queue' # <<>>
    <3>1. DOMAIN queue' = DOMAIN queue
      BY <1>7 DEF GiveUp
    <3>2. QED
      BY <3>1
  <2>4. QED
    BY <1>0, <2>1, <2>2, <2>3
<1>8. QED
  BY <1>1, <1>2, <1>3, <1>4, <1>5, <1>6, <1>7 DEF CallerStep

LEMMA TakeFlag ==
    ASSUME FlagInv, Take
    PROVE  JobKept' /\ WorkerHasJob' /\ BusyHasOwner'
<1>1. queue \in Seq(Jobs) /\ queue # <<>> /\ running' = Head(queue)
      /\ queue' = Tail(queue) /\ pc' = pc /\ done' = done
      /\ running = Nobody
  BY DEF Take, FlagInv, TypeOK, WorkerHasJob
<1>2. running' # Nobody
  <2>1. Head(queue) \in Jobs
    BY <1>1
  <2>2. QED
    BY <1>1, <2>1, CallersAssumption DEF Jobs
<1>3. ASSUME NEW c \in Callers, NEW i \in DOMAIN queue, queue[i] = c
      PROVE  running' = c \/ \E k \in DOMAIN queue' : queue'[k] = c
  <2>1. CASE i = 1
    BY <1>1, <1>3, <2>1
  <2>2. CASE i # 1
    <3>1. i - 1 \in DOMAIN queue' /\ queue'[i - 1] = queue[i]
      BY <1>1, <2>2
    <3>2. QED
      BY <3>1, <1>3
  <2>3. QED
    BY <2>1, <2>2
<1>4. JobKept'
  BY <1>1, <1>3, CallersAssumption DEF FlagInv, JobKept
<1>5. WorkerHasJob'
  BY <1>2 DEF Take, WorkerHasJob
<1>6. QED
  BY <1>2, <1>4, <1>5 DEF BusyHasOwner

\* The end of a job leaves the flag to the callback, which the worker runs,
\* or the caller if it has not added it yet.
LEMMA FinishFlag ==
    ASSUME FlagInv, running # Nobody, Finish
    PROVE  JobKept' /\ WorkerHasJob' /\ BusyHasOwner'
<1>1. JobKept'
  BY CallersAssumption DEF FlagInv, JobKept, Finish
<1>2. WorkerHasJob'
  BY DEF WorkerHasJob, Finish
<1>3. BusyHasOwner'
  BY CallersAssumption DEF BusyHasOwner, Finish
<1>4. QED
  BY <1>1, <1>2, <1>3

LEMMA WorkerFlag ==
    ASSUME FlagInv, WorkerStep \/ Hang
    PROVE  JobKept' /\ WorkerHasJob' /\ BusyHasOwner'
<1>0. ASSUME UNCHANGED <<callerVars, running>>,
             worker \notin {"idle", "callback"}, worker' \notin {"idle", "callback"}
      PROVE  JobKept' /\ WorkerHasJob' /\ BusyHasOwner'
  BY <1>0 DEF FlagInv, JobKept, WorkerHasJob, BusyHasOwner, callerVars
<1>1. CASE Take
  BY <1>1, TakeFlag
<1>2. CASE ApiAnswers
  BY <1>2, FinishFlag DEF ApiAnswers, FlagInv, WorkerHasJob
<1>3. CASE ClearBusy
  BY <1>3 DEF ClearBusy, FlagInv, JobKept, WorkerHasJob, BusyHasOwner
<1>4. CASE TryRecovery
  BY <1>4, <1>0 DEF TryRecovery
<1>5. CASE UseLoaded
  BY <1>5, <1>0 DEF UseLoaded
<1>6. CASE StartLoad
  BY <1>6, <1>0 DEF StartLoad
<1>7. CASE Loaded
  BY <1>7, <1>0 DEF Loaded
<1>8. CASE LoadFails
  BY <1>8, <1>0, FinishFlag DEF LoadFails, FlagInv, WorkerHasJob
<1>9. CASE Predicted
  BY <1>9, FinishFlag DEF Predicted, FlagInv, WorkerHasJob
<1>10. CASE PredictFails
  BY <1>10, <1>0, FinishFlag DEF PredictFails, FlagInv, WorkerHasJob
<1>11. CASE FallBackToCpu
  BY <1>11, <1>0 DEF FallBackToCpu
<1>12. CASE Hang
  BY <1>12, <1>0 DEF Hang
<1>13. QED
  BY <1>1, <1>2, <1>3, <1>4, <1>5, <1>6, <1>7, <1>8, <1>9, <1>10, <1>11, <1>12
  DEF WorkerStep

LEMMA EagerFlag ==
    ASSUME FlagInv, EagerStart \/ EagerStep \/ UNCHANGED vars
    PROVE  JobKept' /\ WorkerHasJob' /\ BusyHasOwner'
BY DEF FlagInv, JobKept, WorkerHasJob, BusyHasOwner, vars, callerVars,
       EagerStart, EagerStep, EagerLoad, EagerEnd

\* A set busy flag always has a job that will clear it.
THEOREM FlagHasOwner == Spec => []BusyHasOwner
<1>1. FlagInv /\ [Next]_vars => FlagInv'
  <2> SUFFICES ASSUME FlagInv, [Next]_vars PROVE FlagInv'
    OBVIOUS
  <2>1. TypeOK'
    BY TypeStep DEF FlagInv
  <2>2. ASSUME NEW c \in Callers, CheckBusy(c) \/ CallerStep(c)
        PROVE  JobKept' /\ WorkerHasJob' /\ BusyHasOwner'
    BY <2>2, CallerJobKept, CallerKeepsWorker, CallerOwner DEF FlagInv
  <2>3. JobKept' /\ WorkerHasJob' /\ BusyHasOwner'
    BY <2>2, WorkerFlag, EagerFlag DEF Next
  <2>4. QED
    BY <2>1, <2>3 DEF FlagInv
<1>2. FlagInv => BusyHasOwner
  BY DEF FlagInv
<1>3. QED
  BY InitFlag, <1>1, <1>2, PTL DEF Spec

-----------------------------------------------------------------------------
(* Devices and the model.  The lock is what keeps the thread of the        *)
(* start-up from loading the model on a device the worker is leaving.      *)

LockOK ==
    /\ lock = "worker" <=> worker = "loading"
    /\ lock = "eager" <=> eager = "loading"

\* The GPU is never used by a program that was given the CPU.
DeviceInv ==
    /\ TypeOK /\ LockOK /\ ModelOnDevice /\ CpuHasReturn
    /\ settings.original = "cpu" => device = "cpu"

LEMMA DeviceStep ==
    ASSUME DeviceInv, [Next]_vars
    PROVE  DeviceInv'
<1> USE DEF DeviceInv, LockOK, ModelOnDevice, CpuHasReturn
<1>0. TypeOK'
  BY TypeStep
<1>1. ASSUME NEW c \in Callers, CheckBusy(c) \/ CallerStep(c)
      PROVE  DeviceInv'
  BY <1>0, <1>1
  DEF CheckBusy, CallerStep, ReturnSkipped, SetBusy, Submit, AddCallback,
      Return, GiveUp, deviceVars
<1>2. CASE WorkerStep
  <2>1. CASE Take \/ ApiAnswers \/ ClearBusy
    BY <1>0, <2>1 DEF Take, ApiAnswers, ClearBusy, Finish, deviceVars, TypeOK
  <2>2. CASE TryRecovery
    BY <1>0, <2>2 DEF TryRecovery, TypeOK
  <2>3. CASE UseLoaded \/ StartLoad
    BY <1>0, <2>3 DEF UseLoaded, StartLoad, TypeOK
  <2>4. CASE Loaded
    BY <1>0, <2>4 DEF Loaded, TypeOK
  <2>5. CASE LoadFails
    BY <1>0, <2>5 DEF LoadFails, Finish, TypeOK
  <2>6. CASE Predicted
    BY <1>0, <2>6 DEF Predicted, Finish, ClearedFailure, TypeOK, Settings
  <2>7. CASE PredictFails
    BY <1>0, <2>7 DEF PredictFails, Finish, TypeOK
  <2>8. CASE FallBackToCpu
    BY <1>0, <2>8 DEF FallBackToCpu, TypeOK
  <2>9. QED
    BY <1>2, <2>1, <2>2, <2>3, <2>4, <2>5, <2>6, <2>7, <2>8 DEF WorkerStep
<1>3. CASE Hang
  BY <1>0, <1>3 DEF Hang, deviceVars
<1>4. CASE EagerStart \/ EagerStep
  BY <1>0, <1>4 DEF EagerStart, EagerStep, EagerLoad, EagerEnd, deviceVars
<1>5. CASE UNCHANGED vars
  BY <1>0, <1>5 DEF vars, deviceVars
<1>6. QED
  BY <1>1, <1>2, <1>3, <1>4, <1>5 DEF Next

LEMMA DeviceInvariant == Spec => []DeviceInv
<1>1. Init => DeviceInv
  BY InitType DEF Init, DeviceInv, LockOK, ModelOnDevice, CpuHasReturn
<1>2. QED
  BY <1>1, DeviceStep, PTL DEF Spec

\* The model is on the device the circuit breaker has chosen, and so is the
\* one the worker predicts with.
THEOREM ModelFollowsDevice == Spec => []ModelOnDevice
<1>1. DeviceInv => ModelOnDevice
  BY DEF DeviceInv
<1>2. QED
  BY DeviceInvariant, <1>1, PTL

\* The program never stays on the CPU without a failure on record.
THEOREM CpuCanReturn == Spec => []CpuHasReturn
<1>1. DeviceInv => CpuHasReturn
  BY DEF DeviceInv
<1>2. QED
  BY DeviceInvariant, <1>1, PTL
=============================================================================
