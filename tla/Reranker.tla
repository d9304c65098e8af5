------------------------------ MODULE Reranker ------------------------------
(***************************************************************************)
(* The reranker of src/core/reranker.py: requests of several browser       *)
(* sessions share one worker thread behind a busy flag, each gives up      *)
(* after a timeout, and the worker moves the model between GPU and CPU     *)
(* while the thread that loads it at start-up may still be at it.          *)
(*                                                                         *)
(* Which documents come back is left out: a request ends with the answer   *)
(* of its job or with the documents as they were.                          *)
(***************************************************************************)
EXTENDS Naturals, Sequences

CONSTANTS
    Callers,    \* script threads of the browser sessions
    Nobody,     \* no job
    Abandoned,  \* a job whose caller has given up on it
    MaxQueue    \* bound on the jobs that wait for the worker

ASSUME CallersAssumption ==
    /\ Nobody \notin Callers /\ Abandoned \notin Callers /\ Nobody # Abandoned
ASSUME MaxQueueAssumption == MaxQueue \in Nat

VARIABLES
    settings,   \* what .env says; fixed while the program runs
    limited,    \* callers that found RERANKER_TIMEOUT_ENABLED set
    pc,         \* where each caller is in rerank_with_timeout
    busy,       \* _rerank_busy
    queue,      \* jobs in _rerank_executor, each named by its caller
    running,    \* the job its worker thread has taken
    done,       \* callers whose future is finished and not yet looked at
    worker,     \* where the worker thread is
    used,       \* device of the model the worker's call predicts with
    device,     \* CrossEncoderReranker.device
    model,      \* device _model is loaded on, "none" before
    gpuFailed,  \* _gpu_failure_time is set
    lock,       \* _singleton_lock, when held over more than one step
    eager       \* where the thread of eager_load_background is

callerVars == <<pc, busy, queue, done>>
deviceVars == <<used, device, model, gpuFailed, lock>>
vars == <<settings, limited, callerVars, running, worker, deviceVars, eager>>

-----------------------------------------------------------------------------
Jobs == Callers \cup {Abandoned}
Settings == [type : {"local", "cohere", "jina"}, external : BOOLEAN,
             original : {"gpu", "cpu"}]
CallerPCs == {"idle", "skipped", "checked", "flagged", "submitted", "waiting"}
WorkerPCs == {"idle", "api", "recover", "load", "loading", "predict", "failed",
              "hung", "callback"}

\* RerankerFactory.create: an external service only if the settings allow it.
IsLocal == ~(settings.type \in {"cohere", "jina"} /\ settings.external)

TypeOK ==
    /\ settings \in Settings /\ limited \in SUBSET Callers
    /\ pc \in [Callers -> CallerPCs] /\ busy \in BOOLEAN
    /\ queue \in Seq(Jobs) /\ running \in Jobs \cup {Nobody}
    /\ done \in SUBSET Callers
    /\ worker \in WorkerPCs /\ eager \in {"off", "start", "loading"}
    /\ device \in {"gpu", "cpu"}
    /\ {used, model} \subseteq {"none", "gpu", "cpu"}
    /\ gpuFailed \in BOOLEAN /\ lock \in {"free", "worker", "eager"}

Init ==
    /\ settings \in Settings /\ limited = {}
    /\ pc = [c \in Callers |-> "idle"] /\ busy = FALSE
    /\ queue = <<>> /\ running = Nobody /\ done = {}
    /\ worker = "idle" /\ eager = "off"
    /\ device = settings.original
    /\ used = "none" /\ model = "none"
    /\ gpuFailed = FALSE /\ lock = "free"

-----------------------------------------------------------------------------
(* A caller: rerank_with_timeout.                                          *)

Goto(c, where) == pc' = [pc EXCEPT ![c] = where]

\* While the flag is set no job is submitted.  Whether the wait has a limit is
\* a switch of the page that any session may turn (app.py, line 270).
CheckBusy(c) ==
    /\ pc[c] = "idle"
    /\ busy \/ Len(queue) < MaxQueue
    /\ Goto(c, IF busy THEN "skipped" ELSE "checked")
    /\ limited' \in {limited \ {c}, limited \cup {c}}
    /\ UNCHANGED <<settings, busy, queue, running, done, worker, deviceVars, eager>>

SetBusy(c) ==
    /\ pc[c] = "checked"
    /\ busy' = TRUE
    /\ Goto(c, "flagged")
    /\ UNCHANGED <<settings, limited, queue, running, done, worker, deviceVars, eager>>

Submit(c) ==
    /\ pc[c] = "flagged"
    /\ queue' = Append(queue, c)
    /\ Goto(c, "submitted")
    /\ UNCHANGED <<settings, limited, busy, running, done, worker, deviceVars, eager>>

\* Mutant: the callback of a finished future never runs.
AddCallbackLate(c) ==
    /\ pc[c] = "submitted"
    /\ Goto(c, "waiting")
    /\ UNCHANGED <<settings, limited, busy, queue, running, done, worker, deviceVars, eager>>

\* A callback added to a future that is finished runs at once.
AddCallback(c) ==
    /\ pc[c] = "submitted"
    /\ busy' = (busy /\ c \notin done)
    /\ Goto(c, "waiting")
    /\ UNCHANGED <<settings, limited, queue, running, done, worker, deviceVars, eager>>

\* _fallback: the documents as they were, at once.
ReturnSkipped(c) ==
    /\ pc[c] = "skipped"
    /\ Goto(c, "idle")
    /\ UNCHANGED <<settings, limited, busy, queue, running, done, worker, deviceVars, eager>>

\* The answer of the job, or its exception and the documents as they were.
Return(c) ==
    /\ pc[c] = "waiting" /\ c \in done
    /\ done' = done \ {c}
    /\ Goto(c, "idle")
    /\ UNCHANGED <<settings, limited, busy, queue, running, worker, deviceVars, eager>>

\* Mutant: only a job that is still queued is given up.
GiveUpQueued(c) ==
    /\ c \in limited /\ pc[c] = "waiting"
    /\ \E i \in DOMAIN queue : queue[i] = c
    /\ queue' = [i \in DOMAIN queue |-> IF queue[i] = c THEN Abandoned ELSE queue[i]]
    /\ Goto(c, "idle")
    /\ UNCHANGED <<settings, limited, busy, running, done, worker, deviceVars, eager>>

\* The thread cannot be stopped: the job stays where it is.
GiveUp(c) ==
    /\ c \in limited /\ pc[c] = "waiting" /\ c \notin done
    /\ queue' = [i \in DOMAIN queue |-> IF queue[i] = c THEN Abandoned ELSE queue[i]]
    /\ running' = IF running = c THEN Abandoned ELSE running
    /\ Goto(c, "idle")
    /\ UNCHANGED <<settings, limited, busy, done, worker, deviceVars, eager>>

-----------------------------------------------------------------------------
(* The worker thread of the executor.                                      *)

Take ==
    /\ worker = "idle" /\ queue # <<>>
    /\ running' = Head(queue) /\ queue' = Tail(queue)
    /\ worker' = IF IsLocal THEN "recover" ELSE "api"
    /\ UNCHANGED <<settings, limited, pc, busy, done, deviceVars, eager>>

\* Mutants: the caller is told of a job it gave up; only a caller that
\* still waits clears the flag.
FinishForAll ==
    /\ done' = done \cup {running}
    /\ running' = Nobody
    /\ worker' = IF running \in Callers /\ pc[running] = "submitted"
                 THEN "idle" ELSE "callback"
    /\ UNCHANGED <<settings, limited, pc, busy, queue, eager>>
FinishForWaiting ==
    /\ done' = done \cup ({running} \cap Callers)
    /\ running' = Nobody
    /\ worker' = IF running \in Callers /\ pc[running] = "waiting"
                 THEN "callback" ELSE "idle"
    /\ UNCHANGED <<settings, limited, pc, busy, queue, eager>>

\* The future is finished, with an answer or an exception.  Its callback
\* runs next, unless the caller has not added it yet.
Finish ==
    /\ done' = done \cup ({running} \cap Callers)
    /\ running' = Nobody
    /\ worker' = IF running \in Callers /\ pc[running] = "submitted"
                 THEN "idle" ELSE "callback"
    /\ UNCHANGED <<settings, limited, pc, busy, queue, eager>>

ApiAnswers == worker = "api" /\ Finish /\ UNCHANGED deviceVars

\* The callback: _rerank_busy.clear().
ClearBusy ==
    /\ worker = "callback"
    /\ busy' = FALSE /\ worker' = "idle"
    /\ UNCHANGED <<settings, limited, pc, queue, running, done, deviceVars, eager>>

\* Mutant: the model of the other device is kept.
TryRecoveryKept ==
    /\ worker = "recover" /\ lock = "free"
    /\ \/ /\ device = "cpu" /\ settings.original # "cpu" /\ gpuFailed
          /\ device' = settings.original
       \/ UNCHANGED device
    /\ worker' = "load"
    /\ UNCHANGED <<settings, limited, callerVars, running, used, model, gpuFailed, lock, eager>>

\* The recovery interval has passed or it has not.
TryRecovery ==
    /\ worker = "recover" /\ lock = "free"
    /\ \/ /\ device = "cpu" /\ settings.original # "cpu" /\ gpuFailed
          /\ device' = settings.original /\ model' = "none"
       \/ UNCHANGED <<device, model>>
    /\ worker' = "load"
    /\ UNCHANGED <<settings, limited, callerVars, running, used, gpuFailed, lock, eager>>

\* _load_model: the model if there is one, else load it under the lock.
UseLoaded ==
    /\ worker = "load" /\ model # "none"
    /\ used' = model /\ worker' = "predict"
    /\ UNCHANGED <<settings, limited, callerVars, running, device, model, gpuFailed, lock, eager>>

StartLoad ==
    /\ worker = "load" /\ model = "none" /\ lock = "free"
    /\ lock' = "worker" /\ worker' = "loading"
    /\ UNCHANGED <<settings, limited, callerVars, running, used, device, model, gpuFailed, eager>>

Loaded ==
    /\ worker = "loading"
    /\ lock' = "free" /\ model' = device /\ used' = device
    /\ worker' = "predict"
    /\ UNCHANGED <<settings, limited, callerVars, running, device, gpuFailed, eager>>

\* An error of the device while loading is handled as one while predicting.
LoadFails ==
    /\ worker = "loading"
    /\ lock' = "free"
    /\ \/ Finish
       \/ /\ device # "cpu" /\ worker' = "failed"
          /\ UNCHANGED <<settings, limited, callerVars, running, eager>>
    /\ UNCHANGED <<used, device, model, gpuFailed>>

\* Mutant: any success forgets the failure.
ForgottenFailure == FALSE

\* A success on the GPU forgets the failure; one on the CPU does not.
ClearedFailure == gpuFailed /\ device = "cpu"

Predicted ==
    /\ worker = "predict" /\ lock = "free"
    /\ gpuFailed' = ClearedFailure /\ used' = "none"
    /\ Finish
    /\ UNCHANGED <<device, model, lock>>

PredictFails ==
    /\ worker = "predict"
    /\ used' = "none"
    /\ \/ Finish
       \/ /\ device # "cpu" /\ worker' = "failed"
          /\ UNCHANGED <<settings, limited, callerVars, running, eager>>
    /\ UNCHANGED <<device, model, gpuFailed, lock>>

\* The circuit breaker: record the failure and go on with the CPU.
FallBackToCpu ==
    /\ worker = "failed" /\ lock = "free"
    /\ gpuFailed' = TRUE /\ device' = "cpu" /\ model' = "none"
    /\ worker' = "load"
    /\ UNCHANGED <<settings, limited, callerVars, running, used, lock, eager>>

\* A prediction that never comes back.
Hang ==
    /\ worker = "predict"
    /\ worker' = "hung"
    /\ UNCHANGED <<settings, limited, callerVars, running, deviceVars, eager>>

-----------------------------------------------------------------------------
(* The thread that loads the model when the app starts.  Every new browser *)
(* session asks for it: the guard reads a class attribute that loading the *)
(* instance's model never sets.                                            *)

EagerStart ==
    /\ settings.type = "local" /\ eager = "off" /\ lock = "free"
    /\ eager' = "start"
    /\ UNCHANGED <<settings, limited, callerVars, running, worker, deviceVars>>

EagerLoad ==
    /\ eager = "start"
    /\ \/ model # "none" /\ eager' = "off" /\ UNCHANGED lock
       \/ model = "none" /\ lock = "free" /\ lock' = "eager" /\ eager' = "loading"
    /\ UNCHANGED <<settings, limited, callerVars, running, worker, used, device, model,
                   gpuFailed>>

EagerEnd ==
    /\ eager = "loading"
    /\ lock' = "free" /\ eager' = "off"
    /\ model' \in {device, "none"}
    /\ UNCHANGED <<settings, limited, callerVars, running, worker, used, device, gpuFailed>>

-----------------------------------------------------------------------------
CallerStep(c) ==
    \/ ReturnSkipped(c) \/ SetBusy(c) \/ Submit(c) \/ AddCallback(c)
    \/ Return(c) \/ GiveUp(c)
WorkerStep ==
    \/ Take \/ ApiAnswers \/ ClearBusy \/ TryRecovery \/ UseLoaded \/ StartLoad
    \/ Loaded \/ LoadFails \/ Predicted \/ PredictFails \/ FallBackToCpu
EagerStep == EagerLoad \/ EagerEnd

Next ==
    \/ \E c \in Callers : CheckBusy(c) \/ CallerStep(c)
    \/ WorkerStep \/ Hang
    \/ EagerStart \/ EagerStep

Spec == Init /\ [][Next]_vars

\* Threads that can run do run, the API and the loader answer.  Whether a
\* prediction ends is not assumed: Hang may be taken at any of them.
FairSpec ==
    /\ Spec
    /\ \A c \in Callers : WF_vars(CallerStep(c))
    /\ SF_vars(WorkerStep) /\ WF_vars(EagerStep)

-----------------------------------------------------------------------------
(* Properties.                                                             *)

\* A set flag always has a job that will clear it: one about to be
\* submitted, queued, running, with its callback to come, or finished
\* before its callback was added (rerank_with_timeout, lines 92 to 98).
\* Otherwise every later question would go without reranking.
BusyHasOwner ==
    busy => \/ \E c \in Callers : pc[c] = "flagged"
            \/ \E c \in Callers : pc[c] = "submitted" /\ c \in done
            \/ queue # <<>> \/ running # Nobody \/ worker = "callback"

\* Whoever loads the model, the worker or the thread of the start-up, it is
\* on the device the circuit breaker has chosen, and the worker predicts
\* with that one (_load_model, _predict_with_cpu_fallback).
ModelOnDevice ==
    /\ model # "none" => model = device
    /\ worker = "predict" => used = device

\* On the CPU in place of the GPU only with the failure on record: without
\* it the recovery of lines 223 to 235 would never be tried again.
CpuHasReturn == device # settings.original => gpuFailed

\* Every request is answered, even if the model hangs: with the timeout on
\* always, without it unless the worker hangs (rerank_with_timeout).
Answered ==
    \A c \in Callers :
       pc[c] # "idle" ~> \/ pc[c] = "idle"
                        \/ (worker = "hung" /\ c \notin limited)

\* The flag is not set for ever, whoever gives up in between, unless the
\* worker itself hangs (add_done_callback, line 98).
BusyClears == busy ~> ~busy \/ worker = "hung"

\* The comment at lines 23 and 24: no job is queued behind one that runs.
NothingQueuedBehind == running # Nobody => queue = <<>>

=============================================================================
