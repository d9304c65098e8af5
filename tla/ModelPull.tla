----------------------------- MODULE ModelPull -----------------------------
(***************************************************************************)
(* How the language model gets onto the Ollama server: OllamaPullStatus    *)
(* and OllamaModel of src/models/llm_ollama.py, and the pages of app.py    *)
(* that cannot be used until it is there.                                  *)
(*                                                                         *)
(* A page that finds the model missing shows a fragment that runs once a   *)
(* second; it starts a download if none is under way and shows what the    *)
(* thread of the download wrote last.  The table _instances has one record *)
(* for the model; each thread writes to the record it was started with.    *)
(* What the server does is external.                                       *)
(***************************************************************************)
EXTENDS Naturals

CONSTANTS
    Pages,     \* browser sessions
    Threads,   \* threads of _run_pull, used again once they are dead
    Absent,    \* _instances has no record of the model
    Tagged,    \* MODEL_NAME has a tag, as in its default
    MaxFaults, \* bound on outages and broken downloads
    MaxClicks  \* bound on what users do on the pages

ASSUME AbsentAssumption == Absent \notin Threads
ASSUME BoundsAssumption == MaxFaults \in Nat /\ MaxClicks \in Nat

VARIABLES
    page,      \* where each page is
    shown,     \* the status it shows
    current,   \* the thread of the record in _instances
    thr,       \* where each thread is
    info,      \* "status" of the record of each thread
    up,        \* the server answers
    installed, \* what it has: the model, a sibling with another tag
    faults, clicks

pageVars == <<page, shown>>
pullVars == <<current, thr, info>>
serverVars == <<up, installed, faults>>
vars == <<pageVars, pullVars, serverVars, clicks>>

\* "pulling" stands for the statuses the page takes for a download, "other" for a
\* line with another one, among them those that report an error of the server.
Statuses == {"pulling", "other", "success", "error"}

TypeOK ==
    /\ page \in [Pages -> {"run", "start", "check", "show", "ready", "gone"}]
    /\ shown \in [Pages -> Statuses]
    /\ current \in Threads \cup {Absent}
    /\ thr \in [Threads -> {"check", "connect", "lines", "final", "dead"}]
    /\ info \in [Threads -> Statuses]
    /\ up \in BOOLEAN /\ installed \in SUBSET {"model", "sibling"}
    /\ faults \in 0..MaxFaults /\ clicks \in 0..MaxClicks

Init ==
    /\ page = [p \in Pages |-> "run"] /\ shown = [p \in Pages |-> "other"]
    /\ current = Absent
    /\ thr = [t \in Threads |-> "dead"] /\ info = [t \in Threads |-> "other"]
    /\ up = TRUE /\ installed \in SUBSET {"model", "sibling"}
    /\ faults = 0 /\ clicks = 0

\* is_model_available: a name without a tag matches one with any.
Available == up /\ ("model" \in installed \/ (~Tagged /\ "sibling" \in installed))

Turn(p, where) == page' = [page EXCEPT ![p] = where]
Alive(t) == thr[t] # "dead"

-----------------------------------------------------------------------------
(* The pages.                                                              *)

\* The chat input is enabled only if the model is there.
AppRun(p) ==
    /\ page[p] = "run"
    /\ Turn(p, IF Available THEN "ready" ELSE "start")
    /\ UNCHANGED <<shown, pullVars, serverVars, clicks>>

\* A new record and its thread, unless a download is taken to be under way.
StartUnless(busy, p) ==
    /\ page[p] = "start"
    /\ IF busy
       THEN UNCHANGED pullVars
       ELSE \E t \in Threads :
               /\ ~Alive(t) /\ current' = t
               /\ thr' = [thr EXCEPT ![t] = "check"]
               /\ info' = [info EXCEPT ![t] = "pulling"]
    /\ Turn(p, "check")
    /\ UNCHANGED <<shown, serverVars, clicks>>

\* Mutant: a record is taken for a download under way.
StartPullOnce(p) == StartUnless(current # Absent, p)

\* Mutant: only a download that reports progress is taken for one under way.
StartPullBeside(p) ==
    StartUnless(current # Absent /\ Alive(current) /\ info[current] = "pulling", p)

\* start_pull, under the lock of the class.
StartPull(p) == StartUnless(current # Absent /\ Alive(current), p)

CheckModel(p) ==
    /\ page[p] = "check"
    /\ Turn(p, IF Available THEN "run" ELSE "show")
    /\ UNCHANGED <<shown, pullVars, serverVars, clicks>>

\* Mutant: the record's thread is taken for its status.
ShowRecord(p) ==
    /\ page[p] = "show"
    /\ shown' = [shown EXCEPT ![p] = current]
    /\ Turn(p, IF info[current] = "success" THEN "run" ELSE "start")
    /\ UNCHANGED <<pullVars, serverVars, clicks>>

\* After a success the page runs again, otherwise the fragment in a second.
\* A page that is here has started a download: there is a record.
ShowStatus(p) ==
    /\ page[p] = "show"
    /\ shown' = [shown EXCEPT ![p] = info[current]]
    /\ Turn(p, IF info[current] = "success" THEN "run" ELSE "start")
    /\ UNCHANGED <<pullVars, serverVars, clicks>>

\* A click runs the page from its start, also in the middle of the fragment.
Click(p) ==
    /\ page[p] \in {"start", "check", "show", "ready"}
    /\ clicks < MaxClicks /\ clicks' = clicks + 1
    /\ \E where \in {"run", "gone"} : Turn(p, where)
    /\ UNCHANGED <<shown, pullVars, serverVars>>

-----------------------------------------------------------------------------
(* The thread of a download.                                               *)

Step(t, from, to) == thr[t] = from /\ thr' = [thr EXCEPT ![t] = to]
Write(t, status) == info' = [info EXCEPT ![t] = status]

LooksFirst(t) ==
    /\ IF Available
       THEN Step(t, "check", "final") /\ Write(t, "success")
       ELSE Step(t, "check", "connect") /\ UNCHANGED info
    /\ UNCHANGED <<pageVars, current, serverVars, clicks>>

Connect(t) ==
    /\ up
    /\ Step(t, "connect", "lines")
    /\ UNCHANGED <<pageVars, current, info, serverVars, clicks>>

\* A line of progress; now and then the thread looks for itself.
Line(t) ==
    /\ up
    /\ \E status \in {"pulling", "other"} :
          \/ Step(t, "lines", "lines") /\ Write(t, status)
          \/ Available /\ Step(t, "lines", "final") /\ Write(t, "success")
    /\ UNCHANGED <<pageVars, current, serverVars, clicks>>

LastLine(t) ==
    /\ up /\ "model" \in installed
    /\ Step(t, "lines", "final") /\ Write(t, "success")
    /\ UNCHANGED <<pageVars, current, serverVars, clicks>>

\* A refused connection, an error of the protocol or no line for too long.
Fails(t) ==
    /\ \/ ~up /\ UNCHANGED faults
       \/ up /\ faults < MaxFaults /\ faults' = faults + 1
    /\ Step(t, "connect", "final") \/ Step(t, "lines", "final")
    /\ Write(t, "error")
    /\ UNCHANGED <<pageVars, current, up, installed, clicks>>

\* The answer ends without a last line.
CutOff(t) ==
    /\ faults < MaxFaults /\ faults' = faults + 1
    /\ Step(t, "lines", "final")
    /\ UNCHANGED <<pageVars, current, info, up, installed, clicks>>

\* Mutant: an end without an error is a success.
FinishTrusting(t) ==
    /\ Step(t, "final", "dead")
    /\ IF info[t] # "error" THEN Write(t, "success") ELSE UNCHANGED info
    /\ UNCHANGED <<pageVars, current, serverVars, clicks>>

\* The finally clause: what is there counts, whatever was said.
Finish(t) ==
    /\ Step(t, "final", "dead")
    /\ IF Available THEN Write(t, "success") ELSE UNCHANGED info
    /\ UNCHANGED <<pageVars, current, serverVars, clicks>>

-----------------------------------------------------------------------------
(* The server.                                                             *)

Downloaded ==
    /\ up /\ \E t \in Threads : thr[t] = "lines"
    /\ installed' = installed \cup {"model"}
    /\ UNCHANGED <<pageVars, pullVars, up, faults, clicks>>

GoesDown ==
    /\ up /\ faults < MaxFaults /\ faults' = faults + 1
    /\ up' = FALSE
    /\ UNCHANGED <<pageVars, pullVars, installed, clicks>>

ComesUp ==
    /\ ~up /\ up' = TRUE
    /\ UNCHANGED <<pageVars, pullVars, installed, faults, clicks>>

-----------------------------------------------------------------------------
PageStep(p) == AppRun(p) \/ StartPull(p) \/ CheckModel(p) \/ ShowStatus(p)
ThreadStep(t) ==
    LooksFirst(t) \/ Connect(t) \/ Line(t) \/ LastLine(t) \/ Fails(t) \/ CutOff(t) \/ Finish(t)
ServerStep == Downloaded \/ GoesDown \/ ComesUp

Next ==
    \/ \E p \in Pages : PageStep(p) \/ Click(p)
    \/ \E t \in Threads : ThreadStep(t)
    \/ ServerStep

Spec == Init /\ [][Next]_vars

\* The fragment has a timer, the threads run, and each of their requests has a
\* timeout; a server that is up long enough ends the download and says so.
FairSpec ==
    /\ Spec
    /\ \A p \in Pages : WF_vars(PageStep(p))
    /\ \A t \in Threads : WF_vars(ThreadStep(t)) /\ WF_vars(LastLine(t))
    /\ WF_vars(Downloaded) /\ WF_vars(ComesUp)

-----------------------------------------------------------------------------
(* Properties.                                                             *)

\* However many pages wait, one thread downloads, and it is the one whose
\* status the pages are shown (start_pull, lines 72 to 93).
OneDownload == \A t \in Threads : Alive(t) => t = current

\* A download is called a success only when the server has the model, however
\* it ended (_run_pull, lines 41 to 69).  Without a tag a sibling passes for
\* the model (is_model_available, line 142).
SuccessIsReal == Tagged => \A t \in Threads : info[t] = "success" => "model" \in installed

\* A page that waits for the model gets it in the end: the next fragment
\* starts the download again after any failure (app.py, lines 352 to 357).
PagesGetReady == \A p \in Pages : page[p] \in {"start", "check", "show"} ~> page[p] \in {"ready", "gone"}
=============================================================================
