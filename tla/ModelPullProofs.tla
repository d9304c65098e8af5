-------------------------- MODULE ModelPullProofs --------------------------
(***************************************************************************)
(* Theorems about ModelPull for any pages, threads and bounds: type        *)
(* correctness, that there is one download at most, and that a success     *)
(* means that the server has the model.  With the types, the last two are  *)
(* inductive as they stand; the types need that a page which has passed    *)
(* start_pull finds a record.                                              *)
(***************************************************************************)
EXTENDS ModelPull, TLAPS

RecordKept == \A p \in Pages : page[p] \in {"check", "show"} => current # Absent

PullInv == TypeOK /\ RecordKept

-----------------------------------------------------------------------------
(* Types.                                                                  *)

\* A step of a thread in terms of its two functions, with the faults.
LEMMA ThreadTypes ==
    ASSUME TypeOK, NEW t \in Threads, ThreadStep(t)
    PROVE  /\ thr' \in [Threads -> {"check", "connect", "lines", "final", "dead"}]
           /\ info' \in [Threads -> Statuses]
           /\ faults' \in 0..MaxFaults
           /\ UNCHANGED <<pageVars, current, up, installed, clicks>>
<1> USE DEF TypeOK, Step, Write, Statuses, serverVars, pageVars
<1>1. CASE LooksFirst(t)
  <2>1. CASE Available
    BY <1>1, <2>1 DEF LooksFirst
  <2>2. CASE ~Available
    BY <1>1, <2>2 DEF LooksFirst
  <2>3. QED
    BY <2>1, <2>2
<1>2. CASE Connect(t)
  BY <1>2 DEF Connect
<1>3. CASE Line(t)
  <2>1. PICK status \in {"pulling", "other"} :
          \/ Step(t, "lines", "lines") /\ Write(t, status)
          \/ Available /\ Step(t, "lines", "final") /\ Write(t, "success")
    BY <1>3 DEF Line
  <2>2. CASE Step(t, "lines", "lines") /\ Write(t, status)
    BY <1>3, <2>2 DEF Line
  <2>3. CASE Step(t, "lines", "final") /\ Write(t, "success")
    BY <1>3, <2>3 DEF Line
  <2>4. QED
    BY <2>1, <2>2, <2>3
<1>4. CASE LastLine(t)
  BY <1>4 DEF LastLine
<1>5. CASE Fails(t)
  <2>1. faults' \in 0..MaxFaults
    <3>1. faults' = faults \/ (faults < MaxFaults /\ faults' = faults + 1)
      BY <1>5 DEF Fails
    <3>2. QED
      BY <3>1, BoundsAssumption
  <2>2. thr' = [thr EXCEPT ![t] = "final"] /\ info' = [info EXCEPT ![t] = "error"]
    BY <1>5 DEF Fails
  <2>3. UNCHANGED <<pageVars, current, up, installed, clicks>>
    BY <1>5 DEF Fails
  <2>4. QED
    BY <2>1, <2>2, <2>3
<1>6. CASE CutOff(t)
  BY <1>6, BoundsAssumption DEF CutOff
<1>7. CASE Finish(t)
  BY <1>7 DEF Finish
<1>8. QED
  BY <1>1, <1>2, <1>3, <1>4, <1>5, <1>6, <1>7 DEF ThreadStep

LEMMA PageTypes ==
    ASSUME PullInv, NEW p \in Pages, PageStep(p) \/ Click(p)
    PROVE  PullInv'
<1> USE DEF PullInv, RecordKept, TypeOK, Turn, pageVars, pullVars, serverVars
<1>1. CASE AppRun(p)
  BY <1>1 DEF AppRun
<1>2. CASE StartPull(p)
  <2>1. CASE current # Absent /\ Alive(current)
    BY <1>2, <2>1 DEF StartPull, StartUnless
  <2>2. CASE ~(current # Absent /\ Alive(current))
    <3>1. PICK t \in Threads :
            /\ current' = t
            /\ thr' = [thr EXCEPT ![t] = "check"]
            /\ info' = [info EXCEPT ![t] = "pulling"]
      BY <1>2, <2>2 DEF StartPull, StartUnless
    <3>2. QED
      BY <1>2, <3>1, AbsentAssumption DEF StartPull, StartUnless, Statuses
  <2>3. QED
    BY <2>1, <2>2
<1>3. CASE CheckModel(p)
  BY <1>3 DEF CheckModel
<1>4. CASE ShowStatus(p)
  <2>1. info[current] \in Statuses
    BY <1>4 DEF ShowStatus
  <2>2. QED
    BY <1>4, <2>1 DEF ShowStatus
<1>5. CASE Click(p)
  <2>1. clicks' \in 0..MaxClicks
    BY <1>5, BoundsAssumption DEF Click
  <2>2. QED
    BY <1>5, <2>1 DEF Click
<1>6. QED
  BY <1>1, <1>2, <1>3, <1>4, <1>5 DEF PageStep

LEMMA PullStep ==
    ASSUME PullInv, [Next]_vars
    PROVE  PullInv'
<1>1. ASSUME NEW p \in Pages, PageStep(p) \/ Click(p)
      PROVE  PullInv'
  BY <1>1, PageTypes
<1>2. ASSUME NEW t \in Threads, ThreadStep(t)
      PROVE  PullInv'
  BY <1>2, ThreadTypes DEF PullInv, RecordKept, TypeOK, pageVars
<1>3. CASE ServerStep
  <2> USE DEF PullInv, RecordKept, TypeOK, pageVars, pullVars
  <2>1. CASE Downloaded
    BY <2>1 DEF Downloaded
  <2>2. CASE GoesDown
    <3>1. faults' \in 0..MaxFaults
      BY <2>2, BoundsAssumption DEF GoesDown
    <3>2. QED
      BY <2>2, <3>1 DEF GoesDown
  <2>3. CASE ComesUp
    BY <2>3 DEF ComesUp
  <2>4. QED
    BY <1>3, <2>1, <2>2, <2>3 DEF ServerStep
<1>4. CASE UNCHANGED vars
  BY <1>4 DEF vars, pageVars, pullVars, serverVars, PullInv, RecordKept, TypeOK
<1>5. QED
  BY <1>1, <1>2, <1>3, <1>4 DEF Next

LEMMA PullInit == Init => PullInv
<1> SUFFICES ASSUME Init
             PROVE  PullInv
  OBVIOUS
<1>1. faults \in 0..MaxFaults /\ clicks \in 0..MaxClicks
  <2>1. faults = 0 /\ clicks = 0
    BY DEF Init
  <2>2. QED
    BY <2>1, BoundsAssumption
<1>2. RecordKept
  BY DEF Init, RecordKept
<1>3. installed \in SUBSET {"model", "sibling"}
  BY DEF Init
<1>4. TypeOK
  BY <1>1, <1>3 DEF Init, TypeOK, Statuses
<1>5. QED
  BY <1>2, <1>4 DEF PullInv

\* Every variable has its type in every reachable state, whatever fails.
THEOREM PullTypeCorrect == Spec => []TypeOK
<1>1. PullInv => TypeOK
  BY DEF PullInv
<1>2. QED
  BY <1>1, PullInit, PullStep, PTL DEF Spec

-----------------------------------------------------------------------------
(* One download, and what it says of itself.                               *)

\* For any number of pages that wait at the same time, at most one thread of
\* _run_pull is alive, and it is the one in the record (start_pull, lines 72
\* to 93): a new thread needs the last one to be dead.
THEOREM OnlyOneDownload == Spec => []OneDownload
<1>1. Init => OneDownload
  BY DEF Init, OneDownload, Alive
<1>2. ASSUME PullInv, OneDownload, [Next]_vars
      PROVE  OneDownload'
  <2> USE DEF PullInv, TypeOK, OneDownload, Alive
  <2>1. ASSUME NEW p \in Pages, StartPull(p)
        PROVE  OneDownload'
    <3>1. CASE current # Absent /\ Alive(current)
      BY <1>2, <2>1, <3>1 DEF StartPull, StartUnless, pullVars
    <3>2. CASE ~(current # Absent /\ Alive(current))
      <4>1. \A t \in Threads : thr[t] = "dead"
        BY <1>2, <3>2, AbsentAssumption
      <4>2. PICK t \in Threads : current' = t /\ thr' = [thr EXCEPT ![t] = "check"]
        BY <2>1, <3>2 DEF StartPull, StartUnless
      <4>3. QED
        BY <1>2, <4>1, <4>2
    <3>3. QED
      BY <3>1, <3>2
  <2>2. ASSUME NEW p \in Pages, AppRun(p) \/ CheckModel(p) \/ ShowStatus(p) \/ Click(p)
        PROVE  OneDownload'
    BY <1>2, <2>2 DEF AppRun, CheckModel, ShowStatus, Click, pullVars
  <2>3. ASSUME NEW t \in Threads, ThreadStep(t)
        PROVE  OneDownload'
    <3>1. thr[t] # "dead" /\ current' = current
      BY <1>2, <2>3 DEF ThreadStep, LooksFirst, Connect, Line, LastLine, Fails, CutOff, Finish, Step
    <3>2. \A u \in Threads \ {t} : thr'[u] = thr[u]
      BY <1>2, <2>3 DEF ThreadStep, LooksFirst, Connect, Line, LastLine, Fails, CutOff, Finish, Step
    <3>3. QED
      BY <1>2, <3>1, <3>2
  <2>4. CASE ServerStep \/ UNCHANGED vars
    BY <1>2, <2>4 DEF ServerStep, Downloaded, GoesDown, ComesUp, vars, pullVars
  <2>5. QED
    BY <1>2, <2>1, <2>2, <2>3, <2>4 DEF Next, PageStep
<1>3. QED
  BY <1>1, <1>2, PullInit, PullStep, PTL DEF Spec

\* A record says success only of a model that the server has, through any
\* sequence of outages, errors and downloads (_run_pull, lines 41 to 69).
THEOREM SuccessMeansModel == Spec => []SuccessIsReal
<1>1. Init => SuccessIsReal
  BY DEF Init, SuccessIsReal
<1>2. ASSUME PullInv, SuccessIsReal, [Next]_vars
      PROVE  SuccessIsReal'
  <2> SUFFICES ASSUME Tagged, NEW t \in Threads, info'[t] = "success"
               PROVE  "model" \in installed'
    BY DEF SuccessIsReal
  <2>1. Available => "model" \in installed
    BY DEF Available
  <2>2. "model" \in installed => "model" \in installed'
    BY <1>2 DEF Next, PageStep, AppRun, StartPull, StartUnless, CheckModel, ShowStatus, Click,
       ThreadStep, LooksFirst, Connect, Line, LastLine, Fails, CutOff, Finish,
       ServerStep, Downloaded, GoesDown, ComesUp, vars, serverVars
  <2>3. CASE info[t] = "success"
    BY <1>2, <2>2, <2>3 DEF SuccessIsReal
  <2>4. CASE info[t] # "success"
    <3>1. \E u \in Threads : ThreadStep(u) /\ info'[t] # info[t]
      <4>1. ASSUME NEW p \in Pages, PageStep(p) \/ Click(p)
            PROVE  info'[t] \in {info[t], "pulling"}
        BY <1>2, <4>1 DEF PageStep, AppRun, StartPull, StartUnless, CheckModel, ShowStatus, Click,
           pullVars, PullInv, TypeOK
      <4>2. ServerStep \/ UNCHANGED vars => info' = info
        BY DEF ServerStep, Downloaded, GoesDown, ComesUp, vars, pullVars
      <4>3. QED
        BY <1>2, <2>4, <4>1, <4>2 DEF Next
    <3>2. PICK u \in Threads : ThreadStep(u) /\ info'[t] # info[t]
      BY <3>1
    <3>3. info'[t] = info'[u]
      BY <1>2, <3>2 DEF ThreadStep, LooksFirst, Connect, Line, LastLine, Fails, CutOff, Finish,
         Write, PullInv, TypeOK
    <3>4. Available \/ "model" \in installed
      BY <1>2, <2>4, <3>2, <3>3 DEF ThreadStep, LooksFirst, Connect, Line, LastLine, Fails, CutOff,
         Finish, Write, PullInv, TypeOK
    <3>5. QED
      BY <2>1, <2>2, <3>4
  <2>5. QED
    BY <2>3, <2>4
<1>3. QED
  BY <1>1, <1>2, PullInit, PullStep, PTL DEF Spec
=============================================================================
