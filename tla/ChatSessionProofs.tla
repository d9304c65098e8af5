------------------------- MODULE ChatSessionProofs -------------------------
(***************************************************************************)
(* Proofs about ChatSession: however runs of the script replace each       *)
(* other, what is drawn again belongs to the generator that is pulled, and *)
(* no question is answered twice.                                          *)
(***************************************************************************)
EXTENDS ChatSession, TLAPS, FiniteSetTheorems

\* A run that consumes a stream has one, and a run a submission started has a
\* question to put into the conversation.
RunHasStream ==
    /\ pc \in {"pull", "next", "got", "after", "finalize", "append", "clear"} => it # 0
    /\ pc \in {"pull", "next", "got"} => it = iter
    /\ trigger = "submit" => asked # 0

\* The accumulated steps were given by their generator, before the one that a
\* run at "got" holds.
StepsGiven ==
    /\ pc = "create" => steps = <<>>
    /\ \A i \in DOMAIN steps : steps[i].pos <= gens[steps[i].gen].pos
    /\ pc = "got" => /\ gens[it].pos # 0
                     /\ \A i \in DOMAIN steps : steps[i].pos < gens[it].pos

IInv == TypeOK /\ RunHasStream /\ StepsGiven /\ StepsOfStream

USE ConstantsAssumption

-----------------------------------------------------------------------------
(* The helpers.                                                            *)

\* The history that is kept is a history, and within its bound.
LEMMA TrimmedType ==
    ASSUME NEW s \in Seq(Messages)
    PROVE  Trimmed(s) \in Seq(Messages) /\ Len(Trimmed(s)) <= 2 * MaxTurns
<1>1. MaxTurns \in Nat /\ Len(s) \in Nat
  OBVIOUS
<1>2. CASE Len(s) > 2 * MaxTurns
  <2>1. SubSeq(s, Len(s) - 2 * MaxTurns + 1, Len(s)) \in Seq(Messages)
    BY <1>1, <1>2
  <2>2. Len(SubSeq(s, Len(s) - 2 * MaxTurns + 1, Len(s))) = 2 * MaxTurns
    BY <1>1, <1>2
  <2> QED BY <1>1, <1>2, <2>1, <2>2 DEF Trimmed
<1>3. CASE ~(Len(s) > 2 * MaxTurns)
  BY <1>1, <1>3 DEF Trimmed
<1> QED BY <1>2, <1>3

Gens == [Questions -> [pos : 0..MaxSteps, open : BOOLEAN, busy : {"no", "run", "replaced"}]]

\* Closing a generator forgets nothing it gave.
LEMMA ClosedType ==
    ASSUME TypeOK, NEW g \in Questions
    PROVE  Closed(g) \in Gens /\ \A q \in Questions : Closed(g)[q].pos = gens[q].pos
BY DEF TypeOK, Closed, Gens

\* Nor does a run that is replaced.
LEMMA StartRunType ==
    ASSUME IInv, NEW w, StartRun(w)
    PROVE  /\ pc' = "top" /\ trigger' = w
           /\ gens' \in Gens
           /\ \A q \in Questions : gens'[q].pos = gens[q].pos
<1>1. pc = "next" => it \in Questions
  BY DEF IInv, TypeOK, RunHasStream, Questions
<1> QED BY <1>1 DEF StartRun, IInv, TypeOK, Gens

\* A generator only ever moves on.
LEMMA GivesType ==
    ASSUME TypeOK, NEW g \in Questions, Gives(g)
    PROVE  /\ gens' \in Gens
           /\ \A q \in Questions : gens[q].pos <= gens'[q].pos
           /\ gens'[g].pos = gens[g].pos + 1
<1>1. gens[g].pos \in 0..MaxSteps /\ gens[g].pos < MaxSteps /\ MaxSteps \in Nat
  BY DEF TypeOK, Gives
<1>2. gens[g].pos + 1 \in 0..MaxSteps
  BY <1>1
<1>3. \A q \in Questions : gens[q].pos \in Nat
  BY DEF TypeOK
<1>4. gens \in Gens
  BY DEF TypeOK, Gens
<1> DEFINE given == [gens[g] EXCEPT !.pos = gens[g].pos + 1, !.busy = "no"]
<1>5. given \in [pos : 0..MaxSteps, open : BOOLEAN, busy : {"no", "run", "replaced"}]
  BY <1>2, <1>4 DEF Gens
<1>6. given.pos = gens[g].pos + 1
  BY <1>4 DEF Gens
<1>7. gens' = [gens EXCEPT ![g] = given]
  BY <1>4 DEF Gives, Gens
<1> HIDE DEF given
<1>8. gens' \in Gens
  BY <1>4, <1>5, <1>7 DEF Gens
<1>9. \A q \in Questions : gens'[q] = IF q = g THEN given ELSE gens[q]
  BY <1>4, <1>7 DEF Gens
<1> QED BY <1>3, <1>6, <1>8, <1>9

LEMMA FinishesType ==
    ASSUME TypeOK, NEW g \in Questions, Finishes(g)
    PROVE  gens' \in Gens /\ \A q \in Questions : gens'[q].pos = gens[q].pos
BY DEF TypeOK, Finishes, Gens

\* While the steps stay and the generators only move on, the steps are given.
LEMMA StepsStay ==
    ASSUME IInv, gens' \in Gens, UNCHANGED steps,
           \A q \in Questions : gens[q].pos <= gens'[q].pos
    PROVE  \A i \in DOMAIN steps' : steps'[i].pos <= gens'[steps'[i].gen].pos
<1> SUFFICES ASSUME NEW i \in DOMAIN steps
             PROVE  steps[i].pos <= gens'[steps[i].gen].pos
  OBVIOUS
<1>1. steps[i] \in Steps
  BY DEF IInv, TypeOK
<1>2. steps[i].gen \in Questions /\ steps[i].pos \in Nat
  BY <1>1 DEF Steps
<1>3. /\ gens[steps[i].gen].pos \in Nat /\ gens'[steps[i].gen].pos \in Nat
      /\ steps[i].pos <= gens[steps[i].gen].pos
      /\ gens[steps[i].gen].pos <= gens'[steps[i].gen].pos
  BY <1>2 DEF IInv, TypeOK, StepsGiven, Gens
<1> QED BY <1>2, <1>3

-----------------------------------------------------------------------------
LEMMA InitHolds == Init => IInv
<1> SUFFICES ASSUME Init PROVE IInv
  OBVIOUS
<1>1. messages \in Seq(Messages) /\ steps \in Seq(Steps)
  BY DEF Init
<1>n. MaxQuestions \in Nat /\ MaxSteps \in Nat /\ MaxClicks \in Nat /\ MaxTurns \in Nat
  OBVIOUS
<1>g. gens \in Gens
  BY <1>n DEF Init, Gens
<1>s. generating \in BOOLEAN /\ stop \in BOOLEAN /\ inputOn \in BOOLEAN /\ stopOn \in BOOLEAN
  BY DEF Init
<1>b. /\ iter \in 0..MaxQuestions /\ it \in 0..MaxQuestions
      /\ asked \in 0..MaxQuestions /\ clicks \in 0..MaxClicks
  BY <1>n DEF Init
<1>l. pc = "idle" /\ trigger = "none" /\ how = "success"
  BY DEF Init
<1>2. TypeOK
  BY <1>1, <1>g, <1>s, <1>b, <1>l DEF TypeOK, Gens
<1>3. RunHasStream
  BY DEF Init, RunHasStream
<1>4. StepsGiven /\ StepsOfStream
  BY DEF Init, StepsGiven, StepsOfStream
<1> QED BY <1>2, <1>3, <1>4 DEF IInv

\* Every step keeps the invariant.
LEMMA StepHolds == IInv /\ [Next]_vars => IInv'
<1> SUFFICES ASSUME IInv, [Next]_vars PROVE IInv'
  OBVIOUS
<1> USE DEF sessionVars, runVars, shown, bounds
<1>t. TypeOK
  BY DEF IInv
<1>p. \A q \in Questions : gens[q].pos \in Nat
  BY <1>t DEF TypeOK
<1>i. pc \in {"pull", "next", "got", "after", "finalize", "append", "clear"} => it \in Questions
  BY DEF IInv, TypeOK, RunHasStream, Questions
<1>1. CASE Submit
  <2>1. StartRun("submit")
    BY <1>1 DEF Submit
  <2>2. /\ pc' = "top" /\ trigger' = "submit" /\ gens' \in Gens
        /\ \A q \in Questions : gens'[q].pos = gens[q].pos
    BY <2>1, StartRunType
  <2>3. \A i \in DOMAIN steps' : steps'[i].pos <= gens'[steps'[i].gen].pos
    BY <1>1, <1>p, <2>2, StepsStay DEF Submit
  <2>4. TypeOK' /\ RunHasStream'
    BY <1>1, <1>t, <2>2 DEF Submit, TypeOK, RunHasStream, Gens
  <2> QED BY <1>1, <2>2, <2>3, <2>4 DEF Submit, IInv, StepsGiven, StepsOfStream
<1>2. CASE Click
  <2>1. PICK w \in {"none", "stop"} : StartRun(w)
    BY <1>2 DEF Click
  <2>2. /\ pc' = "top" /\ trigger' = w /\ gens' \in Gens
        /\ \A q \in Questions : gens'[q].pos = gens[q].pos
    BY <2>1, StartRunType
  <2>3. \A i \in DOMAIN steps' : steps'[i].pos <= gens'[steps'[i].gen].pos
    BY <1>2, <1>p, <2>2, StepsStay DEF Click
  <2>4. TypeOK' /\ RunHasStream'
    BY <1>2, <1>t, <2>2 DEF Click, TypeOK, RunHasStream, Gens
  <2> QED BY <1>2, <2>2, <2>3, <2>4 DEF Click, IInv, StepsGiven, StepsOfStream
<1>3. CASE Input
  <2>1. TypeOK'
    <3>1. CASE trigger = "submit"
      <4>1. [role |-> "user", question |-> asked] \in Messages
        BY <3>1, <1>t DEF IInv, TypeOK, RunHasStream, Messages, Questions
      <4>m. messages' = Append(messages, [role |-> "user", question |-> asked])
        BY <1>3, <3>1 DEF Input
      <4> DEFINE new == [role |-> "user", question |-> asked]
      <4> HIDE DEF new
      <4>2. messages' \in Seq(Messages)
        <5>1. messages' = Append(messages, new) /\ new \in Messages
          BY <4>1, <4>m DEF new
        <5> QED BY <5>1, <1>t DEF TypeOK
      <4> QED BY <1>3, <3>1, <4>2, <1>t DEF Input, Goto, TypeOK
    <3>2. CASE trigger # "submit"
      BY <1>3, <3>2, <1>t DEF Input, Goto, TypeOK
    <3> QED BY <3>1, <3>2
  <2>2. pc' \in {"unstop", "answer"}
    BY <1>3 DEF Input, Goto
  <2> QED BY <1>3, <2>1, <2>2 DEF Input, IInv, RunHasStream, StepsGiven, StepsOfStream
<1>4. CASE ClearStop
  BY <1>4 DEF ClearStop, Goto, IInv, TypeOK, RunHasStream, StepsGiven, StepsOfStream
<1>5. CASE ClearSteps
  BY <1>5 DEF ClearSteps, Goto, IInv, TypeOK, RunHasStream, StepsGiven, StepsOfStream
<1>6. CASE Create
  BY <1>6 DEF Create, Rerun, Goto, IInv, TypeOK, RunHasStream, StepsGiven, StepsOfStream
<1>7. CASE Answer
  <2>1. pc' \in {"idle", "stopping", "pull"} /\ (pc' = "pull" => iter # 0)
    BY <1>7, <1>t DEF Answer, Goto, TypeOK
  <2> QED BY <1>7, <2>1 DEF Answer, IInv, TypeOK, RunHasStream, StepsGiven, StepsOfStream
<1>8. CASE Stopping
  <2>1. gens' \in Gens /\ \A q \in Questions : gens'[q].pos = gens[q].pos
    <3>1. CASE iter = 0
      BY <1>8, <3>1, <1>t DEF Stopping, TypeOK, Gens
    <3>2. CASE iter # 0
      <4>1. iter \in Questions
        BY <3>2, <1>t DEF TypeOK, Questions
      <4> QED BY <1>8, <3>2, <4>1, <1>t, ClosedType DEF Stopping
    <3> QED BY <3>1, <3>2
  <2>2. \A i \in DOMAIN steps' : steps'[i].pos <= gens'[steps'[i].gen].pos
    BY <1>8, <1>p, <2>1, StepsStay DEF Stopping
  <2>3. TypeOK' /\ RunHasStream'
    BY <1>8, <1>t, <2>1 DEF Stopping, Rerun, Goto, IInv, TypeOK, RunHasStream, Gens
  <2> QED BY <1>8, <2>2, <2>3 DEF Stopping, Rerun, Goto, IInv, StepsGiven, StepsOfStream
<1>9. CASE Pull
  <2>1. it \in Questions /\ pc' \in {"next", "finalize", "after"}
    BY <1>9, <1>i DEF Pull, Goto
  <2>2. gens' \in Gens /\ \A q \in Questions : gens'[q].pos = gens[q].pos
    <3>1. gens' = [gens EXCEPT ![it].busy = "run"] \/ gens' = gens
      BY <1>9 DEF Pull
    <3>2. gens \in Gens
      BY <1>t DEF TypeOK, Gens
    <3> QED BY <2>1, <3>1, <3>2 DEF Gens
  <2>3. \A i \in DOMAIN steps' : steps'[i].pos <= gens'[steps'[i].gen].pos
    BY <1>9, <1>p, <2>2, StepsStay DEF Pull
  <2>4. how' \in {"success", "interrupted", "error"}
    BY <1>9, <1>t DEF Pull, TypeOK
  <2>5. TypeOK' /\ RunHasStream'
    BY <1>9, <1>t, <2>1, <2>2, <2>4 DEF Pull, IInv, TypeOK, RunHasStream, Gens
  <2> QED BY <1>9, <2>1, <2>3, <2>5 DEF Pull, IInv, StepsGiven, StepsOfStream
<1>10. CASE Next1
  <2>1. it \in Questions
    BY <1>10, <1>i DEF Next1
  <2>2. CASE Gives(it) /\ Goto("got") /\ UNCHANGED how
    <3>1. /\ gens' \in Gens /\ gens'[it].pos = gens[it].pos + 1
          /\ \A q \in Questions : gens[q].pos <= gens'[q].pos
      BY <2>1, <2>2, <1>t, GivesType
    <3>2. \A i \in DOMAIN steps' : steps'[i].pos <= gens'[steps'[i].gen].pos
      BY <1>10, <3>1, StepsStay DEF Next1
    <3>3. TypeOK' /\ RunHasStream'
      BY <1>10, <1>t, <2>2, <3>1 DEF Next1, Goto, IInv, TypeOK, RunHasStream, Gens
    <3>4. \A i \in DOMAIN steps : steps[i].pos < gens'[it].pos
      <4> SUFFICES ASSUME NEW i \in DOMAIN steps PROVE steps[i].pos < gens'[it].pos
        OBVIOUS
      <4>1. steps[i] \in Steps /\ steps[i].gen = it
        BY <1>10, <1>t, <2>1 DEF Next1, IInv, TypeOK, RunHasStream, StepsOfStream
      <4>2. steps[i].pos \in Nat /\ steps[i].pos <= gens[it].pos
        BY <4>1 DEF IInv, StepsGiven, Steps
      <4> QED BY <4>2, <3>1, <1>p, <2>1
    <3>5. gens'[it].pos # 0
      BY <3>1, <1>p, <2>1
    <3> QED BY <3>5, <1>10, <2>2, <3>2, <3>3, <3>4
            DEF Next1, Goto, IInv, StepsGiven, StepsOfStream
  <2>3. CASE Finishes(it) /\ pc' \in {"after", "finalize"}
             /\ how' \in {"success", "interrupted", "error"}
    <3>1. gens' \in Gens /\ \A q \in Questions : gens'[q].pos = gens[q].pos
      BY <2>1, <2>3, <1>t, FinishesType
    <3>2. \A i \in DOMAIN steps' : steps'[i].pos <= gens'[steps'[i].gen].pos
      BY <1>10, <1>p, <3>1, StepsStay DEF Next1
    <3>3. TypeOK' /\ RunHasStream'
      BY <1>10, <1>t, <2>1, <2>3, <3>1 DEF Next1, IInv, TypeOK, RunHasStream, Gens
    <3> QED BY <1>10, <2>3, <3>2, <3>3 DEF Next1, IInv, StepsGiven, StepsOfStream
  <2>4. \/ Gives(it) /\ Goto("got") /\ UNCHANGED how
        \/ Finishes(it) /\ pc' \in {"after", "finalize"}
             /\ how' \in {"success", "interrupted", "error"}
    BY <1>10, <1>t DEF Next1, Goto, TypeOK
  <2> QED BY <2>2, <2>3, <2>4
<1>11. CASE Got
  <2>1. it \in Questions /\ it = iter /\ iter # 0
    BY <1>11, <1>i DEF Got, IInv, RunHasStream
  <2>2. CASE stop
    BY <1>11, <2>2 DEF Got, Goto, IInv, TypeOK, RunHasStream, StepsGiven, StepsOfStream
  <2>3. CASE ~stop
    <3> DEFINE new == [gen |-> it, pos |-> gens[it].pos]
    <3>1. gens[it].pos \in 0..MaxSteps
      BY <1>t, <2>1 DEF TypeOK
    <3>p. gens[it].pos # 0
      BY <1>11, <1>t, <3>1 DEF Got, IInv, StepsGiven
    <3>2. new \in Steps
      BY <3>1, <3>p, <2>1 DEF Steps
    <3>3. steps' = Append(steps, new) /\ steps \in Seq(Steps) /\ gens' = gens /\ pc' = "pull"
      BY <1>11, <2>3, <1>t DEF Got, Goto, TypeOK
    <3>4. /\ steps' \in Seq(Steps) /\ Len(steps') = Len(steps) + 1
          /\ steps'[Len(steps) + 1] = new
          /\ \A i \in 1..Len(steps) : steps'[i] = steps[i]
          /\ DOMAIN steps' = 1..(Len(steps) + 1) /\ DOMAIN steps = 1..Len(steps)
          /\ Len(steps) \in Nat
      BY <3>2, <3>3
    <3>5. \A i \in DOMAIN steps : steps[i].pos < new.pos /\ steps[i].gen = iter
      BY <1>11, <2>1 DEF Got, IInv, StepsGiven, StepsOfStream
    <3>6. new.gen = iter /\ new.pos = gens[new.gen].pos /\ new.pos \in Nat
      BY <2>1, <3>1
    <3>s. \A i \in DOMAIN steps : steps[i] \in Steps
      BY <3>3
    <3> HIDE DEF new
    <3>7. TypeOK' /\ RunHasStream'
      BY <1>11, <1>t, <2>3, <3>3, <3>4 DEF Got, Goto, IInv, TypeOK, RunHasStream
    <3>8. StepsGiven'
      <4> SUFFICES ASSUME NEW i \in DOMAIN steps' PROVE steps'[i].pos <= gens'[steps'[i].gen].pos
        BY <3>3 DEF StepsGiven
      <4>1. CASE i \in DOMAIN steps
        <5>1. steps'[i] = steps[i]
          BY <4>1, <3>4
        <5> QED BY <4>1, <5>1, <3>3 DEF IInv, StepsGiven
      <4>2. CASE i = Len(steps) + 1
        BY <4>2, <3>3, <3>4, <3>6
      <4> QED BY <4>1, <4>2, <3>4
    <3>9. StepsOfStream'
      <4>0. iter' = iter
        BY <1>11 DEF Got
      <4>1. \A i \in DOMAIN steps' : steps'[i].gen = iter
        BY <3>4, <3>5, <3>6
      <4>2. ASSUME NEW i \in DOMAIN steps', NEW j \in DOMAIN steps', i < j
            PROVE  steps'[i].pos < steps'[j].pos
        <5>1. i \in DOMAIN steps /\ steps'[i] = steps[i]
          BY <4>2, <3>4
        <5>2. CASE j \in DOMAIN steps
          <6>1. steps'[j] = steps[j]
            BY <5>2, <3>4
          <6> QED BY <4>2, <5>1, <5>2, <6>1 DEF IInv, StepsOfStream
        <5>3. CASE j = Len(steps) + 1
          BY <5>1, <5>3, <3>4, <3>5
        <5> QED BY <5>2, <5>3, <3>4
      <4> QED BY <4>0, <4>1, <4>2 DEF StepsOfStream
    <3> QED BY <3>7, <3>8, <3>9 DEF IInv
  <2> QED BY <2>2, <2>3
<1>12. CASE After
  BY <1>12 DEF After, Goto, IInv, TypeOK, RunHasStream, StepsGiven, StepsOfStream
<1>13. CASE EndGeneration
  BY <1>13 DEF EndGeneration, Goto, IInv, TypeOK, RunHasStream, StepsGiven, StepsOfStream
<1>14. CASE AppendAnswer
  <2>1. it \in Questions
    BY <1>14, <1>i DEF AppendAnswer
  <2> DEFINE answer == [role |-> "assistant", gen |-> it, parts |-> steps, how |-> how]
  <2>2. answer \in Messages
    BY <2>1, <1>t DEF TypeOK, Messages
  <2>3. Append(messages, answer) \in Seq(Messages)
    BY <2>2, <1>t DEF TypeOK
  <2>4. messages' = Trimmed(Append(messages, answer))
    BY <1>14 DEF AppendAnswer
  <2>5. messages' \in Seq(Messages) /\ Len(messages') <= 2 * MaxTurns
    BY <2>3, <2>4, TrimmedType
  <2> HIDE DEF answer
  <2>6. TypeOK' /\ RunHasStream'
    BY <1>14, <1>t, <2>5 DEF AppendAnswer, Goto, IInv, TypeOK, RunHasStream
  <2> QED BY <1>14, <2>6 DEF AppendAnswer, Goto, IInv, StepsGiven, StepsOfStream
<1>15. CASE ClearIter
  <2>1. it \in Questions
    BY <1>15, <1>i DEF ClearIter
  <2>2. gens' \in Gens /\ \A q \in Questions : gens'[q].pos = gens[q].pos
    BY <1>15, <2>1, <1>t, ClosedType DEF ClearIter, TypeOK, Gens
  <2>3. \A i \in DOMAIN steps' : steps'[i].pos <= gens'[steps'[i].gen].pos
    BY <1>15, <1>p, <2>2, StepsStay DEF ClearIter
  <2>4. TypeOK' /\ RunHasStream'
    BY <1>15, <1>t, <2>2 DEF ClearIter, Rerun, Goto, IInv, TypeOK, RunHasStream, Gens
  <2> QED BY <1>15, <2>3, <2>4 DEF ClearIter, Rerun, Goto, IInv, StepsGiven, StepsOfStream
<1>16. ASSUME NEW g \in Questions, ReplacedReturns(g)
       PROVE  IInv'
  <2>1. Gives(g) \/ Finishes(g)
    BY <1>16 DEF ReplacedReturns
  <2>2. gens' \in Gens /\ \A q \in Questions : gens[q].pos <= gens'[q].pos
    BY <2>1, <1>t, <1>p, GivesType, FinishesType
  <2>3. \A i \in DOMAIN steps' : steps'[i].pos <= gens'[steps'[i].gen].pos
    BY <1>16, <2>2, StepsStay DEF ReplacedReturns
  <2>4. TypeOK' /\ RunHasStream'
    BY <1>16, <1>t, <2>2 DEF ReplacedReturns, IInv, TypeOK, RunHasStream, Gens
  <2>5. ASSUME pc = "got"
        PROVE  gens'[it].pos # 0 /\ \A i \in DOMAIN steps : steps[i].pos < gens'[it].pos
    <3>1. /\ it \in Questions /\ gens[it].pos \in Nat /\ gens'[it].pos \in Nat
          /\ gens[it].pos <= gens'[it].pos /\ gens[it].pos # 0
      BY <2>5, <1>i, <1>p, <2>2 DEF Gens, IInv, StepsGiven
    <3>s. \A i \in DOMAIN steps : steps[i] \in Steps
      BY <1>t DEF TypeOK
    <3>2. \A i \in DOMAIN steps : steps[i].pos \in Nat /\ steps[i].pos < gens[it].pos
      BY <2>5, <3>s DEF IInv, StepsGiven, Steps
    <3> QED BY <3>1, <3>2
  <2> QED BY <1>16, <2>3, <2>4, <2>5 DEF ReplacedReturns, IInv, StepsGiven, StepsOfStream
<1>17. CASE UNCHANGED vars
  BY <1>17 DEF vars, IInv, TypeOK, RunHasStream, StepsGiven, StepsOfStream
<1> QED
  BY <1>1, <1>2, <1>3, <1>4, <1>5, <1>6, <1>7, <1>8, <1>9, <1>10, <1>11, <1>12,
     <1>13, <1>14, <1>15, <1>16, <1>17 DEF Next, Script

LEMMA InvariantHolds == Spec => []IInv
<1>1. Init => IInv
  BY InitHolds
<1>2. IInv /\ [Next]_vars => IInv'
  BY StepHolds
<1> QED BY <1>1, <1>2, PTL DEF Spec

-----------------------------------------------------------------------------
\* The conversation, the generators and the runs keep their types, and the
\* history that is stored keeps its bound.
THEOREM ChatTypeCorrect == Spec => []TypeOK
<1>1. IInv => TypeOK
  BY DEF IInv
<1> QED BY <1>1, InvariantHolds, PTL

\* What a run draws again are steps of the generator it pulls from, each once
\* and in order, for any number of questions and of runs that replace each other.
THEOREM StepsBelongToStream == Spec => []StepsOfStream
<1>1. IInv => StepsOfStream
  BY DEF IInv
<1> QED BY <1>1, InvariantHolds, PTL

-----------------------------------------------------------------------------
(* The answers of the conversation.                                        *)

AnswersOf(s) == {i \in DOMAIN s : s[i].role = "assistant"}

LEMMA AnswersFinite ==
    ASSUME NEW s \in Seq(Messages)
    PROVE  IsFiniteSet(AnswersOf(s)) /\ Cardinality(AnswersOf(s)) \in Nat
<1>1. Len(s) \in Nat /\ DOMAIN s = 1..Len(s)
  OBVIOUS
<1>2. IsFiniteSet(1..Len(s))
  BY <1>1, FS_Interval
<1>3. AnswersOf(s) \in SUBSET (1..Len(s))
  BY <1>1 DEF AnswersOf
<1>4. IsFiniteSet(AnswersOf(s))
  BY <1>2, <1>3, FS_Subset
<1> QED BY <1>4, FS_CardinalityType

\* A question is no answer.
LEMMA AppendQuestion ==
    ASSUME NEW s \in Seq(Messages), NEW m \in Messages, m.role = "user"
    PROVE  AnswersOf(Append(s, m)) = AnswersOf(s)
<1>1. /\ Len(s) \in Nat /\ DOMAIN s = 1..Len(s)
      /\ DOMAIN Append(s, m) = 1..(Len(s) + 1)
      /\ Append(s, m)[Len(s) + 1] = m
      /\ \A i \in 1..Len(s) : Append(s, m)[i] = s[i]
  OBVIOUS
<1> QED BY <1>1 DEF AnswersOf

LEMMA AppendOneAnswer ==
    ASSUME NEW s \in Seq(Messages), NEW m \in Messages
    PROVE  Cardinality(AnswersOf(Append(s, m))) <= Cardinality(AnswersOf(s)) + 1
<1>1. /\ Len(s) \in Nat /\ DOMAIN s = 1..Len(s)
      /\ DOMAIN Append(s, m) = 1..(Len(s) + 1)
      /\ \A i \in 1..Len(s) : Append(s, m)[i] = s[i]
  OBVIOUS
<1> DEFINE more == AnswersOf(s) \cup {Len(s) + 1}
<1>2. AnswersOf(Append(s, m)) \in SUBSET more
  BY <1>1 DEF AnswersOf
<1>3. IsFiniteSet(AnswersOf(s)) /\ Cardinality(AnswersOf(s)) \in Nat
  BY AnswersFinite
<1>4. /\ IsFiniteSet(more)
      /\ Cardinality(more) = Cardinality(AnswersOf(s))
         \/ Cardinality(more) = Cardinality(AnswersOf(s)) + 1
  BY <1>3, FS_AddElement
<1> HIDE DEF more
<1>5. Cardinality(AnswersOf(Append(s, m))) <= Cardinality(more)
  BY <1>2, <1>4, FS_Subset
<1>6. Append(s, m) \in Seq(Messages)
  OBVIOUS
<1>7. Cardinality(AnswersOf(Append(s, m))) \in Nat
  BY <1>6, AnswersFinite
<1> QED BY <1>3, <1>4, <1>5, <1>7

\* _trim_chat_history forgets answers, and makes none.
LEMMA TrimmedAnswers ==
    ASSUME NEW s \in Seq(Messages)
    PROVE  Cardinality(AnswersOf(Trimmed(s))) <= Cardinality(AnswersOf(s))
<1>1. IsFiniteSet(AnswersOf(s)) /\ Cardinality(AnswersOf(s)) \in Nat
  BY AnswersFinite
<1>2. CASE Trimmed(s) = s
  BY <1>1, <1>2
<1>3. CASE Len(s) > 2 * MaxTurns /\ Trimmed(s) = SubSeq(s, Len(s) - 2 * MaxTurns + 1, Len(s))
  <2> DEFINE k == Len(s) - 2 * MaxTurns
             t == SubSeq(s, k + 1, Len(s))
  <2>1. MaxTurns \in Nat /\ Len(s) \in Nat /\ k \in Nat /\ DOMAIN s = 1..Len(s)
    BY <1>3
  <2>2. /\ DOMAIN t = 1..(Len(s) - k)
        /\ \A i \in 1..(Len(s) - k) : t[i] = s[k + i]
    BY <2>1
  <2> HIDE DEF k, t
  <2> DEFINE f == [i \in AnswersOf(t) |-> k + i]
  <2>3. f \in Injection(AnswersOf(t), AnswersOf(s))
    <3>1. \A i \in AnswersOf(t) : i \in Nat /\ k + i \in AnswersOf(s)
      BY <2>1, <2>2 DEF AnswersOf
    <3>2. \A i, j \in AnswersOf(t) : k + i = k + j => i = j
      BY <2>1, <3>1
    <3> QED BY <3>1, <3>2 DEF Injection, IsInjective
  <2>4. Cardinality(AnswersOf(t)) <= Cardinality(AnswersOf(s))
    BY <1>1, <2>3, FS_Injection
  <2> QED BY <1>3, <2>4 DEF t, k
<1> QED BY <1>2, <1>3 DEF Trimmed

\* A run that consumes a stream generates; one that stores the answer has ended
\* the generation.
RunGenerates ==
    /\ pc \in {"stopping", "pull", "next", "got", "after", "finalize"} => generating
    /\ pc \in {"append", "clear"} => ~generating

\* A question is unanswered while it is generated or its answer is to be stored.
Due == IF generating \/ pc = "append" THEN 1 ELSE 0
AnswersDue == Cardinality(Answers) + Due <= asked

AnswerInv == IInv /\ RunGenerates /\ AnswersDue

LEMMA AnswersOfMessages == Answers = AnswersOf(messages)
BY DEF Answers, AnswersOf

\* Without a new message no answer is due that was not.
LEMMA NoNewMessage ==
    ASSUME AnswerInv, messages' = messages, asked' \in Nat, asked <= asked',
           generating' \/ pc' = "append" =>
              generating \/ pc = "append" \/ asked' = asked + 1
    PROVE  AnswersDue'
<1>1. Answers' = Answers
  BY DEF Answers
<1>2. Cardinality(Answers) \in Nat /\ asked \in Nat
  BY AnswersOfMessages, AnswersFinite DEF AnswerInv, IInv, TypeOK
<1>3. Cardinality(Answers) + Due <= asked
  BY DEF AnswerInv, AnswersDue
<1>4. Due \in {0, 1} /\ Due' \in {0, 1} /\ (Due' = 1 => Due = 1 \/ asked' = asked + 1)
  BY DEF Due
<1> QED BY <1>1, <1>2, <1>3, <1>4 DEF AnswersDue

LEMMA AnswerStarts == Init => AnswerInv
<1> SUFFICES ASSUME Init PROVE AnswerInv
  OBVIOUS
<1>1. IInv
  BY InitHolds
<1>2. Answers = {}
  BY DEF Init, Answers
<1>3. AnswersDue
  BY <1>2, FS_EmptySet DEF Init, AnswersDue, Due
<1>4. RunGenerates
  BY DEF Init, RunGenerates
<1> QED BY <1>1, <1>3, <1>4 DEF AnswerInv

LEMMA AnswerStepKeeps == AnswerInv /\ [Next]_vars => AnswerInv'
<1> SUFFICES ASSUME AnswerInv, [Next]_vars PROVE AnswerInv'
  OBVIOUS
<1> USE DEF sessionVars, runVars, shown, bounds
<1>1. IInv' /\ TypeOK /\ RunGenerates /\ messages \in Seq(Messages) /\ asked \in Nat
  BY StepHolds DEF AnswerInv, IInv, TypeOK
<1>2. CASE Submit
  <2>1. pc' = "top" /\ messages' = messages /\ asked' = asked + 1
    BY <1>2 DEF Submit, StartRun
  <2> QED BY <1>1, <2>1, NoNewMessage DEF AnswerInv, RunGenerates
<1>3. CASE Click
  <2>1. pc' = "top" /\ messages' = messages /\ asked' = asked /\ generating' = generating
    BY <1>3 DEF Click, StartRun
  <2> QED BY <1>1, <2>1, NoNewMessage DEF AnswerInv, RunGenerates
<1>4. CASE Input
  <2>1. pc' \in {"unstop", "answer"} /\ asked' = asked /\ generating' = generating
    BY <1>4 DEF Input, Goto
  <2>2. Answers' = Answers
    <3>1. CASE trigger = "submit"
      <4>1. [role |-> "user", question |-> asked] \in Messages
        BY <3>1, <1>1 DEF AnswerInv, IInv, TypeOK, RunHasStream, Messages, Questions
      <4>2. messages' = Append(messages, [role |-> "user", question |-> asked])
        BY <1>4, <3>1 DEF Input
      <4>3. Answers' = AnswersOf(messages')
        BY DEF Answers, AnswersOf
      <4> QED BY <1>1, <4>1, <4>2, <4>3, AppendQuestion, AnswersOfMessages
    <3>2. CASE trigger # "submit"
      BY <1>4, <3>2 DEF Input, Answers
    <3> QED BY <3>1, <3>2
  <2>3. pc \notin {"append"}
    BY <1>4 DEF Input
  <2>4. AnswersDue' /\ RunGenerates'
    BY <2>1, <2>2, <2>3 DEF AnswerInv, AnswersDue, Due, RunGenerates
  <2> QED BY <1>1, <2>4 DEF AnswerInv
<1>5. CASE AppendAnswer
  <2> DEFINE answer == [role |-> "assistant", gen |-> it, parts |-> steps, how |-> how]
  <2>1. /\ pc = "append" /\ pc' = "clear" /\ asked' = asked /\ generating' = generating
        /\ messages' = Trimmed(Append(messages, answer))
    BY <1>5 DEF AppendAnswer, Goto
  <2>2. answer \in Messages
    BY <1>1, <2>1 DEF AnswerInv, IInv, TypeOK, RunHasStream, Messages, Questions
  <2> HIDE DEF answer
  <2>3. Append(messages, answer) \in Seq(Messages)
    BY <1>1, <2>2
  <2>4. /\ Cardinality(AnswersOf(messages')) <= Cardinality(AnswersOf(Append(messages, answer)))
        /\ Cardinality(AnswersOf(Append(messages, answer)))
              <= Cardinality(AnswersOf(messages)) + 1
    BY <1>1, <2>1, <2>2, <2>3, TrimmedAnswers, AppendOneAnswer
  <2>5. messages' \in Seq(Messages)
    BY <1>1 DEF IInv, TypeOK
  <2>6. /\ Cardinality(AnswersOf(messages)) \in Nat
        /\ Cardinality(AnswersOf(Append(messages, answer))) \in Nat
        /\ Cardinality(AnswersOf(messages')) \in Nat
    BY <1>1, <2>3, <2>5, AnswersFinite
  <2>7. Cardinality(AnswersOf(messages)) + 1 <= asked
    BY <2>1, AnswersOfMessages DEF AnswerInv, AnswersDue, Due
  <2>8. ~generating /\ Answers' = AnswersOf(messages')
    BY <1>1, <2>1 DEF RunGenerates, Answers, AnswersOf
  <2>9. AnswersDue'
    BY <1>1, <2>1, <2>4, <2>6, <2>7, <2>8 DEF AnswersDue, Due
  <2> QED BY <1>1, <2>1, <2>8, <2>9 DEF AnswerInv, RunGenerates
<1>6. ASSUME messages' = messages, asked' = asked, RunGenerates',
             generating' \/ pc' = "append" => generating \/ pc = "append"
      PROVE  AnswerInv'
  BY <1>1, <1>6, NoNewMessage DEF AnswerInv
<1>7. CASE ClearStop \/ ClearSteps \/ Create \/ After \/ ClearIter
  BY <1>1, <1>6, <1>7
     DEF ClearStop, ClearSteps, Create, After, ClearIter, Rerun, Goto, RunGenerates
<1>8. CASE Answer
  <2>1. pc' \in {"idle", "stopping", "pull"} /\ (pc' # "idle" => generating)
    BY <1>8, <1>1 DEF Answer, Goto, TypeOK
  <2> QED BY <1>6, <1>8, <2>1 DEF Answer, RunGenerates
<1>9. CASE Stopping
  BY <1>1, <1>6, <1>9 DEF Stopping, Rerun, Goto, RunGenerates
<1>10. CASE Pull \/ Next1 \/ Got
  <2>1. /\ pc \in {"pull", "next", "got"} /\ pc' \in {"next", "got", "pull", "finalize", "after"}
        /\ UNCHANGED <<messages, asked, generating>>
    BY <1>10 DEF Pull, Next1, Got, Goto
  <2> QED BY <1>1, <1>6, <2>1 DEF RunGenerates
<1>11. CASE EndGeneration
  BY <1>1, <1>6, <1>11 DEF EndGeneration, Goto, RunGenerates
<1>12. CASE (\E g \in Questions : ReplacedReturns(g)) \/ UNCHANGED vars
  <2>1. UNCHANGED <<messages, asked, generating, pc>>
    BY <1>12 DEF ReplacedReturns, vars
  <2> QED BY <1>1, <1>6, <2>1 DEF RunGenerates
<1> QED
  BY <1>2, <1>3, <1>4, <1>5, <1>7, <1>8, <1>9, <1>10, <1>11, <1>12 DEF Next, Script

\* However runs replace each other inside finalize_stream, no question is answered
\* twice, for any number of questions and any length of the history.
THEOREM NoDoubleAnswer == Spec => []OneAnswerEach
<1>1. AnswerInv => OneAnswerEach
  <2> SUFFICES ASSUME AnswerInv PROVE Cardinality(Answers) <= asked
    BY DEF OneAnswerEach
  <2>1. Cardinality(Answers) \in Nat /\ asked \in Nat
    BY AnswersOfMessages, AnswersFinite DEF AnswerInv, IInv, TypeOK
  <2> QED BY <2>1 DEF AnswerInv, AnswersDue, Due
<1> QED BY <1>1, AnswerStarts, AnswerStepKeeps, PTL DEF Spec
=============================================================================
