---------------------------- MODULE ChatSession ----------------------------
(***************************************************************************)
(* One browser session of src/app.py and src/ui/stream_responder.py: a     *)
(* question makes a generator, and each run of the script draws what was   *)
(* generated so far and pulls on.                                          *)
(*                                                                         *)
(* Streamlit is modelled by what it does to the script: every click starts *)
(* a run in a thread of its own at once, and the thread of the run before  *)
(* it dies when it next touches st or st.session_state.  An action below   *)
(* ends where the next such touch is; inside the generator there is none,  *)
(* so a run that is replaced there stays in it until it gives a step.      *)
(***************************************************************************)
EXTENDS Naturals, Sequences, FiniteSets

CONSTANTS
    MaxTurns,     \* MAX_CHAT_HISTORY_TURNS
    MaxQuestions, \* bound on the questions
    MaxSteps,     \* bound on the steps of an answer
    MaxClicks     \* bound on the other clicks

ASSUME ConstantsAssumption ==
    {MaxTurns, MaxQuestions, MaxSteps, MaxClicks} \subseteq Nat

VARIABLES
    messages,    \* the conversation
    generating,  \* is_generating
    stop,        \* stop_generation
    iter,        \* stream_iter: the question its generator is of, 0 for None
    steps,       \* stream_steps
    gens,        \* the generators, one to a question
    pc,          \* where the current run is, "idle" when the script has ended
    trigger,     \* the widget that started it
    it,          \* the generator its loop is over
    how,         \* status it gives finalize_stream
    inputOn,     \* whether the browser shows an enabled chat input
    stopOn,      \* whether it shows the stop button
    asked, clicks

sessionVars == <<messages, generating, stop, iter, steps>>
runVars == <<it, how>>
shown == <<inputOn, stopOn>>
bounds == <<asked, clicks>>
vars == <<sessionVars, gens, pc, trigger, runVars, shown, bounds>>

Questions == 1..MaxQuestions
Steps == [gen : Questions, pos : 1..MaxSteps]
Messages ==
    [role : {"user"}, question : Questions]
        \cup [role : {"assistant"}, gen : Questions, parts : Seq(Steps), how : {"success", "interrupted", "error"}]

TypeOK ==
    /\ messages \in Seq(Messages)
    /\ pc = "clear" => Len(messages) <= 2 * MaxTurns
    /\ generating \in BOOLEAN /\ stop \in BOOLEAN
    /\ iter \in 0..MaxQuestions
    /\ steps \in Seq(Steps)
    /\ gens \in [Questions -> [pos : 0..MaxSteps, open : BOOLEAN, busy : {"no", "run", "replaced"}]]
    /\ pc \in {"idle", "top", "unstop", "restep", "create", "answer", "stopping",
               "pull", "next", "got", "after", "finalize", "append", "clear"}
    /\ trigger \in {"none", "submit", "stop"}
    /\ it \in 0..MaxQuestions
    /\ how \in {"success", "interrupted", "error"}
    /\ inputOn \in BOOLEAN /\ stopOn \in BOOLEAN
    /\ asked \in 0..MaxQuestions /\ clicks \in 0..MaxClicks

Init ==
    /\ messages = <<>> /\ generating = FALSE /\ stop = FALSE /\ iter = 0 /\ steps = <<>>
    /\ gens = [q \in Questions |-> [pos |-> 0, open |-> TRUE, busy |-> "no"]]
    /\ pc = "idle" /\ trigger = "none" /\ it = 0 /\ how = "success"
    /\ inputOn = TRUE /\ stopOn = FALSE
    /\ asked = 0 /\ clicks = 0

-----------------------------------------------------------------------------
(* The browser.                                                            *)

\* A new run; the one before it dies, inside a generator only later.
StartRun(widget) ==
    /\ pc' = "top"
    /\ trigger' = widget
    /\ gens' = IF pc = "next" THEN [gens EXCEPT ![it].busy = "replaced"] ELSE gens

\* on_chat_submit runs before the script.
Submit ==
    /\ inputOn /\ asked < MaxQuestions
    /\ asked' = asked + 1
    /\ generating' = TRUE
    /\ StartRun("submit")
    /\ UNCHANGED <<messages, stop, iter, steps, runVars, shown, clicks>>

Click ==
    /\ clicks < MaxClicks
    /\ clicks' = clicks + 1
    /\ StartRun("none") \/ (stopOn /\ StartRun("stop"))
    /\ UNCHANGED <<sessionVars, runVars, shown, asked>>

-----------------------------------------------------------------------------
(* The script.                                                             *)

Goto(l) == pc' = l

\* st.rerun: the script from its top, by no widget.
Rerun == Goto("top") /\ trigger' = "none"

\* The chat input, line 488; a question goes into the conversation ...
Input ==
    /\ pc = "top"
    /\ inputOn' = ~generating
    /\ IF trigger = "submit"
       THEN /\ messages' = Append(messages, [role |-> "user", question |-> asked])
            /\ Goto("unstop")
       ELSE Goto("answer") /\ UNCHANGED messages
    /\ UNCHANGED <<generating, stop, iter, steps, gens, trigger, runVars, stopOn, bounds>>

\* ... and the state of the one before it is cleared, item by item.
ClearStop ==
    /\ pc = "unstop"
    /\ stop' = FALSE
    /\ Goto("restep")
    /\ UNCHANGED <<messages, generating, iter, steps, gens, trigger, runVars, shown, bounds>>

\* Mutant of ClearSteps: the steps of the question before are kept.
KeepSteps ==
    /\ pc = "restep"
    /\ Goto("create")
    /\ UNCHANGED <<sessionVars, gens, trigger, runVars, shown, bounds>>

ClearSteps ==
    /\ pc = "restep"
    /\ steps' = <<>>
    /\ Goto("create")
    /\ UNCHANGED <<messages, generating, stop, iter, gens, trigger, runVars, shown, bounds>>

\* rag_chain.stream(...) runs nothing yet.
Create ==
    /\ pc = "create"
    /\ iter' = asked
    /\ Rerun
    /\ UNCHANGED <<messages, generating, stop, steps, gens, runVars, shown, bounds>>

\* Lines 516 to 541; without a generator consume_stream returns at once.
Answer ==
    /\ pc = "answer"
    /\ stopOn' = generating
    /\ Goto(IF generating /\ trigger = "stop" THEN "stopping"
            ELSE IF generating /\ iter # 0 THEN "pull" ELSE "idle")
    /\ it' = iter
    /\ UNCHANGED <<sessionVars, gens, trigger, how, inputOn, bounds>>

\* A generator that is executing cannot be closed.
Closed(g) == IF gens[g].busy = "no" THEN [gens EXCEPT ![g].open = FALSE] ELSE gens

\* The stop button: with a generator it asks for the stop, without one it ends
\* the generation itself.
Stopping ==
    /\ pc = "stopping"
    /\ gens' = IF iter # 0 THEN Closed(iter) ELSE gens
    /\ stop' = (iter # 0)
    /\ generating' = (iter # 0)
    /\ Rerun
    /\ UNCHANGED <<messages, iter, steps, runVars, shown, bounds>>

-----------------------------------------------------------------------------
(* consume_stream.                                                         *)

\* next() on a generator another thread executes raises.
Pull ==
    /\ pc = "pull"
    /\ how' = IF gens[it].busy # "no" THEN "error" ELSE how
    /\ IF gens[it].busy = "no" /\ gens[it].open
       THEN gens' = [gens EXCEPT ![it].busy = "run"] /\ Goto("next")
       ELSE /\ Goto(IF gens[it].busy # "no" THEN "finalize" ELSE "after")
            /\ UNCHANGED gens
    /\ UNCHANGED <<sessionVars, trigger, it, shown, bounds>>

\* The chain gives a step, or ends or raises: then the generator is closed.
Gives(g) ==
    /\ gens[g].pos < MaxSteps
    /\ gens' = [gens EXCEPT ![g].pos = @ + 1, ![g].busy = "no"]
Finishes(g) == gens' = [gens EXCEPT ![g].open = FALSE, ![g].busy = "no"]

Next1 ==
    /\ pc = "next"
    /\ \/ Gives(it) /\ Goto("got") /\ UNCHANGED how
       \/ Finishes(it) /\ Goto("after") /\ UNCHANGED how
       \/ Finishes(it) /\ Goto("finalize") /\ how' = "error"
    /\ UNCHANGED <<sessionVars, trigger, it, shown, bounds>>

\* The thread of a replaced run comes out of the generator, and dies with what
\* it was given.
ReplacedReturns(g) ==
    /\ gens[g].busy = "replaced"
    /\ Gives(g) \/ Finishes(g)
    /\ UNCHANGED <<sessionVars, pc, trigger, runVars, shown, bounds>>

Got ==
    /\ pc = "got"
    /\ IF stop
       THEN Goto("after") /\ UNCHANGED steps
       ELSE /\ steps' = Append(steps, [gen |-> it, pos |-> gens[it].pos])
            /\ Goto("pull")
    /\ UNCHANGED <<messages, generating, stop, iter, gens, trigger, runVars, shown, bounds>>

After ==
    /\ pc = "after"
    /\ how' = IF stop THEN "interrupted" ELSE "success"
    /\ stop' = FALSE
    /\ Goto("finalize")
    /\ UNCHANGED <<messages, generating, iter, steps, gens, trigger, it, shown, bounds>>

-----------------------------------------------------------------------------
(* finalize_stream.                                                        *)

\* Mutant of EndGeneration: is_generating is left to the end.
EndGenerationLate ==
    /\ pc = "finalize"
    /\ Goto("append")
    /\ UNCHANGED <<sessionVars, gens, trigger, runVars, shown, bounds>>

\* Mutant of EndGeneration: is_generating is not reset after an error.
EndGenerationOfAnswer ==
    /\ pc = "finalize"
    /\ generating' = (how = "error")
    /\ Goto("append")
    /\ UNCHANGED <<messages, stop, iter, steps, gens, trigger, runVars, shown, bounds>>

EndGeneration ==
    /\ pc = "finalize"
    /\ generating' = FALSE
    /\ Goto("append")
    /\ UNCHANGED <<messages, stop, iter, steps, gens, trigger, runVars, shown, bounds>>

\* Mutant of Trimmed: one message too many is kept.
TrimmedToOneMore(s) ==
    IF Len(s) > 2 * MaxTurns THEN SubSeq(s, Len(s) - 2 * MaxTurns, Len(s)) ELSE s

\* _trim_chat_history.
Trimmed(s) ==
    IF Len(s) > 2 * MaxTurns THEN SubSeq(s, Len(s) - 2 * MaxTurns + 1, Len(s)) ELSE s

AppendAnswer ==
    /\ pc = "append"
    /\ messages' = Trimmed(Append(messages,
          [role |-> "assistant", gen |-> it, parts |-> steps, how |-> how]))
    /\ Goto("clear")
    /\ UNCHANGED <<generating, stop, iter, steps, gens, trigger, runVars, shown, bounds>>

\* The end of finalize_stream, and the close and the rerun behind it.
ClearIter ==
    /\ pc = "clear"
    /\ iter' = 0
    /\ gens' = IF how = "interrupted" THEN Closed(it) ELSE gens
    /\ Rerun
    /\ UNCHANGED <<messages, generating, stop, steps, runVars, shown, bounds>>

-----------------------------------------------------------------------------
Script ==
    \/ Input \/ ClearStop \/ ClearSteps \/ Create \/ Answer \/ Stopping
    \/ Pull \/ Next1 \/ Got \/ After \/ EndGeneration \/ AppendAnswer \/ ClearIter

Next ==
    \/ Submit \/ Click \/ Script
    \/ \E g \in Questions : ReplacedReturns(g)

Spec == Init /\ [][Next]_vars

\* Threads run, and the chain's generator always gives, ends or raises
\* (AnswerStream, NeverSilent); nothing makes the user click.
FairSpec ==
    /\ Spec
    /\ WF_vars(Script)
    /\ \A g \in Questions : WF_vars(ReplacedReturns(g))

-----------------------------------------------------------------------------
(* Properties.                                                             *)

\* What a run draws again are steps of the generator it pulls from, each once
\* and in order, whatever other runs were inside it (lines 499 and 521).
StepsOfStream ==
    \A i, j \in DOMAIN steps :
       /\ iter # 0 => steps[i].gen = iter
       /\ i < j => steps[i].gen = steps[j].gen /\ steps[i].pos < steps[j].pos

Answers == {i \in DOMAIN messages : messages[i].role = "assistant"}

\* However runs replace each other inside finalize_stream, none is given
\* twice: there are no more answers than questions (finalize_stream, lines
\* 114 to 125).
OneAnswerEach == Cardinality(Answers) <= asked

\* A generation with a generator ends, by its last step or by the stop button,
\* once the clicks end.
GenerationEnds == generating /\ iter # 0 ~> ~generating

\* An answer that is kept as a success has every step of its generator: a run
\* draws the accumulated steps again and goes on (comment at line 520).
AnswersHaveNoGaps ==
    \A i \in Answers :
       messages[i].how = "success" =>
          \A k \in DOMAIN messages[i].parts : messages[i].parts[k].pos = k

\* An answer follows its question.
AnswersFollowQuestion ==
    \A i \in Answers :
       i > 1 => /\ messages[i - 1].role = "user"
                /\ messages[i - 1].question = messages[i].gen
=============================================================================
