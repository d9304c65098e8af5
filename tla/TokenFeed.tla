----------------------------- MODULE TokenFeed -----------------------------
(***************************************************************************)
(* What a stream of answers promises: the reader gets the tokens the       *)
(* language model sent, in order and each once; it is told that the answer *)
(* is complete or failed only after the last of them; and it may leave at  *)
(* any time.                                                               *)
(***************************************************************************)
EXTENDS Naturals

CONSTANT Streams

VARIABLES
    sent,      \* how many tokens the model has sent
    got,       \* how many of them the reader has
    source,    \* "silent" before the model is asked, then "open", "ended", "failed"
    feed       \* what the reader was told: "open", "complete", "failed", "closed"

feedVars == <<sent, got, source, feed>>

Init ==
    /\ sent = [s \in Streams |-> 0] /\ got = [s \in Streams |-> 0]
    /\ source = [s \in Streams |-> "silent"]
    /\ feed = [s \in Streams |-> "open"]

\* Without documents the model is not asked at all.
Open(s) ==
    /\ source[s] = "silent" /\ feed[s] = "open"
    /\ source' = [source EXCEPT ![s] = "open"]
    /\ UNCHANGED <<sent, got, feed>>

Send(s) ==
    /\ source[s] = "open"
    /\ sent' = [sent EXCEPT ![s] = @ + 1]
    /\ UNCHANGED <<got, source, feed>>

EndSource(s) ==
    /\ source[s] = "open"
    /\ \E how \in {"ended", "failed"} : source' = [source EXCEPT ![s] = how]
    /\ UNCHANGED <<sent, got, feed>>

Deliver(s) ==
    /\ feed[s] = "open" /\ got[s] < sent[s]
    /\ got' = [got EXCEPT ![s] = @ + 1]
    /\ UNCHANGED <<sent, source, feed>>

Complete(s) ==
    /\ feed[s] = "open" /\ got[s] = sent[s] /\ source[s] \in {"silent", "ended"}
    /\ feed' = [feed EXCEPT ![s] = "complete"]
    /\ UNCHANGED <<sent, got, source>>

Fail(s) ==
    /\ feed[s] = "open" /\ got[s] = sent[s] /\ source[s] = "failed"
    /\ feed' = [feed EXCEPT ![s] = "failed"]
    /\ UNCHANGED <<sent, got, source>>

Close(s) ==
    /\ feed[s] = "open"
    /\ feed' = [feed EXCEPT ![s] = "closed"]
    /\ UNCHANGED <<sent, got, source>>

Next ==
    \E s \in Streams :
       \/ Open(s) \/ Send(s) \/ EndSource(s)
       \/ Deliver(s) \/ Complete(s) \/ Fail(s) \/ Close(s)

Spec == Init /\ [][Next]_feedVars
=============================================================================
