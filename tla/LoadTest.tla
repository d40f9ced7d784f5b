------------------------------ MODULE LoadTest ------------------------------
(***************************************************************************)
(* What dnsmeter promises of a test, with no threads in it: load steps run *)
(* one after the other, queries are sent and answers counted only while a  *)
(* step runs, and one report per step states exactly what was sent and     *)
(* counted in it, at one instant.                                          *)
(***************************************************************************)
EXTENDS Naturals, Sequences

CONSTANTS
    Threads,   \* who sends
    Steps      \* the load steps, 1 .. n

VARIABLES
    step,      \* load steps begun
    phase,     \* "between" steps, "running" one, or test "over"
    sent,      \* sent[t]: queries t has sent in this step
    counted,   \* counted[k]: answers to queries of step k counted in this step
    reports    \* the reports so far

vars == <<step, phase, sent, counted, reports>>

Init ==
    /\ step = 0 /\ phase = "between"
    /\ sent = [t \in Threads |-> 0] /\ counted = [k \in Steps |-> 0]
    /\ reports = <<>>

Begin ==
    /\ phase = "between" /\ step + 1 \in Steps
    /\ phase' = "running" /\ step' = step + 1
    /\ sent' = [t \in Threads |-> 0] /\ counted' = [k \in Steps |-> 0]
    /\ UNCHANGED reports

Send(t) ==
    /\ phase = "running"
    /\ sent' = [sent EXCEPT ![t] = @ + 1]
    /\ UNCHANGED <<step, phase, counted, reports>>

\* An answer can be to a query of an earlier step, never to one of a later step.
Count(k) ==
    /\ phase = "running" /\ k <= step
    /\ counted' = [counted EXCEPT ![k] = @ + 1]
    /\ UNCHANGED <<step, phase, sent, reports>>

\* The step is reported, and the test goes on or, if interrupted, is over.
Report ==
    /\ phase = "running"
    /\ reports' = Append(reports, [step |-> step, sent |-> sent, counted |-> counted])
    /\ phase' \in {"between", "over"}
    /\ UNCHANGED <<step, sent, counted>>

\* All steps are done.
Finish ==
    /\ phase = "between" /\ step + 1 \notin Steps
    /\ phase' = "over"
    /\ UNCHANGED <<step, sent, counted, reports>>

\* The next step cannot begin, or the running one fails: it is left without a report.
Fail ==
    /\ \/ phase = "between" /\ step + 1 \in Steps /\ step' = step + 1
       \/ phase = "running" /\ step' = step
    /\ phase' = "over"
    /\ UNCHANGED <<sent, counted, reports>>

Next ==
    \/ Begin
    \/ \E t \in Threads : Send(t)
    \/ \E k \in Steps : Count(k)
    \/ Report
    \/ Finish
    \/ Fail

Spec == Init /\ [][Next]_vars
=============================================================================
