---------------------------- MODULE SessionProofs ----------------------------
(***************************************************************************)
(* Proofs that the safety properties of Session hold for every pool of     *)
(* threads, every sequence of load steps and every bound.                  *)
(***************************************************************************)
EXTENDS Session, FiniteSetTheorems, TLAPS

\* Counting one up in a vector of counters gives a vector of counters.
LEMMA Increment ==
    ASSUME NEW S, NEW f \in [S -> Nat], NEW x
    PROVE  [f EXCEPT ![x] = @ + 1] \in [S -> Nat]
<1>1. ASSUME NEW y \in S PROVE [f EXCEPT ![x] = @ + 1][y] \in Nat
  <2>1. CASE x = y
    BY <2>1
  <2>2. CASE x # y
    BY <2>2
  <2> QED
    BY <2>1, <2>2
<1> QED
  BY <1>1

\* The initial state of a session satisfies the type invariant.
LEMMA TypeInit == Init => TypeOK
<1> SUFFICES ASSUME Init PROVE TypeOK
  OBVIOUS
<1>1. ClearedResults \in Results /\ ZeroSteps \in [Steps -> Nat] /\ ZeroThreads \in [Threads -> Nat]
  BY DEF Results, ClearedResults, ZeroThreads, ZeroSteps
<1>2. step \in 0 .. Len(Rates) /\ rows \in Seq(Rows)
  BY RatesAssumption DEF Init
<1> QED
  BY <1>1, <1>2 DEF Init, TypeOK, MainPCs, SenderPCs, ReceiverPCs

\* Every step of main, a sender, the receiver, the network or the user keeps the types.
LEMMA TypeStep == TypeOK /\ [Next]_vars => TypeOK'
<1> SUFFICES ASSUME TypeOK, [Next]_vars PROVE TypeOK'
  OBVIOUS
<1> USE DEF TypeOK, vars, mainVars, senderVars, receiverVars, netVars, resultVars
<1> USE DEF MainPCs, SenderPCs, ReceiverPCs
<1>r. Len(Rates) \in Nat
  BY RatesAssumption
<1>c. ClearedResults \in Results
  BY DEF Results, ClearedResults, ZeroThreads, ZeroSteps
<1>1. CASE BeginStep
  BY <1>1, <1>c, <1>r DEF BeginStep
<1>2. CASE RejectStep
  BY <1>2, <1>r DEF RejectStep, Fail
<1>3. CASE Sample1Fails
  BY <1>3, <1>c, <1>r DEF Sample1Fails, Fail
<1>4. CASE StartReceiver
  BY <1>4 DEF StartReceiver
<1>5. CASE StartThreads
  BY <1>5 DEF StartThreads
<1>6. CASE WarmUp
  BY <1>6 DEF WarmUp
<1>7. CASE PollReport
  BY <1>7, <1>c DEF PollReport
<1>8. CASE PollLeave
  BY <1>8 DEF PollLeave
<1>9. ASSUME NEW t \in Threads, ReadSender(t) PROVE TypeOK'
  BY <1>9 DEF ReadSender, Results
<1>10. CASE ReadReceiver
  BY <1>10 DEF ReadReceiver, Results
<1>11. CASE Show
  BY <1>11, <1>c DEF Show
<1>12. CASE StopReceiver
  BY <1>12 DEF StopReceiver
<1>13. CASE JoinReceiver
  BY <1>13 DEF JoinReceiver
<1>14. CASE Sample2
  BY <1>14, <1>c DEF Sample2
<1>15. CASE Sample2Fails \/ SaveFails
  BY <1>15 DEF Sample2Fails, SaveFails, Fail
<1>16. CASE StopThreads
  BY <1>16 DEF StopThreads
<1>17. CASE JoinThreads
  BY <1>17, <1>c DEF JoinThreads
<1>18. CASE Present
  BY <1>18, <1>c DEF Present, Rows
<1>19. CASE Finish
  BY <1>19 DEF Finish
<1>20. ASSUME NEW t \in Threads, SenderNext(t) PROVE TypeOK'
  <2>1. CASE SenderBegin(t)
    BY <2>1 DEF SenderBegin
  <2>2. CASE Send(t)
    <3>1. net' \in [Steps -> Nat]
      BY <2>2, Increment DEF Send
    <3>2. sent' \in [Threads -> Nat]
      BY <2>2 DEF Send
    <3> QED
      BY <2>2, <3>1, <3>2 DEF Send
  <2>3. CASE SendFails(t)
    BY <2>3 DEF SendFails
  <2>4. CASE EndLoop(t)
    BY <2>4 DEF EndLoop
  <2>5. CASE EndTimeout(t)
    BY <2>5 DEF EndTimeout
  <2> QED
    BY <1>20, <2>1, <2>2, <2>3, <2>4, <2>5 DEF SenderNext
<1>21. CASE ReceiverNext
  <2>1. CASE ReceiverBegin
    BY <2>1 DEF ReceiverBegin, ZeroSteps
  <2>2. CASE ReceiveNothing
    BY <2>2 DEF ReceiveNothing, AfterReceive
  <2>3. ASSUME NEW k \in Steps, Receive(k) PROVE TypeOK'
    BY <2>3 DEF Receive, AfterReceive
  <2> QED
    BY <1>21, <2>1, <2>2, <2>3 DEF ReceiverNext
<1>22. ASSUME NEW k \in Steps, NetAnswer(k) PROVE TypeOK'
  BY <1>22 DEF NetAnswer
<1>23. ASSUME NEW k \in Steps, NetDuplicate(k) PROVE TypeOK'
  BY <1>23 DEF NetDuplicate
<1>24. CASE Signal
  BY <1>24, <1>r DEF Signal
<1>25. CASE UNCHANGED vars
  BY <1>25
<1> QED
  BY <1>1, <1>2, <1>3, <1>4, <1>5, <1>6, <1>7, <1>8, <1>9, <1>10, <1>11, <1>12, <1>13,
     <1>14, <1>15, <1>16, <1>17, <1>18, <1>19, <1>20, <1>21, <1>22, <1>23, <1>24, <1>25
     DEF Next, MainNext, NetNext, Ended

\* Every state of a session is well-typed; in particular no load step index leaves
\* the range of the rates and no counter is ever negative.
THEOREM TypeCorrect == Spec => []TypeOK
BY TypeInit, TypeStep, PTL DEF Spec

\* Main starts and joins its threads in the order that ThreadPhases describes.
LEMMA PhasesStep == SessionInv /\ [Next]_vars => ThreadPhases'
<1> SUFFICES ASSUME SessionInv, [Next]_vars PROVE ThreadPhases'
  OBVIOUS
<1> USE DEF SessionInv, vars, mainVars, senderVars, receiverVars, netVars, resultVars
<1> USE DEF TypeOK, SenderPCs, ReceiverPCs, ThreadPhases, PoolRunning, ReceiverRunning, stopFlag,
            BeforeStart, Polling, Leaving, Concluding
<1>1. CASE BeginStep
  BY <1>1 DEF BeginStep
<1>2. CASE RejectStep
  BY <1>2 DEF RejectStep, Fail
<1>3. CASE Sample1Fails
  BY <1>3 DEF Sample1Fails, Fail
<1>4. CASE StartReceiver
  BY <1>4 DEF StartReceiver
<1>5. CASE StartThreads
  BY <1>5 DEF StartThreads
<1>6. CASE WarmUp
  BY <1>6 DEF WarmUp
<1>7. CASE PollReport
  BY <1>7 DEF PollReport
<1>8. CASE PollLeave
  BY <1>8 DEF PollLeave
<1>9. ASSUME NEW t \in Threads, ReadSender(t) PROVE ThreadPhases'
  BY <1>9 DEF ReadSender
<1>10. CASE ReadReceiver
  BY <1>10 DEF ReadReceiver
<1>11. CASE Show
  BY <1>11 DEF Show
<1>12. CASE StopReceiver
  BY <1>12 DEF StopReceiver
<1>13. CASE JoinReceiver
  BY <1>13 DEF JoinReceiver
<1>14. CASE Sample2
  BY <1>14 DEF Sample2
<1>15. CASE Sample2Fails \/ SaveFails
  BY <1>15 DEF Sample2Fails, SaveFails, Fail
<1>16. CASE StopThreads
  BY <1>16 DEF StopThreads
<1>17. CASE JoinThreads
  BY <1>17 DEF JoinThreads
<1>18. CASE Present
  BY <1>18 DEF Present
<1>19. CASE Finish
  BY <1>19 DEF Finish
<1>20. ASSUME NEW t \in Threads, SenderBegin(t) PROVE ThreadPhases'
  BY <1>20 DEF SenderBegin
<1>21. ASSUME NEW t \in Threads, Send(t) PROVE ThreadPhases'
  BY <1>21 DEF Send
<1>22. ASSUME NEW t \in Threads, SendFails(t) PROVE ThreadPhases'
  BY <1>22 DEF SendFails
<1>23. ASSUME NEW t \in Threads, EndLoop(t) PROVE ThreadPhases'
  BY <1>23 DEF EndLoop
<1>24. ASSUME NEW t \in Threads, EndTimeout(t) PROVE ThreadPhases'
  BY <1>24 DEF EndTimeout
<1>25. CASE ReceiverBegin
  BY <1>25 DEF ReceiverBegin
<1>26. CASE ReceiveNothing
  BY <1>26 DEF ReceiveNothing, AfterReceive
<1>27. ASSUME NEW k \in Steps, Receive(k) PROVE ThreadPhases'
  BY <1>27 DEF Receive, AfterReceive
<1>28. ASSUME NEW k \in Steps, NetAnswer(k) PROVE ThreadPhases'
  BY <1>28 DEF NetAnswer
<1>29. ASSUME NEW k \in Steps, NetDuplicate(k) PROVE ThreadPhases'
  BY <1>29 DEF NetDuplicate
<1>30. CASE Signal
  BY <1>30 DEF Signal
<1>31. CASE UNCHANGED vars
  BY <1>31
<1> QED
  BY <1>1, <1>2, <1>3, <1>4, <1>5, <1>6, <1>7, <1>8, <1>9, <1>10, <1>11, <1>12, <1>13,
     <1>14, <1>15, <1>16, <1>17, <1>18, <1>19, <1>20, <1>21, <1>22, <1>23, <1>24, <1>25,
     <1>26, <1>27, <1>28, <1>29, <1>30, <1>31
     DEF Next, MainNext, SenderNext, ReceiverNext, NetNext, Ended

\* A reading of main is never ahead of the counters, and the last one is exact.
LEMMA ReadingsStep == SessionInv /\ [Next]_vars => Readings'
<1> SUFFICES ASSUME SessionInv, [Next]_vars PROVE Readings'
  OBVIOUS
<1> USE DEF SessionInv, vars, mainVars, senderVars, receiverVars, netVars, resultVars
<1> USE DEF TypeOK, ThreadPhases, Readings, PoolRunning, ReceiverRunning, stopFlag,
            BeforeStart, Polling, Leaving, Concluding, Results, ClearedResults, ZeroThreads, ZeroSteps
<1>1. CASE BeginStep
  BY <1>1 DEF BeginStep
<1>2. CASE RejectStep
  BY <1>2 DEF RejectStep, Fail
<1>3. CASE Sample1Fails
  BY <1>3 DEF Sample1Fails, Fail
<1>4. CASE StartReceiver
  BY <1>4 DEF StartReceiver
<1>5. CASE StartThreads
  BY <1>5 DEF StartThreads
<1>6. CASE WarmUp
  BY <1>6 DEF WarmUp
<1>7. CASE PollReport
  BY <1>7 DEF PollReport
<1>8. CASE PollLeave
  BY <1>8 DEF PollLeave
<1>9. ASSUME NEW t \in Threads, ReadSender(t) PROVE Readings'
  <2>1. /\ res' = [res EXCEPT !.sent = [res.sent EXCEPT ![t] = sent[t]],
                             !.errors = [res.errors EXCEPT ![t] = errors[t]]]
        /\ UNCHANGED <<prev, sent, errors, rcv, rpc>> /\ todo' = todo \ {t}
    BY <1>9 DEF ReadSender
  <2>2. /\ res'.rcv = res.rcv /\ res'.sent[t] = sent[t] /\ res'.errors[t] = errors[t]
        /\ \A u \in Threads \ {t} : res'.sent[u] = res.sent[u] /\ res'.errors[u] = res.errors[u]
    BY <2>1
  <2>3. \/ mpc = "stats" /\ mpc' \in {"stats", "statsReceiver"}
        \/ mpc = "final" /\ mpc' \in {"final", "finalReceiver"}
    BY <1>9 DEF ReadSender
  <2>4. mpc' \in {"statsReceiver", "finalReceiver"} => todo' = {}
    BY <1>9 DEF ReadSender
  <2>5. sent[t] <= sent[t] /\ errors[t] <= errors[t]
    OBVIOUS
  <2>6. ASSUME mpc' \in {"stats", "statsReceiver"}, NEW u \in Threads \ todo'
        PROVE  /\ prev.sent[u] <= res'.sent[u] /\ res'.sent[u] <= sent[u]
               /\ prev.errors[u] <= res'.errors[u] /\ res'.errors[u] <= errors[u]
    <3>1. mpc = "stats" /\ (u = t \/ u \in Threads \ todo)
      BY <2>1, <2>3, <2>6
    <3>2. CASE u = t
      BY <3>1, <3>2, <2>2, <2>5
    <3>3. CASE u # t
      BY <3>1, <3>3, <2>2
    <3> QED
      BY <3>2, <3>3
  <2>7. ASSUME mpc' \in Concluding, NEW u \in Threads \ todo'
        PROVE  res'.sent[u] = sent[u] /\ res'.errors[u] = errors[u]
    <3>1. mpc = "final" /\ (u = t \/ u \in Threads \ todo)
      BY <2>1, <2>3, <2>7
    <3> QED
      BY <3>1, <2>2
  <2> QED
    BY <2>1, <2>2, <2>3, <2>4, <2>6, <2>7
<1>10. CASE ReadReceiver
  BY <1>10 DEF ReadReceiver
<1>11. CASE Show
  BY <1>11 DEF Show
<1>12. CASE StopReceiver
  BY <1>12 DEF StopReceiver
<1>13. CASE JoinReceiver
  BY <1>13 DEF JoinReceiver
<1>14. CASE Sample2
  <2>1. CASE stopFlag
    BY <1>14, <2>1 DEF Sample2
  <2>2. CASE ~stopFlag
    <3>1. mpc' = "final" /\ todo' = Threads /\ res' = ClearedResults
          /\ UNCHANGED <<prev, rcv, rpc>>
      BY <1>14, <2>2 DEF Sample2
    <3> QED
      BY <3>1
  <2> QED
    BY <2>1, <2>2
<1>15. CASE Sample2Fails \/ SaveFails
  BY <1>15 DEF Sample2Fails, SaveFails, Fail
<1>16. CASE StopThreads
  BY <1>16 DEF StopThreads
<1>17. CASE JoinThreads
  BY <1>17 DEF JoinThreads
<1>18. CASE Present
  BY <1>18 DEF Present
<1>19. CASE Finish
  BY <1>19 DEF Finish
<1>20. ASSUME NEW t \in Threads, SenderBegin(t) PROVE Readings'
  BY <1>20 DEF SenderBegin
<1>21. ASSUME NEW t \in Threads, Send(t) PROVE Readings'
  <2>1. mpc \notin Concluding /\ UNCHANGED <<mpc, prev, res, todo, errors, rcv, rpc>>
    BY <1>21 DEF Send
  <2>2. \A u \in Threads : sent[u] <= sent'[u]
    BY <1>21 DEF Send
  <2>3. \A u \in Threads : sent[u] \in Nat /\ sent'[u] \in Nat /\ prev.sent[u] \in Nat /\ res.sent[u] \in Nat
    BY <1>21 DEF Send
  <2>4. ASSUME mpc \in Polling, NEW u \in Threads PROVE prev.sent[u] <= sent'[u]
    <3>1. prev.sent[u] <= sent[u]
      BY <2>4 DEF Readings
    <3> HIDE DEF SessionInv, TypeOK, ThreadPhases, Readings
    <3> QED
      BY <3>1, <2>2, <2>3
  <2>5. ASSUME mpc \in {"stats", "statsReceiver", "show"}, NEW u \in Threads \ todo
        PROVE  res.sent[u] <= sent'[u]
    <3>1. res.sent[u] <= sent[u]
      BY <2>5 DEF Readings
    <3> HIDE DEF SessionInv, TypeOK, ThreadPhases, Readings
    <3> QED
      BY <3>1, <2>2, <2>3
  <2> QED
    BY <2>1, <2>4, <2>5
<1>22. ASSUME NEW t \in Threads, SendFails(t) PROVE Readings'
  <2>1. mpc \notin Concluding /\ UNCHANGED <<mpc, prev, res, todo, sent, rcv, rpc>>
    BY <1>22 DEF SendFails
  <2>2. \A u \in Threads : errors[u] <= errors'[u]
    BY <1>22 DEF SendFails
  <2>3. \A u \in Threads : errors[u] \in Nat /\ errors'[u] \in Nat /\ prev.errors[u] \in Nat /\ res.errors[u] \in Nat
    BY <1>22 DEF SendFails
  <2>4. ASSUME mpc \in Polling, NEW u \in Threads PROVE prev.errors[u] <= errors'[u]
    <3>1. prev.errors[u] <= errors[u]
      BY <2>4 DEF Readings
    <3> HIDE DEF SessionInv, TypeOK, ThreadPhases, Readings
    <3> QED
      BY <3>1, <2>2, <2>3
  <2>5. ASSUME mpc \in {"stats", "statsReceiver", "show"}, NEW u \in Threads \ todo
        PROVE  res.errors[u] <= errors'[u]
    <3>1. res.errors[u] <= errors[u]
      BY <2>5 DEF Readings
    <3> HIDE DEF SessionInv, TypeOK, ThreadPhases, Readings
    <3> QED
      BY <3>1, <2>2, <2>3
  <2> QED
    BY <2>1, <2>4, <2>5
<1>23. ASSUME NEW t \in Threads, EndLoop(t) PROVE Readings'
  BY <1>23 DEF EndLoop
<1>24. ASSUME NEW t \in Threads, EndTimeout(t) PROVE Readings'
  BY <1>24 DEF EndTimeout
<1>25. CASE ReceiverBegin
  BY <1>25 DEF ReceiverBegin
<1>26. CASE ReceiveNothing
  BY <1>26 DEF ReceiveNothing, AfterReceive
<1>27. ASSUME NEW k \in Steps, Receive(k) PROVE Readings'
  <2>1. mpc # "present" /\ UNCHANGED <<mpc, prev, res, todo, sent, errors>>
        /\ rpc # "absent" /\ rpc' # "absent"
    BY <1>27 DEF Receive, AfterReceive
  <2>2. \A j \in Steps : rcv[j] <= rcv'[j]
    BY <1>27 DEF Receive
  <2>3. \A j \in Steps : rcv[j] \in Nat /\ rcv'[j] \in Nat /\ prev.rcv[j] \in Nat /\ res.rcv[j] \in Nat
    BY <1>27 DEF Receive
  <2>4. ASSUME mpc \in Polling, NEW j \in Steps PROVE prev.rcv[j] <= rcv'[j]
    <3>1. prev.rcv[j] <= rcv[j]
      BY <2>4 DEF Readings
    <3> HIDE DEF SessionInv, TypeOK, ThreadPhases, Readings
    <3> QED
      BY <3>1, <2>2, <2>3
  <2>5. ASSUME mpc = "show", NEW j \in Steps PROVE res.rcv[j] <= rcv'[j]
    <3>1. res.rcv[j] <= rcv[j]
      BY <2>5 DEF Readings
    <3> HIDE DEF SessionInv, TypeOK, ThreadPhases, Readings
    <3> QED
      BY <3>1, <2>2, <2>3
  <2> QED
    BY <2>1, <2>4, <2>5
<1>28. ASSUME NEW k \in Steps, NetAnswer(k) PROVE Readings'
  BY <1>28 DEF NetAnswer
<1>29. ASSUME NEW k \in Steps, NetDuplicate(k) PROVE Readings'
  BY <1>29 DEF NetDuplicate
<1>30. CASE Signal
  BY <1>30 DEF Signal
<1>31. CASE UNCHANGED vars
  BY <1>31
<1> QED
  BY <1>1, <1>2, <1>3, <1>4, <1>5, <1>6, <1>7, <1>8, <1>9, <1>10, <1>11, <1>12, <1>13,
     <1>14, <1>15, <1>16, <1>17, <1>18, <1>19, <1>20, <1>21, <1>22, <1>23, <1>24, <1>25,
     <1>26, <1>27, <1>28, <1>29, <1>30, <1>31
     DEF Next, MainNext, SenderNext, ReceiverNext, NetNext, Ended

\* Rows are appended in order, and a signal lets at most one more step begin.
LEMMA ReportingStep == SessionInv /\ [Next]_vars => Reporting'
<1> SUFFICES ASSUME SessionInv, [Next]_vars PROVE Reporting'
  OBVIOUS
<1> USE DEF SessionInv, vars, mainVars, senderVars, receiverVars, netVars, resultVars
<1> USE DEF TypeOK, ThreadPhases, Readings, Reporting, PoolRunning, ReceiverRunning, stopFlag,
            BeforeStart, Polling, Leaving, Concluding
<1>1. CASE BeginStep
  BY <1>1 DEF BeginStep
<1>2. CASE RejectStep
  BY <1>2 DEF RejectStep, Fail
<1>3. CASE Sample1Fails
  BY <1>3 DEF Sample1Fails, Fail
<1>4. CASE StartReceiver
  BY <1>4 DEF StartReceiver
<1>5. CASE StartThreads
  BY <1>5 DEF StartThreads
<1>6. CASE WarmUp
  BY <1>6 DEF WarmUp
<1>7. CASE PollReport
  BY <1>7 DEF PollReport
<1>8. CASE PollLeave
  BY <1>8 DEF PollLeave
<1>9. ASSUME NEW t \in Threads, ReadSender(t) PROVE Reporting'
  BY <1>9 DEF ReadSender
<1>10. CASE ReadReceiver
  BY <1>10 DEF ReadReceiver
<1>11. CASE Show
  BY <1>11 DEF Show
<1>12. CASE StopReceiver
  BY <1>12 DEF StopReceiver
<1>13. CASE JoinReceiver
  BY <1>13 DEF JoinReceiver
<1>14. CASE Sample2
  BY <1>14 DEF Sample2
<1>15. CASE Sample2Fails \/ SaveFails
  BY <1>15 DEF Sample2Fails, SaveFails, Fail
<1>16. CASE StopThreads
  BY <1>16 DEF StopThreads
<1>17. CASE JoinThreads
  BY <1>17 DEF JoinThreads
<1>18. CASE Present
  BY <1>18 DEF Present
<1>19. CASE Finish
  BY <1>19 DEF Finish
<1>20. ASSUME NEW t \in Threads, SenderBegin(t) PROVE Reporting'
  BY <1>20 DEF SenderBegin
<1>21. ASSUME NEW t \in Threads, Send(t) PROVE Reporting'
  BY <1>21 DEF Send
<1>22. ASSUME NEW t \in Threads, SendFails(t) PROVE Reporting'
  BY <1>22 DEF SendFails
<1>23. ASSUME NEW t \in Threads, EndLoop(t) PROVE Reporting'
  BY <1>23 DEF EndLoop
<1>24. ASSUME NEW t \in Threads, EndTimeout(t) PROVE Reporting'
  BY <1>24 DEF EndTimeout
<1>25. CASE ReceiverBegin
  BY <1>25 DEF ReceiverBegin
<1>26. CASE ReceiveNothing
  BY <1>26 DEF ReceiveNothing, AfterReceive
<1>27. ASSUME NEW k \in Steps, Receive(k) PROVE Reporting'
  BY <1>27 DEF Receive, AfterReceive
<1>28. ASSUME NEW k \in Steps, NetAnswer(k) PROVE Reporting'
  BY <1>28 DEF NetAnswer
<1>29. ASSUME NEW k \in Steps, NetDuplicate(k) PROVE Reporting'
  BY <1>29 DEF NetDuplicate
<1>30. CASE Signal
  BY <1>30 DEF Signal
<1>31. CASE UNCHANGED vars
  BY <1>31
<1> QED
  BY <1>1, <1>2, <1>3, <1>4, <1>5, <1>6, <1>7, <1>8, <1>9, <1>10, <1>11, <1>12, <1>13,
     <1>14, <1>15, <1>16, <1>17, <1>18, <1>19, <1>20, <1>21, <1>22, <1>23, <1>24, <1>25,
     <1>26, <1>27, <1>28, <1>29, <1>30, <1>31
     DEF Next, MainNext, SenderNext, ReceiverNext, NetNext, Ended

\* Only the running load step puts queries on the wire.
LEMMA InFlightStep == SessionInv /\ [Next]_vars => InFlight'
<1> SUFFICES ASSUME SessionInv, [Next]_vars PROVE InFlight'
  OBVIOUS
<1> USE DEF SessionInv, vars, mainVars, senderVars, receiverVars, netVars, resultVars
<1> USE DEF TypeOK, InFlight, Reporting
<1>s. \A k \in Steps : k \in Nat
  BY RatesAssumption DEF Steps
<1>1. CASE BeginStep
  BY <1>1, <1>s DEF BeginStep
<1>2. CASE RejectStep
  BY <1>2, <1>s DEF RejectStep, Fail
<1>3. CASE Sample1Fails
  BY <1>3, <1>s DEF Sample1Fails, Fail
<1>4. CASE StartReceiver
  BY <1>4 DEF StartReceiver
<1>5. CASE StartThreads
  BY <1>5 DEF StartThreads
<1>6. CASE WarmUp
  BY <1>6 DEF WarmUp
<1>7. CASE PollReport
  BY <1>7 DEF PollReport
<1>8. CASE PollLeave
  BY <1>8 DEF PollLeave
<1>9. ASSUME NEW t \in Threads, ReadSender(t) PROVE InFlight'
  BY <1>9 DEF ReadSender
<1>10. CASE ReadReceiver
  BY <1>10 DEF ReadReceiver
<1>11. CASE Show
  BY <1>11 DEF Show
<1>12. CASE StopReceiver
  BY <1>12 DEF StopReceiver
<1>13. CASE JoinReceiver
  BY <1>13 DEF JoinReceiver
<1>14. CASE Sample2
  BY <1>14 DEF Sample2
<1>15. CASE Sample2Fails \/ SaveFails
  BY <1>15 DEF Sample2Fails, SaveFails, Fail
<1>16. CASE StopThreads
  BY <1>16 DEF StopThreads
<1>17. CASE JoinThreads
  BY <1>17 DEF JoinThreads
<1>18. CASE Present
  BY <1>18 DEF Present
<1>19. CASE Finish
  BY <1>19 DEF Finish
<1>20. ASSUME NEW t \in Threads, SenderBegin(t) PROVE InFlight'
  BY <1>20 DEF SenderBegin
<1>21. ASSUME NEW t \in Threads, Send(t) PROVE InFlight'
  BY <1>21 DEF Send
<1>22. ASSUME NEW t \in Threads, SendFails(t) PROVE InFlight'
  BY <1>22 DEF SendFails
<1>23. ASSUME NEW t \in Threads, EndLoop(t) PROVE InFlight'
  BY <1>23 DEF EndLoop
<1>24. ASSUME NEW t \in Threads, EndTimeout(t) PROVE InFlight'
  BY <1>24 DEF EndTimeout
<1>25. CASE ReceiverBegin
  BY <1>25 DEF ReceiverBegin
<1>26. CASE ReceiveNothing
  BY <1>26 DEF ReceiveNothing, AfterReceive
<1>27. ASSUME NEW k \in Steps, Receive(k) PROVE InFlight'
  BY <1>27 DEF Receive, AfterReceive
<1>28. ASSUME NEW k \in Steps, NetAnswer(k) PROVE InFlight'
  BY <1>28 DEF NetAnswer
<1>29. ASSUME NEW k \in Steps, NetDuplicate(k) PROVE InFlight'
  BY <1>29 DEF NetDuplicate
<1>30. CASE Signal
  BY <1>30 DEF Signal
<1>31. CASE UNCHANGED vars
  BY <1>31
<1> QED
  BY <1>1, <1>2, <1>3, <1>4, <1>5, <1>6, <1>7, <1>8, <1>9, <1>10, <1>11, <1>12, <1>13,
     <1>14, <1>15, <1>16, <1>17, <1>18, <1>19, <1>20, <1>21, <1>22, <1>23, <1>24, <1>25,
     <1>26, <1>27, <1>28, <1>29, <1>30, <1>31
     DEF Next, MainNext, SenderNext, ReceiverNext, NetNext, Ended

\* The inductive invariant holds initially.
LEMMA SessionInit == Init => SessionInv
<1> SUFFICES ASSUME Init PROVE SessionInv
  OBVIOUS
<1>1. ThreadPhases
  BY DEF Init, ThreadPhases, PoolRunning, ReceiverRunning, BeforeStart,
     Polling, Leaving, Concluding
<1>2. Readings
  BY DEF Init, Readings, ClearedResults, Polling, Concluding
<1>3. Reporting
  BY DEF Init, Reporting, stopFlag, Concluding, ZeroThreads
<1>4. InFlight
  BY DEF Init, InFlight, ZeroSteps
<1> QED
  BY <1>1, <1>2, <1>3, <1>4, TypeInit DEF SessionInv

\* The inductive invariant holds in every state of a session.
THEOREM SessionInvariant == Spec => []SessionInv
<1>1. SessionInv /\ [Next]_vars => SessionInv'
  BY TypeStep, PhasesStep, ReadingsStep, ReportingStep, InFlightStep DEF SessionInv
<1> QED
  BY <1>1, SessionInit, PTL DEF Spec

\* When main is about to present a result, the inductive invariant makes it exact.
LEMMA InvImpliesExact == SessionInv => FinalReadingExact
<1> SUFFICES ASSUME SessionInv, mpc = "present"
             PROVE  /\ ~PoolRunning /\ ~ReceiverRunning
                    /\ res.sent = sent /\ res.errors = errors
                    /\ res.rcv = IF rpc = "absent" THEN ZeroSteps ELSE rcv
  BY DEF FinalReadingExact
<1>1. ~PoolRunning /\ ~ReceiverRunning
  BY DEF SessionInv, ThreadPhases, Concluding
<1>2. \A t \in Threads : res.sent[t] = sent[t] /\ res.errors[t] = errors[t]
  BY DEF SessionInv, Readings, Concluding
<1>3. /\ res.sent \in [Threads -> Nat] /\ sent \in [Threads -> Nat]
      /\ res.errors \in [Threads -> Nat] /\ errors \in [Threads -> Nat]
  BY DEF SessionInv, TypeOK, Results
<1>4. res.sent = sent /\ res.errors = errors
  BY <1>2, <1>3
<1>5. res.rcv = IF rpc = "absent" THEN ZeroSteps ELSE rcv
  BY DEF SessionInv, Readings
<1> QED
  BY <1>1, <1>4, <1>5

\* What is presented for a load step, interrupted or not, is exactly what its threads
\* counted, for any number of threads and however they interleave with getResults.
THEOREM FinalReadingIsExact == Spec => []FinalReadingExact
BY InvImpliesExact, SessionInvariant, PTL

\* The differences showCurrentStats prints never wrap around.
THEOREM DiffIsNonNegative == Spec => []DiffNonNegative
<1>1. SessionInv => DiffNonNegative
  BY DEF SessionInv, Readings, DiffNonNegative
<1> QED
  BY <1>1, SessionInvariant, PTL

\* Unless interrupted, the receiver listens for as long as any sender sends or waits.
THEOREM ListensWhileAwaited == Spec => []ListeningWhileAwaited
<1>1. SessionInv => ListeningWhileAwaited
  BY DEF SessionInv, TypeOK, ThreadPhases, ListeningWhileAwaited, MainPCs, BeforeStart,
     Polling, Leaving, Concluding
<1> QED
  BY <1>1, SessionInvariant, PTL

\* Every load step is reported once and in order, and the exit status says whether
\* the last one was.
THEOREM StepsReportedOnce == Spec => []ReportedOnce
<1>1. SessionInv => ReportedOnce
  BY DEF SessionInv, Reporting, ReportedOnce
<1> QED
  BY <1>1, SessionInvariant, PTL

\* At most one load step begins after a signal.
THEOREM SignalStopsPromptly == Spec => []StopsPromptly
<1>1. SessionInv => StopsPromptly
  BY DEF SessionInv, Reporting, StopsPromptly
<1> QED
  BY <1>1, SessionInvariant, PTL

\* A counter goes back only when its value is already in a report.
THEOREM ResultsNotWiped == Spec => NoResultWiped
<1> DEFINE Wiped(t) == sent'[t] < sent[t] \/ errors'[t] < errors[t]
           Saved(t) == /\ Len(rows) = step - 1 /\ Len(rows) > 0
                       /\ rows[Len(rows)].result.sent[t] = sent[t]
                       /\ rows[Len(rows)].result.errors[t] = errors[t]
<1>1. ASSUME SessionInv, Next, NEW t \in Threads, Wiped(t) PROVE Saved(t)
  <2> USE <1>1 DEF SessionInv, TypeOK
  <2>1. CASE MainNext \/ ReceiverNext \/ NetNext \/ Signal \/ Ended
    <3>1. UNCHANGED <<sent, errors>>
      BY <2>1 DEF MainNext, ReceiverNext, NetNext, Signal, Ended, vars, senderVars, Fail,
         BeginStep, RejectStep, Sample1Fails, StartReceiver, StartThreads, WarmUp, PollReport,
         PollLeave, ReadSender, ReadReceiver, Show, StopReceiver, JoinReceiver, Sample2,
         Sample2Fails, SaveFails, StopThreads, JoinThreads, Present, Finish, ReceiverBegin,
         ReceiveNothing, Receive, NetAnswer, NetDuplicate
    <3> QED
      BY <3>1
  <2>2. ASSUME NEW u \in Threads, SenderBegin(u) PROVE Saved(t)
    <3>1. t = u
      BY <2>2 DEF SenderBegin
    <3>2. spc[t] = "starting" /\ mpc = "warmup"
      BY <2>2, <3>1 DEF SenderBegin, ThreadPhases
    <3>3. Len(rows) = step - 1 /\ Len(rows) \in Nat
      BY <3>2 DEF Reporting
    <3>4. IF Len(rows) = 0
          THEN sent[t] = 0 /\ errors[t] = 0
          ELSE /\ rows[Len(rows)].result.sent[t] = sent[t]
               /\ rows[Len(rows)].result.errors[t] = errors[t]
      BY <3>2 DEF Reporting
    <3>5. sent'[t] = 0 /\ errors'[t] = 0
      BY <2>2, <3>1 DEF SenderBegin
    <3> QED
      BY <3>3, <3>4, <3>5
  <2>3. ASSUME NEW u \in Threads,
               Send(u) \/ SendFails(u) \/ EndLoop(u) \/ EndTimeout(u)
        PROVE  Saved(t)
    <3>1. CASE Send(u)
      BY <3>1 DEF Send
    <3>2. CASE SendFails(u)
      BY <3>2 DEF SendFails
    <3>3. CASE EndLoop(u) \/ EndTimeout(u)
      BY <3>3 DEF EndLoop, EndTimeout
    <3> QED
      BY <2>3, <3>1, <3>2, <3>3
  <2> QED
    BY <2>1, <2>2, <2>3 DEF Next, SenderNext
<1>2. SessionInv /\ [Next]_vars => [\A t \in Threads : Wiped(t) => Saved(t)]_vars
  BY <1>1
<1> QED
  BY <1>2, SessionInvariant, PTL DEF Spec, NoResultWiped

-----------------------------------------------------------------------------
(***************************************************************************)
(* Session implements LoadTest.                                            *)
(***************************************************************************)

\* The first state of the program is a first state of the abstract test.
LEMMA RefinesInit == Init => Test!Init
BY DEF Init, Test!Init, AbsPhase, AbsSent, AbsCounted, AbsReports, ZeroThreads, ZeroSteps

\* A step that leaves the phase, the counters and the rows alone is no step of the
\* abstract test.
LEMMA Unobserved ==
    ASSUME SessionInv, UNCHANGED <<step, AbsPhase, AbsSent, AbsCounted, rows>>
    PROVE  UNCHANGED Test!vars
BY DEF Test!vars, AbsReports

\* The steps of threads that only move on, and of a main that waits, reads or shows.
QuietMain ==
    \/ StartReceiver \/ StartThreads \/ WarmUp \/ PollReport \/ PollLeave
    \/ ReadReceiver \/ Show \/ StopReceiver \/ JoinReceiver \/ Sample2
    \/ StopThreads \/ JoinThreads \/ Signal \/ \E t \in Threads : ReadSender(t)

QuietThread ==
    \/ ReceiverBegin \/ ReceiveNothing
    \/ \E t \in Threads : SenderBegin(t) \/ SendFails(t) \/ EndLoop(t) \/ EndTimeout(t)

\* They leave alone what the abstract test sees, and the network.
LEMMA QuietStep ==
    ASSUME SessionInv, QuietMain \/ QuietThread \/ UNCHANGED vars
    PROVE  UNCHANGED <<step, AbsPhase, AbsSent, AbsCounted, rows, net, sock, dups>>
<1> DEFINE Same == UNCHANGED <<step, AbsPhase, AbsSent, AbsCounted, rows, net, sock, dups>>
<1> USE DEF SessionInv, TypeOK, vars, mainVars, senderVars, receiverVars, netVars, resultVars
<1> USE DEF AbsPhase, AbsSent, AbsCounted
<1>1. CASE StartReceiver
  BY <1>1 DEF StartReceiver, Readings, ZeroSteps
<1>2. CASE StartThreads
  BY <1>2 DEF StartThreads
<1>3. CASE WarmUp
  BY <1>3 DEF WarmUp
<1>4. CASE PollReport
  BY <1>4 DEF PollReport
<1>5. CASE PollLeave
  BY <1>5 DEF PollLeave
<1>6. CASE ReadReceiver
  BY <1>6 DEF ReadReceiver
<1>7. CASE Show
  BY <1>7 DEF Show
<1>8. CASE StopReceiver
  BY <1>8 DEF StopReceiver
<1>9. CASE JoinReceiver
  BY <1>9 DEF JoinReceiver
<1>10. CASE Sample2
  BY <1>10 DEF Sample2
<1>11. CASE StopThreads
  BY <1>11 DEF StopThreads
<1>12. CASE JoinThreads
  BY <1>12 DEF JoinThreads
<1>13. ASSUME NEW t \in Threads, ReadSender(t) PROVE Same
  BY <1>13 DEF ReadSender
<1>14. ASSUME NEW t \in Threads, SenderBegin(t) PROVE Same
  BY <1>14 DEF SenderBegin
<1>15. ASSUME NEW t \in Threads, SendFails(t) PROVE Same
  BY <1>15 DEF SendFails
<1>16. ASSUME NEW t \in Threads, EndLoop(t) PROVE Same
  BY <1>16 DEF EndLoop
<1>17. ASSUME NEW t \in Threads, EndTimeout(t) PROVE Same
  BY <1>17 DEF EndTimeout
<1>18. CASE ReceiverBegin
  BY <1>18 DEF ReceiverBegin, ZeroSteps
<1>19. CASE ReceiveNothing
  BY <1>19 DEF ReceiveNothing, AfterReceive
<1>20. CASE Signal
  BY <1>20 DEF Signal
<1>21. CASE UNCHANGED vars
  BY <1>21
<1> QED
  BY <1>1, <1>2, <1>3, <1>4, <1>5, <1>6, <1>7, <1>8, <1>9, <1>10, <1>11, <1>12, <1>13,
     <1>14, <1>15, <1>16, <1>17, <1>18, <1>19, <1>20, <1>21 DEF QuietMain, QuietThread

\* A query that is sent, as the abstract test sees it.
LEMMA SendSeen ==
    ASSUME SessionInv, NEW t \in Threads, Send(t)
    PROVE  /\ mpc \notin {"begin", "exit"}
           /\ AbsSent' = [AbsSent EXCEPT ![t] = @ + 1] /\ UNCHANGED <<step, AbsPhase, AbsCounted, rows>>
<1> USE DEF SessionInv, TypeOK, mainVars, receiverVars, resultVars, AbsPhase, AbsSent, AbsCounted
<1>1. mpc \notin {"begin", "exit", "startReceiver", "startThreads"} /\ spc[t] = "sending"
  BY DEF Send, ThreadPhases, BeforeStart, PoolRunning
<1>2. UNCHANGED <<step, AbsPhase, AbsCounted, rows>>
  BY <1>1 DEF Send
<1>3. AbsSent' = [AbsSent EXCEPT ![t] = @ + 1]
  BY <1>1 DEF Send
<1> QED
  BY <1>1, <1>2, <1>3

\* An answer that is received.
LEMMA ReceiveSeen ==
    ASSUME SessionInv, NEW k \in Steps, Receive(k)
    PROVE  /\ mpc \notin {"begin", "exit"} /\ k <= step
           /\ AbsCounted' = [AbsCounted EXCEPT ![k] = @ + 1]
           /\ UNCHANGED <<step, AbsPhase, AbsSent, rows>>
<1> USE DEF SessionInv, TypeOK, mainVars, senderVars, resultVars, AbsPhase, AbsSent, AbsCounted
<1>1. mpc \notin {"begin", "exit", "startReceiver"} /\ rpc = "listening" /\ rpc' # "starting"
  BY DEF Receive, AfterReceive, ThreadPhases, BeforeStart, ReceiverRunning
<1>2. UNCHANGED <<step, AbsPhase, AbsSent, rows>>
  BY <1>1 DEF Receive
<1>3. AbsCounted' = [AbsCounted EXCEPT ![k] = @ + 1]
  BY <1>1 DEF Receive
<1>4. k <= step
  BY RatesAssumption DEF Receive, InFlight, Steps
<1> QED
  BY <1>1, <1>2, <1>3, <1>4

\* A row that is presented.
LEMMA PresentSeen ==
    ASSUME SessionInv, Present
    PROVE  /\ rows' = Append(rows, [step |-> step, result |-> res, interrupted |-> aborted])
           /\ rows \in Seq(Rows) /\ res \in Results
           /\ res.sent = AbsSent /\ res.rcv = AbsCounted /\ UNCHANGED <<step, AbsSent, AbsCounted>>
<1> USE DEF SessionInv, TypeOK, mainVars, senderVars, receiverVars, AbsSent, AbsCounted
<1>1. UNCHANGED <<step, AbsSent, AbsCounted>>
  BY DEF Present
<1>2. ~PoolRunning /\ ~ReceiverRunning /\ res.sent = sent
      /\ res.rcv = IF rpc = "absent" THEN ZeroSteps ELSE rcv
  BY InvImpliesExact DEF Present, FinalReadingExact
<1>3. res.sent = AbsSent /\ res.rcv = AbsCounted
  BY <1>2 DEF Present, PoolRunning, ReceiverRunning, Readings, ZeroSteps
<1> QED
  BY <1>1, <1>3 DEF Present

\* Every step of the program is a step of the abstract test, or leaves it alone.
LEMMA RefinesStep == SessionInv /\ [Next]_vars => [Test!Next]_(Test!vars)
<1> SUFFICES ASSUME SessionInv, [Next]_vars PROVE [Test!Next]_(Test!vars)
  OBVIOUS
<1> USE DEF SessionInv, TypeOK, vars, mainVars, senderVars, receiverVars, netVars, resultVars
<1> DEFINE Same == UNCHANGED <<step, AbsPhase, AbsSent, AbsCounted, rows>>
<1>u. Same => UNCHANGED Test!vars
  BY Unobserved
<1> USE DEF AbsPhase, AbsSent, AbsCounted
<1>1. CASE BeginStep
  <2>1. Test!Begin
    BY <1>1, RatesAssumption DEF BeginStep, Test!Begin, AbsReports, Steps
  <2> QED
    BY <2>1 DEF Test!Next
<1>2. CASE RejectStep
  <2>1. Test!Fail
    BY <1>2, RatesAssumption DEF RejectStep, Fail, Test!Fail, AbsReports, Steps
  <2> QED
    BY <2>1 DEF Test!Next
<1>3. CASE Sample1Fails
  <2>1. Test!Fail
    BY <1>3, RatesAssumption DEF Sample1Fails, Fail, Test!Fail, AbsReports, Steps
  <2> QED
    BY <2>1 DEF Test!Next
<1>4. CASE Sample2Fails \/ SaveFails
  <2>1. Test!Fail
    BY <1>4 DEF Sample2Fails, SaveFails, Fail, Test!Fail, AbsReports
  <2> QED
    BY <2>1 DEF Test!Next
<1>5. CASE Present
  <2>1. Test!Report
    <3>1. AbsPhase = "running" /\ AbsPhase' \in {"between", "over"}
      BY <1>5 DEF Present
    <3>2. AbsReports' = Append(AbsReports, [step |-> step, sent |-> res.sent, counted |-> res.rcv])
      BY <1>5, PresentSeen DEF AbsReports
    <3> QED
      BY <1>5, <3>1, <3>2, PresentSeen DEF Test!Report
  <2> QED
    BY <2>1 DEF Test!Next
<1>6. CASE Finish
  <2>1. Test!Finish
    BY <1>6, RatesAssumption DEF Finish, Test!Finish, AbsReports, Steps
  <2> QED
    BY <2>1 DEF Test!Next
<1>7. ASSUME NEW t \in Threads, Send(t) PROVE Test!Next
  <2>1. Test!Send(t)
    BY <1>7, SendSeen DEF Test!Send, AbsReports
  <2> QED
    BY <2>1 DEF Test!Next
<1>8. ASSUME NEW k \in Steps, Receive(k) PROVE Test!Next
  <2>1. Test!Count(k)
    BY <1>8, ReceiveSeen DEF Test!Count, AbsReports
  <2> QED
    BY <2>1 DEF Test!Next
<1>9. ASSUME NEW k \in Steps, NetAnswer(k) PROVE Same
  BY <1>9 DEF NetAnswer
<1>10. ASSUME NEW k \in Steps, NetDuplicate(k) PROVE Same
  BY <1>10 DEF NetDuplicate
<1>11. CASE QuietMain \/ QuietThread \/ UNCHANGED vars
  BY <1>11, <1>u, QuietStep
<1> QED
  BY <1>u, <1>1, <1>2, <1>3, <1>4, <1>5, <1>6, <1>7, <1>8, <1>9, <1>10, <1>11
     DEF Next, MainNext, SenderNext, ReceiverNext, NetNext, Ended, QuietMain, QuietThread

\* The program implements the abstract load test, for any number of threads, any load
\* steps, any losses and duplicates, and a signal at any moment.
THEOREM SessionImplementsLoadTest == Spec => ImplementsLoadTest
BY RefinesInit, RefinesStep, SessionInvariant, PTL DEF Spec, ImplementsLoadTest, Test!Spec

-----------------------------------------------------------------------------
(***************************************************************************)
(* Totals.  A fold is a recursive function over the subsets of its domain; *)
(* that it is well defined, and what it computes, follows by induction on  *)
(* finite sets, with the set of the good arguments in place of a predicate.*)
(***************************************************************************)

\* The element a fold takes first.
Pick(s) == CHOOSE x \in s : TRUE

\* g holds the sums of f over the subsets of S, in the order a fold takes.
SumsOver(f, S, g) ==
    g = [s \in SUBSET S |-> IF s = {} THEN 0 ELSE f[Pick(s)] + g[s \ {Pick(s)}]]

\* The sum of f over S, as a fold computes it.
Sum(f, S) == (CHOOSE g : SumsOver(f, S, g))[S]

LEMMA TotalIsFold == \A f : Total(f) = Sum(f, DOMAIN f)
BY DEF Total, FoldFunction, FoldFunctionOnSet, MapThenFoldSet, Sum, SumsOver, Pick

LEMMA Smaller == \A s : s # {} => Pick(s) \in s
BY DEF Pick

LEMMA MinimalSubset ==
    ASSUME NEW S, IsFiniteSet(S), NEW T, T \subseteq SUBSET S, T # {}
    PROVE  \E s \in T : \A u \in T : u \subseteq s => u = s
<1> DEFINE F == FiniteSubsetsOf(S)
           R == StrictSubsetOrdering(S)
<1>1. IsWellFoundedOn(R, F)
  BY FS_StrictSubsetOrderingWellFounded
<1>2. F = SUBSET S
  BY FS_FiniteSubsetsOfFinite
<1>3. T \subseteq F /\ T # {}
  BY <1>2
<1> HIDE DEF F, R
<1>4. \E s \in T : \A u \in T : ~(<<u, s>> \in R)
  BY <1>1, <1>3, WFMin
<1> QED
  BY <1>4 DEF R, StrictSubsetOrdering

LEMMA SubsetInduction ==
    ASSUME NEW S, IsFiniteSet(S), NEW Good,
           \A s \in SUBSET S : (\A u \in SUBSET s : u # s => u \in Good) => s \in Good
    PROVE  SUBSET S \subseteq Good
<1> DEFINE Bad == {s \in SUBSET S : s \notin Good}
<1>1. SUFFICES ASSUME Bad # {} PROVE FALSE
  OBVIOUS
<1>2. PICK s \in Bad : \A u \in Bad : u \subseteq s => u = s
  <2>1. Bad \subseteq SUBSET S
    OBVIOUS
  <2> HIDE DEF Bad
  <2> QED
    BY <1>1, <2>1, MinimalSubset
<1>3. \A u \in SUBSET s : u # s => u \in Good
  BY <1>2
<1> QED
  BY <1>2, <1>3

Agree(f, e, S) == \A x \in S : f[x] = e[x]

\* The sums over subsets do not depend on the set they are taken from.
LEMMA SumsAgree ==
    ASSUME NEW f, NEW e, NEW S, IsFiniteSet(S), Agree(f, e, S),
           NEW T, S \subseteq T, NEW g, NEW h, SumsOver(f, S, g), SumsOver(e, T, h)
    PROVE  \A s \in SUBSET S : g[s] = h[s]
<1> DEFINE Good == {s \in SUBSET S : g[s] = h[s]}
<1>1. ASSUME NEW s \in SUBSET S, \A u \in SUBSET s : u # s => u \in Good PROVE s \in Good
  <2> DEFINE u == s \ {Pick(s)}
  <2>1. g[s] = IF s = {} THEN 0 ELSE f[Pick(s)] + g[u]
    BY DEF SumsOver
  <2>2. h[s] = IF s = {} THEN 0 ELSE e[Pick(s)] + h[u]
    BY DEF SumsOver
  <2>3. CASE s = {}
    BY <2>1, <2>2, <2>3
  <2>4. CASE s # {}
    <3>1. Pick(s) \in s /\ u \in SUBSET s /\ u # s
      BY <2>4, Smaller
    <3>2. g[u] = h[u] /\ f[Pick(s)] = e[Pick(s)]
      BY <1>1, <3>1 DEF Agree
    <3> QED
      BY <2>1, <2>2, <2>4, <3>2
  <2> QED
    BY <2>3, <2>4
<1>2. SUBSET S \subseteq Good
  <2> HIDE DEF Good
  <2> QED
    BY <1>1, SubsetInduction
<1> QED
  BY <1>2

LEMMA SumsNested ==
    ASSUME NEW f, NEW S, IsFiniteSet(S), NEW T, S \in SUBSET T,
           NEW g, NEW h, SumsOver(f, S, g), SumsOver(f, T, h)
    PROVE  g[S] = h[S]
<1>1. S \subseteq T /\ Agree(f, f, S)
  BY DEF Agree
<1>2. \A s \in SUBSET S : g[s] = h[s]
  BY <1>1, SumsAgree
<1> QED
  BY <1>2

\* There are such sums.
LEMMA SumsExist ==
    ASSUME NEW f, NEW S, IsFiniteSet(S)
    PROVE  \E g : SumsOver(f, S, g)
<1> DEFINE Good == {s \in SUBSET S : \E g : SumsOver(f, s, g)}
<1>1. ASSUME NEW s \in SUBSET S, \A u \in SUBSET s : u # s => u \in Good PROVE s \in Good
  <2> DEFINE Less(u) == u \ {Pick(u)}
             Of(u) == CHOOSE h : SumsOver(f, u, h)
             g == [u \in SUBSET s |-> IF u = {} THEN 0 ELSE f[Pick(u)] + Sum(f, Less(u))]
  <2>1. ASSUME NEW u \in SUBSET s, u # s PROVE SumsOver(f, u, Of(u))
    <3>1. \E h : SumsOver(f, u, h)
      BY <1>1, <2>1
    <3> HIDE DEF Of
    <3> QED
      BY <3>1 DEF Of
  <2>2. ASSUME NEW u \in SUBSET s, u # s PROVE Sum(f, u) = g[u]
    <3>1. SumsOver(f, u, Of(u)) /\ Sum(f, u) = Of(u)[u]
      BY <2>1, <2>2 DEF Sum
    <3>2. Of(u)[u] = IF u = {} THEN 0 ELSE f[Pick(u)] + Of(u)[Less(u)]
      <4> HIDE DEF Of
      <4> QED
        BY <3>1 DEF SumsOver
    <3>3. CASE u = {}
      BY <3>1, <3>2, <3>3
    <3>4. CASE u # {}
      <4>1. Less(u) \in SUBSET s /\ Less(u) # s /\ Less(u) \subseteq u
        BY <2>2
      <4>2. SumsOver(f, Less(u), Of(Less(u))) /\ Sum(f, Less(u)) = Of(Less(u))[Less(u)]
        BY <2>1, <4>1 DEF Sum
      <4>3. IsFiniteSet(Less(u))
        BY <4>1, FS_Subset
      <4>4. Of(Less(u))[Less(u)] = Of(u)[Less(u)]
        <5> HIDE DEF Of, Less
        <5> QED
          BY <3>1, <4>1, <4>2, <4>3, SumsNested
      <4> QED
        BY <3>1, <3>2, <3>4, <4>2, <4>4
    <3> QED
      BY <3>3, <3>4
  <2>3. ASSUME NEW u \in SUBSET s, u # {} PROVE Sum(f, Less(u)) = g[Less(u)]
    <3>1. Pick(u) \in u
      BY <2>3, Smaller
    <3>2. Less(u) \in SUBSET s /\ Less(u) # s
      BY <3>1
    <3> QED
      BY <2>2, <3>2
  <2>4. g = [u \in SUBSET s |-> IF u = {} THEN 0 ELSE f[Pick(u)] + g[Less(u)]]
    BY <2>3
  <2>5. SumsOver(f, s, g)
    BY <2>4 DEF SumsOver
  <2> QED
    BY <2>5
<1>2. SUBSET S \subseteq Good
  <2> HIDE DEF Good
  <2> QED
    BY <1>1, SubsetInduction
<1> QED
  BY <1>2

LEMMA SumsAre ==
    ASSUME NEW f, NEW S, IsFiniteSet(S)
    PROVE  \E g : SumsOver(f, S, g) /\ \A s \in SUBSET S : g[s] = Sum(f, s)
<1> DEFINE g == CHOOSE h : SumsOver(f, S, h)
<1>1. SumsOver(f, S, g)
  BY SumsExist
<1>2. ASSUME NEW s \in SUBSET S PROVE g[s] = Sum(f, s)
  <2> DEFINE k == CHOOSE h : SumsOver(f, s, h)
  <2>1. IsFiniteSet(s)
    BY FS_Subset
  <2>2. SumsOver(f, s, k)
    BY <2>1, SumsExist
  <2>3. Sum(f, s) = k[s]
    BY DEF Sum
  <2> HIDE DEF g, k
  <2> QED
    BY <1>1, <2>1, <2>2, <2>3, SumsNested
<1> QED
  BY <1>1, <1>2

\* A sum is that of one element and the rest.
LEMMA SumOfRest ==
    ASSUME NEW f, NEW S, IsFiniteSet(S)
    PROVE  Sum(f, S) = IF S = {} THEN 0 ELSE f[Pick(S)] + Sum(f, S \ {Pick(S)})
<1>1. PICK g : SumsOver(f, S, g) /\ \A s \in SUBSET S : g[s] = Sum(f, s)
  BY SumsAre
<1>2. g[S] = IF S = {} THEN 0 ELSE f[Pick(S)] + g[S \ {Pick(S)}]
  BY <1>1 DEF SumsOver
<1> QED
  BY <1>1, <1>2

LEMMA SumSame ==
    ASSUME NEW f, NEW e, NEW S, IsFiniteSet(S), Agree(f, e, S)
    PROVE  Sum(f, S) = Sum(e, S)
<1>1. PICK g : SumsOver(f, S, g) /\ \A s \in SUBSET S : g[s] = Sum(f, s)
  BY SumsAre
<1>2. PICK h : SumsOver(e, S, h) /\ \A s \in SUBSET S : h[s] = Sum(e, s)
  BY SumsAre
<1>3. \A s \in SUBSET S : g[s] = h[s]
  BY <1>1, <1>2, SumsAgree
<1> QED
  BY <1>1, <1>2, <1>3

LEMMA SumNat ==
    ASSUME NEW f, NEW S, IsFiniteSet(S), \A x \in S : f[x] \in Nat
    PROVE  \A s \in SUBSET S : Sum(f, s) \in Nat
<1> DEFINE Good == {s \in SUBSET S : Sum(f, s) \in Nat}
<1>1. ASSUME NEW s \in SUBSET S, \A u \in SUBSET s : u # s => u \in Good PROVE s \in Good
  <2>1. IsFiniteSet(s)
    BY FS_Subset
  <2>2. Sum(f, s) = IF s = {} THEN 0 ELSE f[Pick(s)] + Sum(f, s \ {Pick(s)})
    BY <2>1, SumOfRest
  <2>3. CASE s # {}
    <3>1. Pick(s) \in s
      BY <2>3, Smaller
    <3>2. s \ {Pick(s)} \in Good /\ f[Pick(s)] \in Nat
      BY <1>1, <3>1
    <3> QED
      BY <2>2, <2>3, <3>2
  <2> QED
    BY <2>2, <2>3
<1>2. SUBSET S \subseteq Good
  <2> HIDE DEF Good
  <2> QED
    BY <1>1, SubsetInduction
<1> QED
  BY <1>2

\* It does not matter which element is taken.
LEMMA SumSplits ==
    ASSUME NEW f, NEW S, IsFiniteSet(S), \A x \in S : f[x] \in Nat
    PROVE  \A s \in SUBSET S : \A x \in s : Sum(f, s) = f[x] + Sum(f, s \ {x})
<1> DEFINE Good == {s \in SUBSET S : \A x \in s : Sum(f, s) = f[x] + Sum(f, s \ {x})}
<1>1. ASSUME NEW s \in SUBSET S, \A u \in SUBSET s : u # s => u \in Good PROVE s \in Good
  <2> SUFFICES ASSUME NEW x \in s PROVE Sum(f, s) = f[x] + Sum(f, s \ {x})
    OBVIOUS
  <2> DEFINE c == Pick(s)
  <2>1. IsFiniteSet(s) /\ c \in s
    BY FS_Subset, Smaller
  <2>2. Sum(f, s) = f[c] + Sum(f, s \ {c})
    BY <2>1, SumOfRest
  <2>3. CASE x # c
    <3>1. s \ {c} \in Good /\ s \ {x} \in Good
      BY <1>1, <2>1
    <3>2. (s \ {c}) \ {x} = (s \ {x}) \ {c}
      OBVIOUS
    <3>3. Sum(f, s \ {c}) = f[x] + Sum(f, (s \ {x}) \ {c})
      BY <2>3, <3>1, <3>2
    <3>4. Sum(f, s \ {x}) = f[c] + Sum(f, (s \ {x}) \ {c})
      BY <2>1, <2>3, <3>1
    <3>5. f[x] \in Nat /\ f[c] \in Nat /\ Sum(f, (s \ {x}) \ {c}) \in Nat
      BY <2>1, SumNat
    <3> HIDE DEF c
    <3> QED
      BY <2>2, <3>3, <3>4, <3>5
  <2> QED
    BY <2>2, <2>3
<1>2. SUBSET S \subseteq Good
  <2> HIDE DEF Good
  <2> QED
    BY <1>1, SubsetInduction
<1> QED
  BY <1>2

LEMMA SumZero ==
    ASSUME NEW f, NEW S, IsFiniteSet(S), \A x \in S : f[x] = 0
    PROVE  Sum(f, S) = 0
<1> DEFINE Good == {s \in SUBSET S : Sum(f, s) = 0}
<1>1. ASSUME NEW s \in SUBSET S, \A u \in SUBSET s : u # s => u \in Good PROVE s \in Good
  <2>1. IsFiniteSet(s)
    BY FS_Subset
  <2>2. Sum(f, s) = IF s = {} THEN 0 ELSE f[Pick(s)] + Sum(f, s \ {Pick(s)})
    BY <2>1, SumOfRest
  <2>3. CASE s # {}
    <3>1. Pick(s) \in s
      BY <2>3, Smaller
    <3>2. s \ {Pick(s)} \in Good /\ f[Pick(s)] = 0
      BY <1>1, <3>1
    <3> QED
      BY <2>2, <2>3, <3>2
  <2> QED
    BY <2>2, <2>3
<1>2. SUBSET S \subseteq Good
  <2> HIDE DEF Good
  <2> QED
    BY <1>1, SubsetInduction
<1> QED
  BY <1>2

\* What the totals of vectors of counters are.
LEMMA TotalNat ==
    ASSUME NEW S, IsFiniteSet(S), NEW f \in [S -> Nat]
    PROVE  Total(f) \in Nat
BY SumNat, TotalIsFold

LEMMA TotalZero ==
    ASSUME NEW S, IsFiniteSet(S), NEW f, DOMAIN f = S, \A x \in S : f[x] = 0
    PROVE  Total(f) = 0
BY SumZero, TotalIsFold

LEMMA TotalSplits ==
    ASSUME NEW S, IsFiniteSet(S), NEW f \in [S -> Nat], NEW x \in S
    PROVE  Total(f) = f[x] + Sum(f, S \ {x}) /\ Sum(f, S \ {x}) \in Nat
BY SumSplits, SumNat, TotalIsFold

LEMMA TotalMember ==
    ASSUME NEW S, IsFiniteSet(S), NEW f \in [S -> Nat], NEW x \in S
    PROVE  f[x] <= Total(f)
<1>1. Total(f) = f[x] + Sum(f, S \ {x}) /\ Sum(f, S \ {x}) \in Nat
  BY TotalSplits
<1> QED
  BY <1>1

LEMMA TotalIncrement ==
    ASSUME NEW S, IsFiniteSet(S), NEW f \in [S -> Nat], NEW x \in S
    PROVE  Total([f EXCEPT ![x] = @ + 1]) = Total(f) + 1
<1> DEFINE e == [f EXCEPT ![x] = @ + 1]
<1>1. e \in [S -> Nat] /\ e[x] = f[x] + 1
  OBVIOUS
<1>2. IsFiniteSet(S \ {x}) /\ Agree(f, e, S \ {x})
  BY FS_Subset DEF Agree
<1>3. Sum(f, S \ {x}) = Sum(e, S \ {x})
  BY <1>2, SumSame
<1> HIDE DEF e
<1>4. Total(e) = e[x] + Sum(e, S \ {x})
  BY <1>1, TotalSplits
<1>5. Total(f) = f[x] + Sum(f, S \ {x}) /\ Sum(f, S \ {x}) \in Nat /\ f[x] \in Nat
  BY TotalSplits
<1>6. Total(e) = Total(f) + 1
  BY <1>1, <1>3, <1>4, <1>5
<1> QED
  BY <1>6 DEF e

LEMMA TotalOneMore ==
    ASSUME NEW n \in Nat, NEW f \in [1 .. (n + 1) -> Nat], NEW e \in [1 .. n -> Nat],
           \A i \in 1 .. n : f[i] = e[i]
    PROVE  Total(f) = Total(e) + f[n + 1]
<1> DEFINE S == 1 .. (n + 1)
<1>1. IsFiniteSet(S) /\ IsFiniteSet(1 .. n) /\ n + 1 \in S /\ S \ {n + 1} = 1 .. n
  <2>1. 1 \in Int /\ n \in Int /\ n + 1 \in Int
    OBVIOUS
  <2>2. IsFiniteSet(S) /\ IsFiniteSet(1 .. n)
    BY <2>1, FS_Interval
  <2>3. n + 1 \in S /\ S \ {n + 1} = 1 .. n
    OBVIOUS
  <2> QED
    BY <2>2, <2>3
<1>2. Total(f) = f[n + 1] + Sum(f, S \ {n + 1}) /\ Sum(f, S \ {n + 1}) \in Nat
  <2> HIDE DEF S
  <2>1. f \in [S -> Nat]
    BY DEF S
  <2> QED
    BY <1>1, <2>1, TotalSplits
<1>3. Sum(f, 1 .. n) = Sum(e, 1 .. n)
  BY <1>1, SumSame DEF Agree
<1>4. Total(e) = Sum(e, 1 .. n)
  BY TotalIsFold
<1>5. f[n + 1] \in Nat
  BY <1>1
<1>6. Total(f) = f[n + 1] + Total(e) /\ Total(e) \in Nat
  BY <1>1, <1>2, <1>3, <1>4
<1> QED
  BY <1>5, <1>6

-----------------------------------------------------------------------------
(***************************************************************************)
(* Every answer is counted once.                                           *)
(***************************************************************************)

\* What the counters of the abstract test are.
LEMMA AbsTypes ==
    ASSUME SessionInv
    PROVE  /\ AbsSent \in [Threads -> Nat] /\ AbsCounted \in [Steps -> Nat]
           /\ step \in Nat /\ Len(rows) \in Nat /\ IsFiniteSet(Steps)
           /\ \A k \in Steps : net[k] \in Nat /\ sock[k] \in Nat /\ dups[k] \in Nat /\ k \in Nat
           /\ \A i \in 1 .. Len(rows) : /\ rows[i].result.sent \in [Threads -> Nat]
                                        /\ rows[i].result.rcv \in [Steps -> Nat]
<1> USE DEF SessionInv, TypeOK
<1>1. Len(Rates) \in Nat
  BY RatesAssumption
<1>2. IsFiniteSet(Steps)
  <2>1. 1 \in Int /\ Len(Rates) \in Int
    BY <1>1
  <2> QED
    BY <2>1, FS_Interval DEF Steps
<1>3. AbsSent \in [Threads -> Nat] /\ AbsCounted \in [Steps -> Nat]
  BY DEF AbsSent, AbsCounted
<1>4. \A i \in 1 .. Len(rows) : /\ rows[i].result.sent \in [Threads -> Nat]
                                /\ rows[i].result.rcv \in [Steps -> Nat]
  <2>1. rows \in Seq(Rows)
    OBVIOUS
  <2> HIDE DEF SessionInv, TypeOK
  <2>2. \A i \in 1 .. Len(rows) : rows[i] \in Rows
    BY <2>1
  <2> QED
    BY <2>2 DEF Rows, Results
<1>5. step \in Nat /\ Len(rows) \in Nat
  BY <1>1
<1>6. \A k \in Steps : net[k] \in Nat /\ sock[k] \in Nat /\ dups[k] \in Nat /\ k \in Nat
  BY <1>1 DEF Steps
<1> QED
  BY <1>2, <1>3, <1>4, <1>5, <1>6

\* The answers to queries of load step k in the rows so far.
InRows(k) == Total([i \in 1 .. Len(rows) |-> rows[i].result.rcv[k]])

LEMMA CountTypes ==
    ASSUME SessionInv, NEW k \in Steps
    PROVE  InRows(k) \in Nat /\ SentIn(k) \in Nat /\ CountedOf(k) \in Nat
<1>1. InRows(k) \in Nat
  <2> DEFINE e == [i \in 1 .. Len(rows) |-> rows[i].result.rcv[k]]
  <2>1. e \in [1 .. Len(rows) -> Nat]
    BY AbsTypes
  <2>2. IsFiniteSet(1 .. Len(rows))
    <3>1. 1 \in Int /\ Len(rows) \in Int
      BY AbsTypes
    <3> QED
      BY <3>1, FS_Interval
  <2> HIDE DEF e
  <2>3. Total(e) \in Nat
    BY <2>1, <2>2, TotalNat
  <2> QED
    BY <2>3 DEF InRows, e
<1>2. SentIn(k) \in Nat
  <2>1. CASE k <= Len(rows)
    <3>1. rows[k].result.sent \in [Threads -> Nat]
      BY <2>1, AbsTypes, RatesAssumption DEF Steps
    <3> QED
      BY <2>1, <3>1, TotalNat, ThreadsAssumption DEF SentIn
  <2>2. CASE ~(k <= Len(rows))
    <3>1. Total(AbsSent) \in Nat
      BY AbsTypes, TotalNat, ThreadsAssumption
    <3> QED
      BY <2>2, <3>1 DEF SentIn
  <2> QED
    BY <2>1, <2>2
<1>3. AbsCounted[k] \in Nat
  BY AbsTypes
<1> QED
  BY <1>1, <1>2, <1>3 DEF CountedOf, InRows

\* Totals that are made of the same numbers are the same.
LEMMA SameTotals ==
    ASSUME UNCHANGED <<step, rows, AbsSent, AbsCounted>>
    PROVE  \A k \in Steps : SentIn(k)' = SentIn(k) /\ CountedOf(k)' = CountedOf(k)
BY DEF SentIn, CountedOf

\* One load step more begins, with nothing sent and nothing counted.
LEMMA BeginTotals ==
    ASSUME SessionInv, BeginStep, NEW k \in Steps
    PROVE  SentIn(k)' = SentIn(k) /\ CountedOf(k)' = CountedOf(k)
<1>1. /\ mpc = "begin" /\ mpc' = "startReceiver" /\ step' = step + 1 /\ rows' = rows
  BY DEF BeginStep
<1>2. Len(rows) = step /\ step \in Nat
  BY <1>1, AbsTypes DEF SessionInv, Reporting
<1>3. DOMAIN AbsSent' = Threads /\ \A t \in Threads : AbsSent'[t] = 0
  BY <1>1 DEF AbsSent
<1>4. Total(AbsSent') = 0
  BY <1>3, TotalZero, ThreadsAssumption
<1>5. AbsCounted'[k] = 0
  BY <1>1 DEF AbsCounted
<1>6. SentIn(k)' = SentIn(k)
  <2>1. SentIn(k) = IF k <= Len(rows) THEN Total(rows[k].result.sent) ELSE 0
    BY <1>2, AbsTypes DEF SentIn
  <2>2. SentIn(k)' = IF k <= Len(rows) THEN Total(rows[k].result.sent) ELSE 0
    BY <1>1, <1>4 DEF SentIn
  <2> QED
    BY <2>1, <2>2
<1>7. CountedOf(k)' = CountedOf(k)
  <2>1. CountedOf(k) = InRows(k) + 0
    BY <1>2 DEF CountedOf, InRows
  <2>2. CountedOf(k)' = InRows(k) + 0
    BY <1>1, <1>2, <1>5 DEF CountedOf, InRows
  <2> QED
    BY <2>1, <2>2
<1> QED
  BY <1>6, <1>7

\* The counters become a row.
LEMMA PresentTotals ==
    ASSUME SessionInv, Present, NEW k \in Steps
    PROVE  SentIn(k)' = SentIn(k) /\ CountedOf(k)' = CountedOf(k)
<1> DEFINE n == Len(rows)
           row == [step |-> step, result |-> res, interrupted |-> aborted]
<1>1. /\ n = step - 1 /\ step' = step /\ step \in Nat /\ n \in Nat /\ k \in Nat /\ k > 0
  <2>1. mpc = "present"
    BY DEF Present
  <2> QED
    BY <2>1, PresentSeen, AbsTypes, RatesAssumption DEF SessionInv, Reporting, Steps
<1>2. /\ rows' = Append(rows, row) /\ rows \in Seq(Rows) /\ row \in Rows
      /\ row.result.sent = AbsSent /\ row.result.rcv = AbsCounted
  <2>1. row \in Rows
    BY PresentSeen, AbsTypes DEF Rows, SessionInv, TypeOK
  <2> QED
    BY <2>1, PresentSeen
<1> HIDE DEF row
<1>3. Len(rows') = n + 1 /\ rows'[n + 1] = row /\ \A i \in 1 .. n : rows'[i] = rows[i]
  BY <1>2
<1>4. SentIn(k)' = SentIn(k)
  <2>1. CASE k <= n
    <3>1. rows'[k] = rows[k] /\ k <= Len(rows')
      BY <1>1, <1>3, <2>1
    <3> QED
      BY <2>1, <3>1 DEF SentIn
  <2>2. CASE k = n + 1
    <3>1. SentIn(k) = Total(AbsSent)
      BY <1>1, <2>2 DEF SentIn
    <3>2. SentIn(k)' = Total(rows'[k].result.sent)
      BY <1>1, <1>3, <2>2 DEF SentIn
    <3> QED
      BY <1>2, <1>3, <2>2, <3>1, <3>2
  <2>3. CASE k > n + 1
    <3>1. SentIn(k) = 0
      BY <1>1, <2>3 DEF SentIn
    <3>2. SentIn(k)' = 0
      BY <1>1, <1>3, <2>3 DEF SentIn
    <3> QED
      BY <3>1, <3>2
  <2> QED
    BY <1>1, <2>1, <2>2, <2>3
<1>5. CountedOf(k)' = CountedOf(k)
  <2> DEFINE e == [i \in 1 .. n |-> rows[i].result.rcv[k]]
             f == [i \in 1 .. (n + 1) |-> rows'[i].result.rcv[k]]
  <2>1. e \in [1 .. n -> Nat]
    BY AbsTypes
  <2>2. AbsCounted[k] \in Nat
    BY AbsTypes
  <2>3. f[n + 1] = AbsCounted[k] /\ \A i \in 1 .. n : f[i] = e[i]
    BY <1>1, <1>2, <1>3
  <2>4. f \in [1 .. (n + 1) -> Nat]
    <3>1. \A i \in 1 .. (n + 1) : i \in 1 .. n \/ i = n + 1
      BY <1>1
    <3> QED
      BY <2>1, <2>2, <2>3, <3>1
  <2>5. CountedOf(k) = Total(e) + AbsCounted[k]
    BY <1>1 DEF CountedOf
  <2>6. CountedOf(k)' = Total(f) + 0
    BY <1>1, <1>3 DEF CountedOf
  <2> HIDE DEF e, f
  <2>7. Total(f) = Total(e) + f[n + 1]
    BY <1>1, <2>1, <2>3, <2>4, TotalOneMore
  <2>8. Total(f) \in Nat
    <3>1. 1 \in Int /\ n + 1 \in Int
      BY <1>1
    <3>2. IsFiniteSet(1 .. (n + 1))
      BY <3>1, FS_Interval
    <3> QED
      BY <2>4, <3>2, TotalNat
  <2> QED
    BY <2>3, <2>5, <2>6, <2>7, <2>8
<1> QED
  BY <1>4, <1>5

\* A query more is in flight, and in the counter of its thread.
LEMMA SendTotals ==
    ASSUME SessionInv, NEW t \in Threads, Send(t), NEW k \in Steps
    PROVE  SentIn(k)' = (IF k = step THEN SentIn(k) + 1 ELSE SentIn(k)) /\ CountedOf(k)' = CountedOf(k)
<1>1. /\ AbsSent' = [AbsSent EXCEPT ![t] = @ + 1]
      /\ UNCHANGED <<step, AbsCounted, rows>> /\ Len(rows) = step - 1 /\ step \in Nat
  BY SendSeen, AbsTypes DEF SessionInv, Reporting
<1>2. Total(AbsSent') = Total(AbsSent) + 1
  BY <1>1, AbsTypes, TotalIncrement, ThreadsAssumption
<1>3. SentIn(k)' = IF k = step THEN SentIn(k) + 1 ELSE SentIn(k)
  <2>1. CASE k = step
    <3>1. ~(k <= Len(rows))
      BY <1>1, <2>1
    <3> QED
      BY <1>1, <1>2, <2>1, <3>1 DEF SentIn
  <2>2. CASE k # step
    BY <1>1, <2>2 DEF SentIn
  <2> QED
    BY <2>1, <2>2
<1> QED
  BY <1>1, <1>3 DEF CountedOf

\* An answer less is in the socket, and one more counted.
LEMMA ReceiveTotals ==
    ASSUME SessionInv, NEW j \in Steps, Receive(j), NEW k \in Steps
    PROVE  CountedOf(k)' = (IF k = j THEN CountedOf(k) + 1 ELSE CountedOf(k)) /\ SentIn(k)' = SentIn(k)
<1>1. /\ AbsCounted' = [AbsCounted EXCEPT ![j] = @ + 1]
      /\ UNCHANGED <<step, AbsSent, rows>> /\ Len(rows) = step - 1 /\ step \in Nat
  BY ReceiveSeen, AbsTypes DEF SessionInv, Reporting
<1>2. AbsCounted[k] \in Nat /\ InRows(k) \in Nat
  BY AbsTypes, CountTypes
<1>3. AbsCounted'[k] = IF k = j THEN AbsCounted[k] + 1 ELSE AbsCounted[k]
  BY <1>1, AbsTypes
<1>4. CountedOf(k) = InRows(k) + AbsCounted[k]
  BY <1>1 DEF CountedOf, InRows
<1>5. CountedOf(k)' = InRows(k) + AbsCounted'[k]
  BY <1>1 DEF CountedOf, InRows
<1>6. CountedOf(k)' = IF k = j THEN CountedOf(k) + 1 ELSE CountedOf(k)
  BY <1>2, <1>3, <1>4, <1>5
<1> QED
  BY <1>1, <1>6 DEF SentIn

\* A step ends the test, or the test has not ended before; a receiver is there from the
\* beginning or never.
LEMMA GoesOn ==
    ASSUME SessionInv, Next, mpc' # "exit", rpc' # "absent"
    PROVE  mpc # "exit" /\ rpc # "absent"
<1> USE DEF SessionInv, TypeOK, vars, mainVars, senderVars, receiverVars, netVars, resultVars
<1>1. CASE MainNext
  BY <1>1 DEF MainNext, BeginStep, RejectStep, Sample1Fails, Fail, StartReceiver, StartThreads,
     WarmUp, PollReport, PollLeave, ReadSender, ReadReceiver, Show, StopReceiver, JoinReceiver,
     Sample2, Sample2Fails, SaveFails, StopThreads, JoinThreads, Present, Finish
<1>2. ASSUME NEW t \in Threads, SenderNext(t) PROVE mpc # "exit" /\ rpc # "absent"
  BY <1>2 DEF SenderNext, SenderBegin, Send, SendFails, EndLoop, EndTimeout
<1>3. CASE ReceiverNext
  BY <1>3 DEF ReceiverNext, ReceiverBegin, ReceiveNothing, Receive, AfterReceive
<1>4. CASE NetNext \/ Signal
  BY <1>4 DEF NetNext, NetAnswer, NetDuplicate, Signal
<1>5. ~Ended
  BY DEF Ended
<1> QED
  BY <1>1, <1>2, <1>3, <1>4, <1>5 DEF Next

\* Every step keeps the balance of queries and answers.
LEMMA AnswersStep == SessionInv /\ AnswersCountedOnce /\ [Next]_vars => AnswersCountedOnce'
<1> SUFFICES ASSUME SessionInv, AnswersCountedOnce, [Next]_vars, mpc' # "exit", rpc' # "absent",
                    NEW k \in Steps
             PROVE  net'[k] + sock'[k] + CountedOf(k)' = SentIn(k)' + dups'[k]
  BY DEF AnswersCountedOnce
<1>1. /\ net \in [Steps -> Nat] /\ sock \in [Steps -> Nat] /\ dups \in [Steps -> Nat]
      /\ net[k] \in Nat /\ sock[k] \in Nat /\ dups[k] \in Nat
      /\ SentIn(k) \in Nat /\ CountedOf(k) \in Nat
  BY CountTypes DEF SessionInv, TypeOK
<1>2. net[k] + sock[k] + CountedOf(k) = SentIn(k) + dups[k]
  <2>1. CASE UNCHANGED vars
    BY <2>1 DEF AnswersCountedOnce, vars, mainVars, receiverVars
  <2>2. CASE Next
    BY <2>2, GoesOn DEF AnswersCountedOnce
  <2> QED
    BY <2>1, <2>2
<1>3. CASE QuietMain \/ QuietThread \/ UNCHANGED vars
  BY <1>2, <1>3, QuietStep, SameTotals
<1>4. CASE BeginStep
  BY <1>2, <1>4, BeginTotals DEF BeginStep, netVars
<1>5. CASE Present
  BY <1>2, <1>5, PresentTotals DEF Present, netVars
<1>6. CASE RejectStep \/ Sample1Fails \/ Sample2Fails \/ SaveFails \/ Finish
  BY <1>6 DEF RejectStep, Sample1Fails, Sample2Fails, SaveFails, Finish, Fail
<1>7. ASSUME NEW t \in Threads, Send(t)
      PROVE  net'[k] + sock'[k] + CountedOf(k)' = SentIn(k)' + dups'[k]
  <2>1. /\ SentIn(k)' = IF k = step THEN SentIn(k) + 1 ELSE SentIn(k)
        /\ CountedOf(k)' = CountedOf(k)
    BY <1>7, SendTotals
  <2>2. net'[k] = (IF k = step THEN net[k] + 1 ELSE net[k]) /\ UNCHANGED <<sock, dups>>
    BY <1>1, <1>7 DEF Send
  <2> QED
    BY <1>1, <1>2, <2>1, <2>2
<1>8. ASSUME NEW j \in Steps, Receive(j)
      PROVE  net'[k] + sock'[k] + CountedOf(k)' = SentIn(k)' + dups'[k]
  <2>1. /\ CountedOf(k)' = IF k = j THEN CountedOf(k) + 1 ELSE CountedOf(k)
        /\ SentIn(k)' = SentIn(k)
    BY <1>8, ReceiveTotals
  <2>2. sock'[k] = (IF k = j THEN sock[k] - 1 ELSE sock[k]) /\ UNCHANGED <<net, dups>>
    BY <1>1, <1>8 DEF Receive
  <2> QED
    BY <1>1, <1>2, <2>1, <2>2
<1>9. ASSUME NEW j \in Steps, NetAnswer(j) \/ NetDuplicate(j)
      PROVE  net'[k] + sock'[k] + CountedOf(k)' = SentIn(k)' + dups'[k]
  <2>1. UNCHANGED <<step, rows, AbsSent, AbsCounted>>
    BY <1>9 DEF NetAnswer, NetDuplicate, mainVars, senderVars, receiverVars, resultVars, AbsSent,
       AbsCounted
  <2>2. SentIn(k)' = SentIn(k) /\ CountedOf(k)' = CountedOf(k)
    BY <2>1, SameTotals
  <2>3. CASE NetAnswer(j)
    <3>1. /\ net'[k] = (IF k = j THEN net[k] - 1 ELSE net[k]) /\ dups' = dups
          /\ sock'[k] = (IF k = j THEN sock[k] + 1 ELSE sock[k])
      BY <1>1, <2>3 DEF NetAnswer
    <3> QED
      BY <1>1, <1>2, <2>2, <3>1
  <2>4. CASE NetDuplicate(j)
    <3>1. /\ dups'[k] = (IF k = j THEN dups[k] + 1 ELSE dups[k]) /\ net' = net
          /\ sock'[k] = (IF k = j THEN sock[k] + 1 ELSE sock[k])
      BY <1>1, <2>4 DEF NetDuplicate
    <3> QED
      BY <1>1, <1>2, <2>2, <3>1
  <2> QED
    BY <1>9, <2>3, <2>4
<1> QED
  BY <1>3, <1>4, <1>5, <1>6, <1>7, <1>8, <1>9
     DEF Next, MainNext, SenderNext, ReceiverNext, NetNext, Ended, QuietMain, QuietThread

\* At the beginning nothing has been sent.
LEMMA AnswersInit == Init => AnswersCountedOnce
<1> SUFFICES ASSUME Init, NEW k \in Steps
             PROVE  net[k] + sock[k] + CountedOf(k) = SentIn(k) + dups[k]
  BY DEF AnswersCountedOnce
<1>1. net[k] = 0 /\ sock[k] = 0 /\ dups[k] = 0 /\ step = 0 /\ rows = <<>> /\ Len(rows) = 0
  BY DEF Init, ZeroSteps
<1>2. k > 0 /\ k \in Nat
  BY RatesAssumption DEF Steps
<1>3. SentIn(k) = 0
  BY <1>1, <1>2 DEF SentIn
<1>4. CountedOf(k) = 0
  <2> DEFINE e == [i \in 1 .. Len(rows) |-> rows[i].result.rcv[k]]
  <2>1. DOMAIN e = {}
    BY <1>1
  <2> HIDE DEF e
  <2>2. Total(e) = 0
    BY <2>1, TotalZero, FS_EmptySet
  <2> QED
    BY <1>1, <2>2 DEF CountedOf, e
<1> QED
  BY <1>1, <1>3, <1>4

\* Every query that was sent, and every copy the network made, is in flight, in the
\* socket, or counted in exactly one load step: for any number of threads and load steps.
THEOREM AnswersAreCountedOnce == Spec => []AnswersCountedOnce
BY AnswersInit, AnswersStep, SessionInvariant, PTL DEF Spec

\* No step counts an answer to a query of a load step that has not begun.
LEMMA EarlyStep == SessionInv /\ NothingEarly /\ [Next]_vars => NothingEarly'
<1> SUFFICES ASSUME SessionInv, NothingEarly, [Next]_vars, NEW k \in Steps
             PROVE  /\ k > step' => rcv'[k] = 0
                    /\ \A i \in 1 .. Len(rows') : k > i => rows'[i].result.rcv[k] = 0
  BY DEF NothingEarly
<1> DEFINE Early == /\ k > step' => rcv'[k] = 0
                    /\ \A i \in 1 .. Len(rows') : k > i => rows'[i].result.rcv[k] = 0
<1>1. /\ k > step => rcv[k] = 0
      /\ \A i \in 1 .. Len(rows) : k > i => rows[i].result.rcv[k] = 0
  BY DEF NothingEarly
<1>2. k \in Nat /\ step \in Nat /\ rcv \in [Steps -> Nat]
  BY AbsTypes DEF SessionInv, TypeOK
<1>3. CASE UNCHANGED <<rcv, rows>> /\ step' \in {step, step + 1}
  BY <1>1, <1>2, <1>3
<1>4. CASE MainNext /\ ~Present
  <2>1. UNCHANGED <<rcv, rows>> /\ step' \in {step, step + 1}
    BY <1>4 DEF MainNext, BeginStep, RejectStep, Sample1Fails, Fail, StartReceiver, StartThreads,
       WarmUp, PollReport, PollLeave, ReadSender, ReadReceiver, Show, StopReceiver, JoinReceiver,
       Sample2, Sample2Fails, SaveFails, StopThreads, JoinThreads, Finish, receiverVars, resultVars
  <2> QED
    BY <1>3, <2>1
<1>5. CASE Present
  <2> DEFINE n == Len(rows)
             row == [step |-> step, result |-> res, interrupted |-> aborted]
  <2>1. rows' = Append(rows, row) /\ rows \in Seq(Rows) /\ UNCHANGED <<step, rcv>>
    BY <1>5, PresentSeen DEF Present, receiverVars
  <2>2. n = step - 1 /\ n \in Nat /\ (k > step => row.result.rcv[k] = 0)
    <3>1. mpc = "present"
      BY <1>5 DEF Present
    <3>2. res.rcv = IF rpc = "absent" THEN ZeroSteps ELSE rcv
      BY <3>1, InvImpliesExact DEF FinalReadingExact
    <3> QED
      BY <1>1, <3>1, <3>2, AbsTypes DEF SessionInv, Reporting, ZeroSteps
  <2> HIDE DEF row
  <2>3. Len(rows') = n + 1 /\ rows'[n + 1] = row /\ \A i \in 1 .. n : rows'[i] = rows[i]
    BY <2>1
  <2>4. ASSUME NEW i \in 1 .. Len(rows'), k > i PROVE rows'[i].result.rcv[k] = 0
    <3>1. i \in 1 .. n \/ i = n + 1
      BY <2>2, <2>3
    <3>2. CASE i \in 1 .. n
      BY <1>1, <2>3, <2>4, <3>2
    <3>3. CASE i = n + 1
      <4>1. k > step
        BY <1>2, <2>2, <2>4, <3>3
      <4> QED
        BY <2>2, <2>3, <3>3, <4>1
    <3> QED
      BY <3>1, <3>2, <3>3
  <2> QED
    BY <1>1, <2>1, <2>4
<1>6. CASE ReceiverNext
  <2>1. CASE ReceiverBegin
    BY <1>1, <2>1 DEF ReceiverBegin, ZeroSteps, mainVars, resultVars
  <2>2. CASE ReceiveNothing
    BY <1>1, <2>2 DEF ReceiveNothing, mainVars, resultVars
  <2>3. ASSUME NEW j \in Steps, Receive(j) PROVE Early
    <3>1. j <= step /\ UNCHANGED <<step, rows>> /\ rcv' = [rcv EXCEPT ![j] = @ + 1]
      BY <2>3, ReceiveSeen DEF Receive
    <3>2. k > step => rcv'[k] = rcv[k]
      BY <1>2, <3>1
    <3> QED
      BY <1>1, <3>1, <3>2
  <2> QED
    BY <1>6, <2>1, <2>2, <2>3 DEF ReceiverNext
<1>7. ASSUME NEW t \in Threads, SenderNext(t) PROVE Early
  BY <1>1, <1>7 DEF SenderNext, SenderBegin, Send, SendFails, EndLoop, EndTimeout, mainVars,
     receiverVars, resultVars
<1>8. CASE NetNext \/ Signal \/ UNCHANGED vars
  BY <1>1, <1>8 DEF NetNext, NetAnswer, NetDuplicate, Signal, vars, mainVars, receiverVars, resultVars
<1> QED
  BY <1>4, <1>5, <1>6, <1>7, <1>8 DEF Next, Ended

\* A remainder is not more than the number.
LEMMA RemainderBelow ==
    ASSUME NEW a \in Nat PROVE a % CounterRange \in Nat /\ a % CounterRange <= a
<1> DEFINE q == a \div CounterRange
           m == a % CounterRange
<1>1. CounterRange \in Nat \ {0}
  BY RangeAssumption
<1>2. q \in Int /\ m \in 0 .. CounterRange - 1 /\ a = CounterRange * q + m
  BY <1>1
<1>3. q >= 0
  BY <1>1
<1> HIDE DEF q, m
<1>4. CounterRange * q >= 0
  BY <1>1, <1>2, <1>3
<1>5. m \in Nat /\ m <= a
  BY <1>1, <1>2, <1>4
<1> QED
  BY <1>5 DEF m

\* When a step is presented, every query its loss counts is one that is still missing.
LEMMA LossBound == SessionInv /\ AnswersCountedOnce /\ NothingEarly => LossNotOverstated
<1> SUFFICES ASSUME SessionInv, AnswersCountedOnce, NothingEarly, mpc = "present", rpc # "absent"
             PROVE  Lost(res) <= net[step] + sock[step]
  BY DEF LossNotOverstated
<1> DEFINE k == step
<1>1. Len(rows) = k - 1 /\ k \in Steps /\ k \in Nat
  <2>1. Len(rows) = k - 1 /\ Len(rows) \in Nat /\ step \in 0 .. Len(Rates)
    BY AbsTypes DEF SessionInv, Reporting, TypeOK
  <2> QED
    BY <2>1, RatesAssumption DEF Steps
<1>2. /\ net[k] \in Nat /\ sock[k] \in Nat /\ dups[k] \in Nat /\ IsFiniteSet(Steps)
      /\ AbsCounted \in [Steps -> Nat] /\ AbsSent \in [Threads -> Nat]
  BY <1>1, AbsTypes
<1>3. res.sent = AbsSent /\ res.rcv = AbsCounted
  <2>1. ~PoolRunning /\ ~ReceiverRunning /\ res.sent = sent /\ res.rcv = rcv
    BY InvImpliesExact DEF FinalReadingExact
  <2> QED
    BY <2>1 DEF AbsSent, AbsCounted, PoolRunning, ReceiverRunning, SessionInv, TypeOK
<1>4. InRows(k) = 0
  <2> DEFINE e == [i \in 1 .. Len(rows) |-> rows[i].result.rcv[k]]
  <2>1. \A i \in 1 .. Len(rows) : e[i] = 0
    BY <1>1 DEF NothingEarly
  <2>2. IsFiniteSet(1 .. Len(rows)) /\ DOMAIN e = 1 .. Len(rows)
    <3>1. 1 \in Int /\ Len(rows) \in Int
      BY AbsTypes
    <3> QED
      BY <3>1, FS_Interval
  <2> HIDE DEF e
  <2>3. Total(e) = 0
    BY <2>1, <2>2, TotalZero
  <2> QED
    BY <2>3 DEF InRows, e
<1> DEFINE s == Total(AbsSent)
           r == Total(AbsCounted)
           c == AbsCounted[k]
<1>5. net[k] + sock[k] + c = s + dups[k]
  <2>1. net[k] + sock[k] + CountedOf(k) = SentIn(k) + dups[k]
    BY <1>1 DEF AnswersCountedOnce
  <2>2. CountedOf(k) = 0 + c
    BY <1>1, <1>4 DEF CountedOf, InRows
  <2>3. SentIn(k) = s
    BY <1>1 DEF SentIn
  <2> QED
    BY <1>1, <1>2, <2>1, <2>2, <2>3
<1>6. c <= r
  BY <1>1, <1>2, TotalMember
<1>7. s \in Nat /\ r \in Nat /\ c \in Nat
  BY <1>1, <1>2, TotalNat, ThreadsAssumption
<1>8. Lost(res) = IF r > s THEN 0 ELSE (s - r) % CounterRange
  BY <1>3 DEF Lost
<1> HIDE DEF s, r, c
<1>9. CASE r > s
  BY <1>2, <1>8, <1>9
<1>10. CASE ~(r > s)
  <2>1. s - r \in Nat /\ s - r <= net[k] + sock[k]
    BY <1>2, <1>5, <1>6, <1>7, <1>10
  <2>2. Lost(res) <= s - r /\ Lost(res) \in Int
    <3>1. (s - r) % CounterRange <= s - r
      BY <2>1, RemainderBelow
    <3>2. (s - r) % CounterRange \in Int
      BY <2>1, RemainderBelow
    <3> QED
      BY <1>8, <1>10, <3>1, <3>2
  <2> QED
    BY <1>2, <1>7, <2>1, <2>2
<1> QED
  BY <1>9, <1>10

\* The loss a step reports is never more than the queries of this step whose answer is
\* missing, whatever late and duplicated answers are subtracted.
THEOREM LossIsNotOverstated == Spec => []LossNotOverstated
<1>1. Init => NothingEarly
  BY DEF Init, NothingEarly, ZeroSteps
<1>2. Spec => []NothingEarly
  BY <1>1, EarlyStep, SessionInvariant, PTL DEF Spec
<1> QED
  BY <1>2, LossBound, AnswersAreCountedOnce, SessionInvariant, PTL
=============================================================================
