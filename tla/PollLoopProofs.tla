--------------------------- MODULE PollLoopProofs ---------------------------
(* Proofs about PollLoop, for all timeouts, pauses and try lengths.          *)
EXTENDS PollLoop, TLAPS

(* The two Boolean variables, apart from the arithmetic.                     *)
LEMMA FlagsInit == Init => Flags
BY DEF Init, Flags

LEMMA FlagsNext == Flags /\ [Next]_vars => Flags'
BY DEF Flags, Next, vars, loopVars, LoopStep, Call, Try, Look, Hang, Succeed,
       TimeOut, StartPause, Wake, GiveUp, Cancel, HostMoves, Tick

LEMMA LoopInvInit == Init => LoopInv
BY FlagsInit, PollLoopAssumption
DEF Init, LoopInv, TypeOK, Answers, Ended, BoundedWait

(* No action but StartPause begins a pause, and none but Wake and Call a try.*)
LEMMA LoopInvNext == LoopInv /\ [Next]_vars => LoopInv'
<1> SUFFICES ASSUME LoopInv, [Next]_vars PROVE LoopInv'
  OBVIOUS
<1>0. Flags'
  BY FlagsNext DEF LoopInv, TypeOK
<1> USE PollLoopAssumption, <1>0
    DEF LoopInv, TypeOK, Answers, Ended, BoundedWait
<1>1. CASE Call
  BY <1>1 DEF Call, Try
<1>2. CASE Look
  BY <1>2 DEF Look
<1>3. CASE Hang
  BY <1>3 DEF Hang
<1>4. CASE Succeed
  BY <1>4 DEF Succeed
<1>5. CASE TimeOut
  BY <1>5 DEF TimeOut, Failed
<1>6. CASE StartPause
  BY <1>6 DEF StartPause, Failed
<1>7. CASE Wake
  BY <1>7 DEF Wake, Try
<1>8. CASE GiveUp
  BY <1>8 DEF GiveUp
<1>9. CASE Cancel
  BY <1>9 DEF Cancel
<1>10. CASE HostMoves
  BY <1>10 DEF HostMoves, loopVars
<1>11. CASE Tick
  BY <1>11 DEF Tick, MayElapse, loopVars
<1>12. CASE UNCHANGED vars
  BY <1>12 DEF vars
<1> QED
  BY <1>1, <1>2, <1>3, <1>4, <1>5, <1>6, <1>7, <1>8, <1>9, <1>10, <1>11, <1>12
  DEF Next, LoopStep

(* The invariant of the loop: see LoopInv.                                   *)
THEOREM LoopInvariant == Spec => []LoopInv
BY LoopInvInit, LoopInvNext, PTL DEF Spec

(* The timeouts bound a wait, up to a pause and a try that returns.          *)
THEOREM Bounded == Spec => []BoundedWait
<1>1. LoopInv => BoundedWait
  BY DEF LoopInv
<1> QED
  BY <1>1, LoopInvariant, PTL

-----------------------------------------------------------------------------
LEMMA NoFalseTimeoutNext ==
  LoopInv /\ NoFalseTimeout /\ [Next]_vars => NoFalseTimeout'
<1> SUFFICES ASSUME LoopInv, NoFalseTimeout, [Next]_vars,
                    pc' = "timedOut", answer' = "notReady",
                    ready', readySince' + MaxTry <= Timeout
             PROVE FALSE
  BY LoopInvNext, PollLoopAssumption DEF NoFalseTimeout, LoopInv, TypeOK
<1> USE PollLoopAssumption DEF LoopInv, TypeOK, Answers, Ended
(* The last try began less than MaxTry before the deadline.                  *)
<1>1. CASE TimeOut
  BY <1>1 DEF TimeOut
<1>2. CASE HostMoves
  BY <1>2 DEF HostMoves, loopVars
<1>3. CASE Cancel
  BY <1>3 DEF Cancel, NoFalseTimeout
<1>4. CASE Call \/ Look \/ Hang \/ Succeed \/ StartPause \/ Wake \/ GiveUp
  <2>1. pc' # "timedOut"
    BY <1>4, Zenon DEF Call, Try, Look, Hang, Succeed, StartPause, Wake, GiveUp
  <2> QED
    BY <2>1
<1>5. CASE Tick
  BY <1>5 DEF Tick, MayElapse, loopVars
<1>6. CASE UNCHANGED vars
  <2>1. /\ pc = "timedOut" /\ answer = "notReady" /\ ready
    BY <1>6, Zenon DEF vars
  <2>2. readySince + MaxTry > Timeout
    BY <2>1, Zenon DEF NoFalseTimeout
  <2>3. readySince' = readySince
    BY <1>6 DEF vars
  <2> QED
    BY <2>2, <2>3
<1> QED
  BY <1>1, <1>2, <1>3, <1>4, <1>5, <1>6 DEF Next, LoopStep

(* A wait never times out on a node that was ready a try before the deadline.*)
THEOREM LastTry == Spec => []NoFalseTimeout
<1>1. Init => NoFalseTimeout
  BY DEF Init, NoFalseTimeout
<1> QED
  BY <1>1, LoopInvariant, NoFalseTimeoutNext, PTL DEF Spec

-----------------------------------------------------------------------------
LEMMA AwaitInitially == Init => Atomic!AwaitInit
BY DEF Init, Atomic!AwaitInit, Ended

(* Call begins the abstract wait; Succeed, TimeOut and GiveUp end it; and a  *)
(* loop that succeeds has seen the node ready.                               *)
LEMMA AwaitStep ==
  ASSUME LoopInv, [Next]_vars
  PROVE  [Atomic!AwaitNext]_(Atomic!awaitVars)
<1> USE DEF Atomic!awaitVars, Ended
<1>1. CASE Call
  <2>1. Atomic!Begin
    BY <1>1 DEF Call, Try, Atomic!Begin
  <2> QED
    BY <2>1 DEF Atomic!AwaitNext
<1>2. CASE Succeed
  <2>1. Atomic!Succeed
    BY <1>2 DEF Succeed, LoopInv, Atomic!Succeed
  <2> QED
    BY <2>1 DEF Atomic!AwaitNext
<1>3. CASE TimeOut \/ GiveUp
  <2>1. Atomic!GiveUp
    BY <1>3 DEF TimeOut, GiveUp, Atomic!GiveUp
  <2> QED
    BY <2>1 DEF Atomic!AwaitNext
<1>4. CASE HostMoves
  <2>1. Atomic!HostMoves
    BY <1>4 DEF HostMoves, loopVars, LoopInv, TypeOK, Flags, Atomic!HostMoves
  <2> QED
    BY <2>1 DEF Atomic!AwaitNext
<1>5. CASE Look \/ Hang \/ StartPause \/ Wake \/ Cancel \/ Tick \/ UNCHANGED vars
  BY <1>5 DEF Look, Hang, StartPause, Wake, Try, Cancel, Tick, loopVars, vars
<1> QED
  BY <1>1, <1>2, <1>3, <1>4, <1>5 DEF Next, LoopStep

(* The loop implements the single call that Create takes it for.             *)
THEOREM WaitIsAtomic == Spec => ImplementsAwait
BY AwaitInitially, AwaitStep, LoopInvariant, PTL
DEF Spec, ImplementsAwait, Atomic!AwaitSpec
=============================================================================
