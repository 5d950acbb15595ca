------------------------------ MODULE PollLoop ------------------------------
(* The loop that waitForIPv4 (node.go:243) and applyConfig (reconcile.go:151)*)
(* share: try, return on success, look at the deadline, pause, try again.  A *)
(* try is one exec of a CLI and takes time; the deadline is looked at only   *)
(* after a try that failed.  Time is in seconds since the loop began, so the *)
(* deadline is Timeout.                                                      *)
EXTENDS Naturals

CONSTANTS
  Timeout,    \* ipDiscoveryTimeout, applyConfigTimeout
  Pause,      \* what time.After is given
  Late,       \* by how much the wake-up may come after it
  MaxTry,     \* the longest an exec takes that returns
  MayHang,    \* whether an exec may never return
  MayFail,    \* whether an exec may fail although the node is ready
  MayCancel,  \* whether the context can be cancelled: talosctl's, not aegis's
  Horizon     \* the clock stops here, for TLC

ASSUME PollLoopAssumption ==
  /\ Timeout \in Nat /\ Pause \in Nat \ {0} /\ Late \in Nat
  /\ MaxTry \in Nat \ {0} /\ Horizon \in Nat
  /\ MayHang \in BOOLEAN /\ MayFail \in BOOLEAN /\ MayCancel \in BOOLEAN
  /\ Horizon > Timeout + Pause + Late + MaxTry

VARIABLES
  pc,         \* where the loop is
  now,        \* the clock
  since,      \* when this try, or this pause, began
  answer,     \* what this try will return; the last one's, between tries
  cancelled,  \* ctx.Done() is closed
  ready,      \* whether the node would answer
  readySince, \* history: since when it has been ready, or not
  seen        \* history: whether it was ready at any moment of this wait

loopVars == <<pc, since, answer, cancelled>>
vars == <<pc, now, since, answer, cancelled, ready, readySince, seen>>

Ended == {"succeeded", "timedOut", "gaveUp"}

Flags == cancelled \in BOOLEAN /\ ready \in BOOLEAN /\ seen \in BOOLEAN
Answers == {"none", "hangs", "ready", "notReady", "failed"}

TypeOK ==
  /\ Flags
  /\ pc \in {"trying", "pausing"} \cup Ended /\ answer \in Answers
  /\ now \in Nat /\ since \in Nat /\ readySince \in Nat

Init ==
  /\ pc = "gaveUp" /\ now = 0 /\ since = 0 /\ answer = "failed"
  /\ cancelled = FALSE
  /\ ready \in BOOLEAN /\ readySince = 0 /\ seen = ready

-----------------------------------------------------------------------------
(* exec.CommandContext does not start a command once the context is done.    *)
Try(time) ==
  /\ pc' = "trying" /\ since' = time
  /\ answer' = IF cancelled' THEN "failed" ELSE "none"

(* The wait for the next node, or one of another invocation.                 *)
Call ==
  /\ pc \in Ended
  /\ cancelled' \in {cancelled, FALSE}
  /\ now' = 0 /\ Try(0)
  /\ readySince' = 0 /\ seen' = ready /\ UNCHANGED ready

LookUnchecked ==  \* mutant: an inspect without an address is a success
  /\ pc = "trying" /\ answer = "none"
  /\ answer' = "ready"
  /\ UNCHANGED <<pc, now, since, cancelled, ready, readySince, seen>>

(* The command looks at the node at some moment between start and exit.      *)
Look ==
  /\ pc = "trying" /\ answer = "none"
  /\ \/ answer' = IF ready THEN "ready" ELSE "notReady"
     \/ MayFail /\ answer' = "failed"
  /\ UNCHANGED <<pc, now, since, cancelled, ready, readySince, seen>>

Hang ==
  /\ MayHang /\ pc = "trying" /\ answer = "none"
  /\ answer' = "hangs"
  /\ UNCHANGED <<pc, now, since, cancelled, ready, readySince, seen>>

Succeed ==
  /\ pc = "trying" /\ answer = "ready"
  /\ pc' = "succeeded"
  /\ UNCHANGED <<now, since, answer, cancelled, ready, readySince, seen>>

Failed == answer \in {"notReady", "failed"}

TimeOut ==
  /\ pc = "trying" /\ Failed /\ now > Timeout
  /\ pc' = "timedOut"
  /\ UNCHANGED <<now, since, answer, cancelled, ready, readySince, seen>>

StartPauseAlways ==  \* mutant: the deadline is not looked at
  /\ pc = "trying" /\ Failed
  /\ pc' = "pausing" /\ since' = now
  /\ UNCHANGED <<now, answer, cancelled, ready, readySince, seen>>

StartPause ==
  /\ pc = "trying" /\ Failed /\ now <= Timeout
  /\ pc' = "pausing" /\ since' = now
  /\ UNCHANGED <<now, answer, cancelled, ready, readySince, seen>>

WakeChecking ==  \* mutant: the deadline is looked at instead of a last try
  /\ pc = "pausing" /\ now >= since + Pause
  /\ IF now > Timeout THEN pc' = "timedOut" /\ UNCHANGED <<since, answer>>
                      ELSE UNCHANGED cancelled /\ Try(now)
  /\ UNCHANGED <<now, cancelled, ready, readySince, seen>>

Wake ==
  /\ pc = "pausing" /\ now >= since + Pause
  /\ UNCHANGED cancelled /\ Try(now)
  /\ UNCHANGED <<now, ready, readySince, seen>>

(* select takes any case that is ready: this one, or Wake.                   *)
GiveUp ==
  /\ pc = "pausing" /\ cancelled
  /\ pc' = "gaveUp"
  /\ UNCHANGED <<now, since, answer, cancelled, ready, readySince, seen>>

-----------------------------------------------------------------------------
CancelLeavesExec ==  \* mutant: exec.Command, which knows no context
  /\ MayCancel /\ ~cancelled /\ cancelled' = TRUE
  /\ UNCHANGED <<pc, now, since, answer, ready, readySince, seen>>

(* Ctrl-C: a command that runs is killed, whether it hangs or has answered.  *)
Cancel ==
  /\ MayCancel /\ ~cancelled /\ cancelled' = TRUE
  /\ answer' = IF pc = "trying" THEN "failed" ELSE answer
  /\ UNCHANGED <<pc, now, since, ready, readySince, seen>>

(* The node comes up, loses its address, stops.                              *)
HostMoves ==
  /\ ready' = ~ready /\ readySince' = now /\ seen' = (seen \/ ready')
  /\ UNCHANGED <<loopVars, now>>

(* An exec that returns has returned after MaxTry; a pause ends in time.     *)
MayElapse ==
  CASE pc = "trying"  -> answer = "hangs" \/ now < since + MaxTry
    [] pc = "pausing" -> now < since + Pause + Late
    [] OTHER          -> FALSE

Tick ==
  /\ now < Horizon /\ MayElapse
  /\ now' = now + 1
  /\ UNCHANGED <<loopVars, ready, readySince, seen>>

LoopStep == Look \/ Hang \/ Succeed \/ TimeOut \/ StartPause \/ Wake \/ GiveUp

Next == Call \/ LoopStep \/ Cancel \/ HostMoves \/ Tick

Spec == Init /\ [][Next]_vars

(* Time goes on; a command that has answered exits; a timer fires.           *)
FairSpec == Spec /\ WF_vars(Tick) /\ WF_vars(LoopStep)

-----------------------------------------------------------------------------
(* ipDiscoveryTimeout and applyConfigTimeout bound the wait (node.go:210,    *)
(* reconcile.go:121) but for one pause and one try, during which the         *)
(* deadline is not looked at; a try that never returns is not bounded.       *)
BoundedWait ==
  \/ now <= Timeout + Pause + Late + MaxTry
  \/ answer = "hangs" \/ cancelled

(* What makes them true: no pause begins after the deadline, no try later    *)
(* than a pause after it, a try that says "not ready" has looked, and one    *)
(* that says "ready" has seen the node so.                                   *)
LoopInv ==
  /\ TypeOK
  /\ since <= now
  /\ ready => seen
  /\ pc = "pausing" => since <= Timeout /\ now <= since + Pause + Late
  /\ pc = "trying" =>
       /\ since <= Timeout + Pause + Late
       /\ \/ now <= since + MaxTry
          \/ answer = "hangs"
          \/ answer = "failed" /\ cancelled
       /\ answer = "notReady" /\ ready => readySince >= since
       /\ answer = "ready" => seen
  /\ pc = "timedOut" => now > Timeout
  /\ BoundedWait

(* A wait does not time out on a node that was ready when the deadline was   *)
(* still a try's length away: an address that arrives in the last pause, or  *)
(* even a little after the deadline, is taken by the try that follows.       *)
NoFalseTimeout ==
  pc = "timedOut" /\ answer = "notReady" =>
    ~ready \/ readySince + MaxTry > Timeout

(* Every wait comes to an end, ipDiscoveryTimeout or applyConfigTimeout after*)
(* it began (node.go:210, reconcile.go:121), or in an exec that hangs.       *)
Ends == pc \notin Ended ~> pc \in Ended \/ answer = "hangs"

(* Ctrl-C in talosctl ends a wait whatever the exec does (reconcile.go:166). *)
CancelEnds == pc \notin Ended /\ cancelled ~> pc \in Ended

(* The loop is one call: it succeeds only if the node was ready at a moment  *)
(* between its start and its end, or it fails.                               *)
Atomic == INSTANCE Await WITH
  outcome <- IF pc = "succeeded" THEN "ok"
             ELSE IF pc \in Ended THEN "error" ELSE "none"

ImplementsAwait == Atomic!AwaitSpec
=============================================================================
