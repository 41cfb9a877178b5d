------------------------ MODULE NestedSessionsProofs ------------------------
(***************************************************************************)
(* A visible compositor runs under the lock of its session: for any number  *)
(* of demos and test sessions, and of tests in each.                        *)
(*                                                                         *)
(* LockedWhileVisible alone is not inductive: that a compositor is alive    *)
(* must be tied to the stages in which its session holds the lock.          *)
(***************************************************************************)
EXTENDS NestedSessions, TLAPS

\* The stages in which an instance may be running.
WithInstance ==
  {"waiting", "probing", "settling", "abandoning", "running", "opening", "showing", "ending",
   "stopping"}

ProcStates == {"none", "starting", "listening", "serving", "gone"}

LockInv ==
  /\ stage \in [Sessions -> Stages] /\ proc \in [Sessions -> ProcStates]
  /\ DOMAIN lock = LockFiles
  /\ \A s \in Sessions : Alive(s) => stage[s] \in WithInstance
  /\ \A s \in Visible : stage[s] \notin {"outside", "ended"} => lock[LockOf(s)] = s

LEMMA LockFacts ==
  ASSUME NEW s \in Sessions
  PROVE  LockOf(s) \in LockFiles
BY DEF LockOf, LockFiles

LEMMA InitLock == SessionsInit => LockInv
BY DEF SessionsInit, LockInv, Alive, Visible, Sessions, Stages, ProcStates

\* A step that keeps the locks, and moves one session between two stages.
LEMMA StageStep ==
  ASSUME LockInv, NEW s \in Sessions, NEW to \in Stages,
         Goes(s, to), stage[s] \notin {"outside", "ended"}, to \notin {"outside", "ended"},
         UNCHANGED lock, proc' \in [Sessions -> ProcStates],
         \A t \in Sessions : Alive(t)' => t = s \/ Alive(t),
         Alive(s)' => to \in WithInstance
  PROVE  LockInv'
BY DEF LockInv, Goes, Visible, Sessions, LockOf, Alive

\* A step that keeps the locks and the stages, and starts no compositor.
LEMMA QuietStep ==
  ASSUME LockInv, UNCHANGED <<stage, lock>>, proc' \in [Sessions -> ProcStates],
         \A t \in Sessions : Alive(t)' => Alive(t)
  PROVE  LockInv'
BY DEF LockInv, Visible, Sessions, LockOf, Alive

\* A session that has no compositor unlocks and ends.
LEMMA UnlockStep ==
  ASSUME LockInv, SessionsAssumption, NEW s \in Sessions, Goes(s, "ended"), lock' = Unlocked(s),
         proc' \in [Sessions -> ProcStates],
         \A t \in Sessions : Alive(t)' => t # s /\ Alive(t)
  PROVE  LockInv'
<1>1. \A t \in Visible : t # s /\ stage[t] \notin {"outside", "ended"} => lock'[LockOf(t)] = t
  BY LockFacts DEF LockInv, Unlocked, Visible, Sessions
<1>2. \A t \in Sessions : t # s => stage'[t] = stage[t]
  BY DEF Goes, LockInv
<1>3. stage'[s] = "ended" /\ stage' \in [Sessions -> Stages]
  BY DEF Goes, LockInv, Stages
<1>4. DOMAIN lock' = LockFiles
  BY DEF Unlocked
<1>5. \A t \in Sessions : Alive(t)' => stage'[t] \in WithInstance
  BY <1>2 DEF LockInv
<1>6. \A t \in Visible : stage'[t] \notin {"outside", "ended"} => lock'[LockOf(t)] = t
  BY <1>1, <1>2, <1>3 DEF Visible, Sessions
<1> QED BY <1>3, <1>4, <1>5, <1>6 DEF LockInv

\* A session enters with its lock, without one where it needs none, or not at all.
LEMMA EnterLock ==
  ASSUME LockInv, SessionsAssumption, NEW s \in Sessions,
         EnterHeadless(s) \/ EnterVisible(s) \/ TurnedAway(s)
  PROVE  LockInv'
<1>1. proc' = proc /\ stage' \in [Sessions -> Stages]
  BY DEF EnterHeadless, EnterVisible, TurnedAway, instanceVars, Goes, LockInv, Stages
<1>2. stage[s] = "outside" /\ ~Alive(s)
  BY DEF EnterHeadless, EnterVisible, TurnedAway, LockInv, WithInstance
<1>3. \A t \in Sessions : t # s => stage'[t] = stage[t]
  BY DEF EnterHeadless, EnterVisible, TurnedAway, Goes, LockInv
<1>4. \A t \in Sessions : Alive(t)' => stage'[t] \in WithInstance
  BY <1>1, <1>2, <1>3 DEF LockInv, Alive
<1>5. CASE EnterVisible(s)
  <2>1. lock' = [lock EXCEPT ![LockOf(s)] = s] /\ s \in Visible /\ lock[LockOf(s)] = NoSession
    BY <1>5 DEF EnterVisible
  <2>2. \A t \in Visible : t # s /\ stage[t] \notin {"outside", "ended"} => LockOf(t) # LockOf(s)
    BY <2>1 DEF LockInv, SessionsAssumption, Visible, Sessions
  <2>3. \A t \in Visible : stage'[t] \notin {"outside", "ended"} => lock'[LockOf(t)] = t
    BY <2>1, <2>2, <1>3, LockFacts DEF LockInv, Visible, Sessions
  <2> QED BY <2>1, <2>3, <1>1, <1>4 DEF LockInv
<1>6. CASE EnterHeadless(s) \/ TurnedAway(s)
  <2>1. UNCHANGED lock /\ (s \in Visible => stage'[s] = "ended")
    BY <1>6 DEF EnterHeadless, TurnedAway, Goes, LockInv
  <2>2. \A t \in Visible : stage'[t] \notin {"outside", "ended"} => lock'[LockOf(t)] = t
    BY <2>1, <1>3 DEF LockInv, Visible, Sessions
  <2> QED BY <2>1, <2>2, <1>1, <1>4 DEF LockInv
<1> QED BY <1>5, <1>6

\* harness.start: only Launch makes a compositor.
LEMMA StartLock ==
  ASSUME LockInv, NEW s \in Sessions, StartSteps(s)
  PROVE  LockInv'
<1>1. CASE Refused(s)
  BY <1>1, QuietStep DEF Refused, instanceVars, Alive, LockInv
<1>2. CASE Launch(s)
  <2>1. Goes(s, "waiting") /\ stage[s] = "ready" /\ UNCHANGED lock
    BY <1>2 DEF Launch, StartsNiri, MayStart
  <2>2. proc' = [proc EXCEPT ![s] = "starting"]
    BY <1>2 DEF Launch, StartsNiri
  <2>3. proc' \in [Sessions -> ProcStates] /\ \A t \in Sessions : Alive(t)' => t = s \/ Alive(t)
    BY <2>2 DEF LockInv, Alive, ProcStates
  <2> QED BY <2>1, <2>3, StageStep DEF WithInstance, Stages
<1>3. CASE SocketFound(s)
  BY <1>3, StageStep DEF SocketFound, instanceVars, Alive, LockInv, WithInstance, Stages
<1>4. CASE SocketTimeout(s)
  BY <1>4, StageStep DEF SocketTimeout, instanceVars, Alive, LockInv, WithInstance, Stages
<1>5. CASE ProbeAnswered(s)
  BY <1>5, StageStep DEF ProbeAnswered, instanceVars, Alive, LockInv, WithInstance, Stages
<1>6. CASE ProbeTimeout(s)
  <2>1. Goes(s, "ready") /\ stage[s] = "probing" /\ UNCHANGED lock
    BY <1>6 DEF ProbeTimeout
  <2>2. proc' = [proc EXCEPT ![s] = "none"]
    BY <1>6 DEF ProbeTimeout, Drops
  <2> QED BY <2>1, <2>2, StageStep DEF LockInv, Alive, Stages, ProcStates
<1>7. CASE Settled(s)
  <2>1. UNCHANGED <<lock, proc>> /\ stage[s] = "settling"
    BY <1>7 DEF Settled, instanceVars
  <2>2. Goes(s, "opening") \/ Goes(s, "running")
    BY <1>7 DEF Settled
  <2> QED BY <2>1, <2>2, StageStep DEF LockInv, Alive, WithInstance, Stages
<1> QED BY <1>1, <1>2, <1>3, <1>4, <1>5, <1>6, <1>7 DEF StartSteps

\* _terminate_process_tree, and what its two callers do next.
LEMMA TerminationLock ==
  ASSUME LockInv, NEW s \in Sessions, TerminationSteps(s)
  PROVE  LockInv'
<1>1. CASE SendsTerm(s)
  BY <1>1, QuietStep DEF SendsTerm, Alive, LockInv
<1>2. CASE SendsKill(s)
  <2>1. proc' = [proc EXCEPT ![s] = "gone"] /\ UNCHANGED <<stage, lock>>
    BY <1>2 DEF SendsKill
  <2> QED BY <2>1, QuietStep DEF Alive, LockInv, ProcStates
<1>3. CASE StartAbandoned(s)
  <2>1. Goes(s, "ready") /\ stage[s] = "abandoning" /\ UNCHANGED lock
    BY <1>3 DEF StartAbandoned
  <2>2. proc' = [proc EXCEPT ![s] = "none"]
    BY <1>3 DEF StartAbandoned, Drops
  <2> QED BY <2>1, <2>2, StageStep DEF LockInv, Alive, Stages, ProcStates
<1>4. CASE Stopped(s)
  <2>1. stage[s] = "stopping" /\ UNCHANGED lock /\ (Goes(s, "unlocking") \/ Goes(s, "ready"))
    BY <1>4 DEF Stopped
  <2>2. proc' = [proc EXCEPT ![s] = "none"]
    BY <1>4 DEF Stopped, Drops
  <2> QED BY <2>1, <2>2, StageStep DEF LockInv, Alive, Stages, ProcStates
<1> QED BY <1>1, <1>2, <1>3, <1>4 DEF TerminationSteps

\* The demo stops its compositor before it unlocks.
LEMMA DemoLock ==
  ASSUME LockInv, SessionsAssumption, NEW s \in Sessions, DemoSteps(s)
  PROVE  LockInv'
<1>1. CASE BundleOpens(s)
  BY <1>1, StageStep DEF BundleOpens, instanceVars, Alive, LockInv, WithInstance, Stages
<1>2. CASE ShowEnds(s)
  BY <1>2, StageStep DEF ShowEnds, instanceVars, Alive, LockInv, WithInstance, Stages
<1>3. CASE ReaderEnds(s)
  BY <1>3, QuietStep DEF ReaderEnds, instanceVars, Alive, LockInv
<1>4. CASE DemoStops(s)
  BY <1>4, StageStep DEF DemoStops, instanceVars, Alive, LockInv, WithInstance, Stages
<1>5. CASE DemoUnlocks(s)
  <2>1. Goes(s, "ended") /\ lock' = Unlocked(s) /\ UNCHANGED proc /\ stage[s] = "unlocking"
    BY <1>5 DEF DemoUnlocks, instanceVars
  <2>2. ~Alive(s)
    BY <2>1 DEF LockInv, WithInstance
  <2>3. proc' \in [Sessions -> ProcStates] /\ \A t \in Sessions : Alive(t)' => t # s /\ Alive(t)
    BY <2>1, <2>2 DEF LockInv, Alive
  <2> QED BY <2>1, <2>3, UnlockStep
<1> QED BY <1>1, <1>2, <1>3, <1>4, <1>5 DEF DemoSteps

LEMMA SessionLock ==
  ASSUME LockInv, SessionsAssumption, NEW s \in Sessions, SessionSteps(s)
  PROVE  LockInv'
<1>1. CASE EnterHeadless(s) \/ EnterVisible(s) \/ TurnedAway(s)
  BY <1>1, EnterLock
<1>2. CASE StartSteps(s)
  BY <1>2, StartLock
<1>3. CASE TestEnds(s)
  BY <1>3, StageStep DEF TestEnds, instanceVars, Alive, LockInv, WithInstance, Stages
<1>4. CASE TerminationSteps(s)
  BY <1>4, TerminationLock
<1>5. CASE DemoSteps(s)
  BY <1>5, DemoLock
<1>6. CASE Leave(s)
  <2>1. Goes(s, "ended") /\ lock' = Unlocked(s) /\ UNCHANGED proc /\ stage[s] = "ready"
    BY <1>6 DEF Leave, instanceVars
  <2>2. ~Alive(s)
    BY <2>1 DEF LockInv, WithInstance
  <2>3. proc' \in [Sessions -> ProcStates] /\ \A t \in Sessions : Alive(t)' => t # s /\ Alive(t)
    BY <2>1, <2>2 DEF LockInv, Alive
  <2> QED BY <2>1, <2>3, UnlockStep
<1> QED BY <1>1, <1>2, <1>3, <1>4, <1>5, <1>6 DEF SessionSteps

LEMMA EnvironmentLock ==
  ASSUME LockInv, SessionsAssumption, NEW s \in Sessions, Environment(s)
  PROVE  LockInv'
<1>1. CASE Listens(s)
  BY <1>1, QuietStep DEF Listens, Alive, LockInv, ProcStates
<1>2. CASE Serves(s)
  BY <1>2, QuietStep DEF Serves, Alive, LockInv, ProcStates
<1>3. CASE Dies(s)
  <2>1. proc' = [proc EXCEPT ![s] = "gone"] /\ UNCHANGED <<stage, lock>>
    BY <1>3 DEF Dies
  <2> QED BY <2>1, QuietStep DEF Alive, LockInv, ProcStates
<1>4. CASE InterruptStart(s)
  <2>1. Goes(s, "ended") /\ lock' = Unlocked(s)
    BY <1>4 DEF InterruptStart
  <2>2. proc' = [proc EXCEPT ![s] = "none"]
    BY <1>4 DEF InterruptStart, Drops
  <2>3. proc' \in [Sessions -> ProcStates] /\ \A t \in Sessions : Alive(t)' => t # s /\ Alive(t)
    BY <2>2 DEF LockInv, Alive, ProcStates
  <2> QED BY <2>1, <2>3, UnlockStep
<1>5. CASE ReaderFails(s)
  BY <1>5, QuietStep DEF ReaderFails, instanceVars, Alive, LockInv
<1>6. CASE HelpersEnd(s)
  BY <1>6, QuietStep DEF HelpersEnd, Alive, LockInv
<1> QED BY <1>1, <1>2, <1>3, <1>4, <1>5, <1>6 DEF Environment

LEMMA NextLock ==
  ASSUME LockInv, SessionsAssumption, [SessionsNext]_sessionVars
  PROVE  LockInv'
<1>1. CASE UNCHANGED sessionVars
  BY <1>1, QuietStep DEF sessionVars, instanceVars, LockInv, Alive
<1>2. CASE SessionsNext
  BY <1>2, SessionLock, EnvironmentLock DEF SessionsNext
<1> QED BY <1>1, <1>2

\* A visible compositor that a session still knows of runs under the lock of
\* that session (conftest.py:189-208, visual_demo.py:282-361).
THEOREM VisibleRunsLocked == SessionsSpec => []LockedWhileVisible
<1>1. LockInv => LockedWhileVisible
  BY DEF LockInv, LockedWhileVisible, WithInstance, Visible, Sessions
<1> QED BY InitLock, NextLock, SessionsAssumption, <1>1, PTL DEF SessionsSpec

(***************************************************************************)
(* What the sessions leave behind.  CleanedUp says nothing of the steps that *)
(* lead to it: that a killed group has neither compositor nor helpers must   *)
(* be carried from the signal to the step that drops the instance, through   *)
(* whatever the compositor does between the two.                           *)
(***************************************************************************)
Things == {"process", "helpers", "directory"}
Causes == {"timeout", "probe", "interrupt", "stop"}
Signals == {"none", "SIGTERM", "SIGKILL"}
Leftovers == Things \X Causes \X Signals

KilledInv ==
  /\ proc \in [Sessions -> ProcStates] /\ helpers \in [Sessions -> BOOLEAN]
  /\ signal \in [Sessions -> Signals]
  /\ \A s \in Sessions : signal[s] = "SIGKILL" => proc[s] = "gone" /\ ~helpers[s]

CleanInv == KilledInv /\ left \in [Sessions -> SUBSET Leftovers] /\ CleanedUp

\* What may be left after a cause and a signal.
MayStay(s, x, cause, sent) ==
  cause \in {"timeout", "stop"} =>
    \/ x = "helpers" /\ sent # "SIGKILL"
    \/ x = "directory" /\ cause = "timeout" /\ s \in KeepArtifacts

\* Serves is the only step that gives a compositor helpers, and a killed one no
\* longer takes it.
LEMMA EnvironmentKilled ==
  ASSUME KilledInv, NEW s \in Sessions, Environment(s)
  PROVE  KilledInv'
<1>1. CASE Listens(s) \/ Dies(s)
  BY <1>1 DEF Listens, Dies, KilledInv, ProcStates, Alive
<1>2. CASE Serves(s)
  <2>1. PICK h \in BOOLEAN : helpers' = [helpers EXCEPT ![s] = h]
    BY <1>2 DEF Serves
  <2> QED BY <1>2, <2>1 DEF Serves, KilledInv, ProcStates
<1>3. CASE HelpersEnd(s)
  BY <1>3 DEF HelpersEnd, KilledInv
<1>4. CASE InterruptStart(s)
  BY <1>4 DEF InterruptStart, Drops, KilledInv, ProcStates, Signals
<1>5. CASE ReaderFails(s)
  BY <1>5 DEF ReaderFails, instanceVars, KilledInv
<1> QED BY <1>1, <1>2, <1>3, <1>4, <1>5 DEF Environment

LEMMA SessionKilled ==
  ASSUME KilledInv, NEW s \in Sessions, SessionSteps(s)
  PROVE  KilledInv'
<1>1. CASE UNCHANGED instanceVars
  BY <1>1 DEF instanceVars, KilledInv
<1>2. CASE Launch(s)
  BY <1>2 DEF Launch, StartsNiri, KilledInv, ProcStates, Signals
<1>3. CASE ProbeTimeout(s) \/ StartAbandoned(s) \/ Stopped(s)
  BY <1>3 DEF ProbeTimeout, StartAbandoned, Stopped, Drops, KilledInv, ProcStates, Signals
<1>4. CASE SendsTerm(s)
  BY <1>4 DEF SendsTerm, KilledInv, Signals
<1>5. CASE SendsKill(s)
  BY <1>5 DEF SendsKill, KilledInv, ProcStates, Signals
<1>6. ~UNCHANGED instanceVars =>
        \/ Launch(s) \/ ProbeTimeout(s) \/ StartAbandoned(s) \/ Stopped(s)
        \/ SendsTerm(s) \/ SendsKill(s)
  BY DEF SessionSteps, StartSteps, TerminationSteps, DemoSteps, EnterHeadless, EnterVisible, TurnedAway,
     Leave, Refused, SocketFound, SocketTimeout, ProbeAnswered, Settled, TestEnds, BundleOpens, ShowEnds,
     ReaderEnds, DemoStops, DemoUnlocks
<1> QED BY <1>1, <1>2, <1>3, <1>4, <1>5, <1>6

LEMMA DropsClean ==
  ASSUME CleanInv, KilledInv', NEW s \in Sessions, NEW remains \in SUBSET Things, NEW cause \in Causes,
         Drops(s, remains, cause), \A x \in remains : MayStay(s, x, cause, signal[s])
  PROVE  CleanInv'
<1> DEFINE now == {<<x, cause, signal[s]>> : x \in remains}
<1>1. left' = [left EXCEPT ![s] = now] /\ now \in SUBSET Leftovers
  BY DEF Drops, CleanInv, KilledInv, Leftovers
<1>2. left' \in [Sessions -> SUBSET Leftovers]
  BY <1>1 DEF CleanInv
<1>3. ASSUME NEW t \in Sessions, NEW y \in left'[t], y[2] \in {"timeout", "stop"}
      PROVE  \/ y[1] = "helpers" /\ y[3] # "SIGKILL"
             \/ y[1] = "directory" /\ y[2] = "timeout" /\ t \in KeepArtifacts
  <2>1. CASE t # s
    BY <2>1, <1>3, <1>1 DEF CleanInv, CleanedUp
  <2>2. CASE t = s
    <3>1. PICK x \in remains : y = <<x, cause, signal[s]>>
      BY <2>2, <1>3, <1>1 DEF CleanInv
    <3>2. MayStay(s, x, cause, signal[s])
      BY <3>1
    <3> QED BY <3>1, <3>2, <1>3, <2>2 DEF MayStay
  <2> QED BY <2>1, <2>2
<1> QED BY <1>2, <1>3 DEF CleanInv, CleanedUp

\* _terminate_process_tree has returned: the compositor is gone, and so are its
\* helpers if it came to SIGKILL.
LEMMA TerminatedRemains ==
  ASSUME KilledInv, NEW s \in Sessions, Terminated(s), NEW x \in Remains(s)
  PROVE  x = "helpers" /\ signal[s] # "SIGKILL"
BY DEF Terminated, Remains, Everything, Alive, KilledInv

LEMMA NextClean ==
  ASSUME CleanInv, [SessionsNext]_sessionVars
  PROVE  CleanInv'
<1>0. KilledInv'
  <2>1. CASE UNCHANGED sessionVars
    BY <2>1 DEF sessionVars, instanceVars, CleanInv, KilledInv
  <2> QED BY <2>1, EnvironmentKilled, SessionKilled DEF SessionsNext, CleanInv
<1>1. CASE UNCHANGED left
  BY <1>0, <1>1 DEF CleanInv, CleanedUp
<1>2. ASSUME NEW s \in Sessions, StartAbandoned(s) PROVE CleanInv'
  <2> DEFINE remains == Remains(s) \cup IF s \in KeepArtifacts THEN {"directory"} ELSE {}
  <2>1. Drops(s, remains, "timeout") /\ remains \in SUBSET Things
    BY <1>2 DEF StartAbandoned, Remains, Everything, Things
  <2>2. \A x \in remains : MayStay(s, x, "timeout", signal[s])
    BY <1>2, TerminatedRemains DEF StartAbandoned, MayStay, CleanInv
  <2> QED BY <1>0, <2>1, <2>2, DropsClean DEF Causes
<1>3. ASSUME NEW s \in Sessions, Stopped(s) PROVE CleanInv'
  <2>1. Drops(s, Remains(s), "stop") /\ Remains(s) \in SUBSET Things
    BY <1>3 DEF Stopped, Remains, Everything, Things
  <2>2. \A x \in Remains(s) : MayStay(s, x, "stop", signal[s])
    BY <1>3, TerminatedRemains DEF Stopped, MayStay, CleanInv
  <2> QED BY <1>0, <2>1, <2>2, DropsClean DEF Causes
<1>4. ASSUME NEW s \in Sessions, ProbeTimeout(s) PROVE CleanInv'
  BY <1>0, <1>4, DropsClean DEF ProbeTimeout, Everything, Things, Causes, MayStay
<1>5. ASSUME NEW s \in Sessions, InterruptStart(s) PROVE CleanInv'
  BY <1>0, <1>5, DropsClean DEF InterruptStart, Everything, Things, Causes, MayStay
<1>6. ASSUME NEW s \in Sessions, SessionSteps(s) \/ Environment(s), left' # left
      PROVE  StartAbandoned(s) \/ Stopped(s) \/ ProbeTimeout(s) \/ InterruptStart(s)
  BY <1>6 DEF SessionSteps, StartSteps, TerminationSteps, DemoSteps, Environment, EnterHeadless, EnterVisible,
     TurnedAway, Leave, Refused, Launch, StartsNiri, SocketFound, SocketTimeout, ProbeAnswered, Settled,
     SendsTerm, SendsKill, TestEnds, BundleOpens, ShowEnds, ReaderEnds, ReaderFails, DemoStops, DemoUnlocks,
     Listens, Serves, Dies, HelpersEnd, historyVars
<1> QED BY <1>1, <1>2, <1>3, <1>4, <1>5, <1>6 DEF SessionsNext, sessionVars, historyVars

\* However the compositor and its helpers meet the signals, a start that times
\* out waiting for the socket, or a stop, leaves no compositor, helpers only
\* behind one that ended before its group was killed, and a directory only where
\* it is asked for (nested_niri.py:216-230, 318-320, 340-364).
THEOREM StoppedMeansGone == SessionsSpec => []CleanedUp
<1>1. SessionsInit => CleanInv
  BY DEF SessionsInit, CleanInv, KilledInv, CleanedUp, ProcStates, Signals
<1>2. CleanInv => CleanedUp
  BY DEF CleanInv
<1> QED BY <1>1, <1>2, NextClean, PTL DEF SessionsSpec

(***************************************************************************)
(* The circuit breaker.                                                    *)
(***************************************************************************)
CircuitInv ==
  /\ circuit \in [Sessions -> BOOLEAN] /\ log \in [Sessions -> BOOLEAN]
  /\ broken \in [Sessions -> BOOLEAN]
  /\ \A s \in Visible : broken[s] => circuit[s]

LEMMA NextCircuit ==
  ASSUME CircuitInv, [SessionsNext]_sessionVars
  PROVE  CircuitInv'
<1>0. log' \in [Sessions -> BOOLEAN]
  BY DEF CircuitInv, SessionsNext, sessionVars, SessionSteps, StartSteps, TerminationSteps, DemoSteps,
     Environment, EnterHeadless, EnterVisible, TurnedAway, Leave, Refused, Launch, StartsNiri, SocketFound,
     SocketTimeout, ProbeAnswered, ProbeTimeout, Settled, SendsTerm, SendsKill, StartAbandoned, Stopped,
     TestEnds, BundleOpens, ShowEnds, ReaderEnds, ReaderFails, DemoStops, DemoUnlocks, InterruptStart, Drops,
     Listens, Serves, Dies, HelpersEnd, instanceVars
<1>1. CASE UNCHANGED <<circuit, broken>>
  BY <1>0, <1>1 DEF CircuitInv
<1>2. ASSUME NEW s \in Sessions, StartAbandoned(s) PROVE CircuitInv'
  <2>1. circuit' = [circuit EXCEPT ![s] = @ \/ (s \in Visible /\ log[s])]
    BY <1>2 DEF StartAbandoned
  <2>2. broken' = [broken EXCEPT ![s] = @ \/ log[s]]
    BY <1>2 DEF StartAbandoned
  <2>3. circuit' \in [Sessions -> BOOLEAN] /\ \A t \in Sessions : circuit[t] => circuit'[t]
    BY <2>1 DEF CircuitInv
  <2>4. broken' \in [Sessions -> BOOLEAN]
    BY <2>2 DEF CircuitInv
  <2>5. \A t \in Sessions : broken'[t] => broken[t] \/ (t = s /\ log[s])
    BY <2>2 DEF CircuitInv
  <2>6. s \in Visible /\ log[s] => circuit'[s]
    BY <2>1 DEF CircuitInv
  <2> QED BY <1>0, <2>3, <2>4, <2>5, <2>6 DEF CircuitInv, Visible, Sessions
<1>3. ASSUME NEW s \in Sessions, SessionSteps(s) \/ Environment(s), ~UNCHANGED <<circuit, broken>>
      PROVE  StartAbandoned(s)
  BY <1>3 DEF SessionSteps, StartSteps, TerminationSteps, DemoSteps, Environment, EnterHeadless, EnterVisible,
     TurnedAway, Leave, Refused, Launch, StartsNiri, SocketFound, SocketTimeout, ProbeAnswered, ProbeTimeout,
     Settled, SendsTerm, SendsKill, Stopped, TestEnds, BundleOpens, ShowEnds, ReaderEnds, ReaderFails,
     DemoStops, DemoUnlocks, InterruptStart, Listens, Serves, Dies, HelpersEnd, historyVars
<1> QED BY <1>1, <1>2, <1>3 DEF SessionsNext, sessionVars, historyVars

\* Only Launch starts a compositor, and a visible session does not while its
\* circuit is open.
LEMMA LaunchedByLaunch ==
  ASSUME SessionsNext, NEW s \in Sessions, proc'[s] = "starting", proc[s] # "starting",
         proc \in [Sessions -> ProcStates]
  PROVE  Launch(s)
<1>1. PICK t \in Sessions : SessionSteps(t) \/ Environment(t)
  BY DEF SessionsNext
<1>2. Launch(t)
  BY <1>1 DEF SessionSteps, StartSteps, TerminationSteps, DemoSteps, Environment, EnterHeadless, EnterVisible,
     TurnedAway, Leave, Refused, SocketFound, SocketTimeout, ProbeAnswered, ProbeTimeout, Settled, SendsTerm,
     SendsKill, StartAbandoned, Stopped, TestEnds, BundleOpens, ShowEnds, ReaderEnds, ReaderFails, DemoStops,
     DemoUnlocks, InterruptStart, Drops, Listens, Serves, Dies, HelpersEnd, instanceVars
<1>3. t = s
  BY <1>2 DEF Launch, StartsNiri
<1> QED BY <1>2, <1>3

\* A visible start that failed with a signature of the backend is the last one
\* of its session (nested_niri.py:141-143, 366-376).
THEOREM SignatureStopsRelaunch == SessionsSpec => NoRelaunchAfterSignature
<1>1. SessionsInit => CircuitInv
  BY DEF SessionsInit, CircuitInv, Visible, Sessions
<1>2. ASSUME CircuitInv, LockInv, [SessionsNext]_sessionVars
      PROVE  [\A s \in Visible : broken[s] => (proc'[s] = "starting" => proc[s] = "starting")]_sessionVars
  <2> SUFFICES ASSUME SessionsNext, NEW s \in Visible, broken[s],
                      proc'[s] = "starting", proc[s] # "starting"
               PROVE  FALSE
    BY <1>2
  <2>1. Launch(s)
    BY <1>2, LaunchedByLaunch DEF LockInv, Visible, Sessions
  <2>2. circuit[s]
    BY <1>2 DEF CircuitInv
  <2> QED BY <2>1, <2>2 DEF Launch
<1> QED BY <1>1, <1>2, NextCircuit, InitLock, NextLock, SessionsAssumption, PTL DEF SessionsSpec, NoRelaunchAfterSignature
=============================================================================
