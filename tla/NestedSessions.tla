--------------------------- MODULE NestedSessions ---------------------------
(***************************************************************************)
(* Programs that run niri inside the desktop: pytest sessions with nested   *)
(* tests (tests/conftest.py), visible or headless, and the visible demo     *)
(* (demo/visual_demo.py), each with a NestedNiriHarness                     *)
(* (tests/helpers/nested_niri.py) of its own.                               *)
(*                                                                         *)
(* A session is an operating-system process; what it does between two       *)
(* awaits is one step.  The compositors it starts, the user who presses     *)
(* Ctrl+C and the passing of time are the environment.                      *)
(***************************************************************************)
EXTENDS Naturals, FiniteSets

CONSTANTS
  Demos,         \* runs of the demo
  VisibleTests,  \* pytest --nested-visible
  HeadlessTests, \* pytest
  KeepArtifacts, \* sessions with NIRI_PYPC_KEEP_NESTED_ARTIFACTS = 1
  MaxStarts      \* bound: the nested tests of a session

Sessions == Demos \cup VisibleTests \cup HeadlessTests
Visible  == Demos \cup VisibleTests

NoSession == "nobody"
ASSUME SessionsAssumption == NoSession \notin Sessions /\ MaxStarts \in Nat \ {0}

LockFiles == {"visible-nested-demo.lock", "visible-nested.lock"}
LockOf(s) == IF s \in Demos THEN "visible-nested-demo.lock" ELSE "visible-nested.lock"

VARIABLES
  stage,    \* where each session is
  starts,   \* harness.start() called
  circuit,  \* _visible_circuit_open
  proc,     \* the compositor of the current start
  sock,     \* its socket file is there
  log,      \* its stderr holds a failure signature
  helpers,  \* processes of its group other than itself are running
  dir,      \* its temporary directory exists
  signal,   \* the last signal _terminate_process_tree sent to its group
  lock,     \* who holds each lock file
  reader,   \* the demo's event task
  left,     \* history: what the last compositor of the session left behind,
            \* after what, and after which signal
  broken    \* history: a start found no socket, but a signature in stderr

instanceVars == <<proc, sock, log, helpers, dir, signal>>
historyVars  == <<left, broken>>
sessionVars ==
  <<stage, starts, circuit, instanceVars, lock, reader, historyVars>>

SessionsInit ==
  /\ stage = [s \in Sessions |-> "outside"]
  /\ starts = [s \in Sessions |-> 0]
  /\ circuit = [s \in Sessions |-> FALSE]
  /\ proc = [s \in Sessions |-> "none"]
  /\ sock = [s \in Sessions |-> FALSE]
  /\ log = [s \in Sessions |-> FALSE]
  /\ helpers = [s \in Sessions |-> FALSE]
  /\ dir = [s \in Sessions |-> FALSE]
  /\ signal = [s \in Sessions |-> "none"]
  /\ lock = [l \in LockFiles |-> NoSession]
  /\ reader = [s \in Sessions |-> "none"]
  /\ left = [s \in Sessions |-> {}]
  /\ broken = [s \in Sessions |-> FALSE]

Goes(s, to) == stage' = [stage EXCEPT ![s] = to]
Alive(s) == proc[s] \in {"starting", "listening", "serving"}

(***************************************************************************)
(* The nested compositor and its group.                                    *)
(***************************************************************************)
Listens(s) ==
  /\ proc[s] = "starting"
  /\ proc' = [proc EXCEPT ![s] = "listening"]
  /\ sock' = [sock EXCEPT ![s] = TRUE]
  /\ UNCHANGED <<stage, starts, circuit, log, helpers, dir, signal, lock, reader, historyVars>>

Serves(s) ==
  /\ proc[s] = "listening"
  /\ proc' = [proc EXCEPT ![s] = "serving"]
  /\ \E h \in BOOLEAN : helpers' = [helpers EXCEPT ![s] = h]
  /\ UNCHANGED <<stage, starts, circuit, sock, log, dir, signal, lock, reader, historyVars>>

\* It exits, by itself or on SIGTERM; a compositor that finds no display says
\* so before it listens.  Its helpers do not end with it.
Dies(s) ==
  /\ Alive(s)
  /\ proc' = [proc EXCEPT ![s] = "gone"]
  /\ \E signature \in (IF proc[s] = "starting" THEN BOOLEAN ELSE {FALSE}) :
       log' = [log EXCEPT ![s] = signature]
  /\ UNCHANGED <<stage, starts, circuit, sock, helpers, dir, signal, lock, reader, historyVars>>

\* They too end by themselves or on SIGTERM, or not at all.
HelpersEnd(s) ==
  /\ helpers[s]
  /\ helpers' = [helpers EXCEPT ![s] = FALSE]
  /\ UNCHANGED <<stage, starts, circuit, proc, sock, log, dir, signal, lock, reader, historyVars>>

(***************************************************************************)
(* Before and after the starts: the gate and the lock.                     *)
(***************************************************************************)
EnterHeadless(s) ==
  /\ stage[s] = "outside" /\ s \notin Visible
  /\ Goes(s, "ready")
  /\ UNCHANGED <<starts, circuit, instanceVars, lock, reader, historyVars>>

\* Mutant: a lock that is held is no reason to stop.
EnterUnchecked(s) ==
  /\ stage[s] = "outside" /\ s \in Visible
  /\ Goes(s, "ready")
  /\ lock' = [lock EXCEPT ![LockOf(s)] = IF @ = NoSession THEN s ELSE @]
  /\ UNCHANGED <<starts, circuit, instanceVars, reader, historyVars>>

EnterVisible(s) ==
  /\ stage[s] = "outside" /\ s \in Visible
  /\ lock[LockOf(s)] = NoSession
  /\ Goes(s, "ready")
  /\ lock' = [lock EXCEPT ![LockOf(s)] = s]
  /\ UNCHANGED <<starts, circuit, instanceVars, reader, historyVars>>

\* The opt-in is missing, the run is not serial, or the lock is held.
TurnedAway(s) ==
  /\ stage[s] = "outside" /\ s \in Visible
  /\ Goes(s, "ended")
  /\ UNCHANGED <<starts, circuit, instanceVars, lock, reader, historyVars>>

Unlocked(s) == [l \in LockFiles |-> IF lock[l] = s THEN NoSession ELSE lock[l]]

\* A session is over when it has run its tests; a demo, when its only start is.
Leave(s) ==
  /\ stage[s] = "ready"
  /\ s \in Demos => starts[s] > 0
  /\ Goes(s, "ended")
  /\ lock' = Unlocked(s)
  /\ UNCHANGED <<starts, circuit, instanceVars, reader, historyVars>>

(***************************************************************************)
(* NestedNiriHarness.start.  Whatever it raises is caught: the test is      *)
(* skipped, or the demo ends.                                              *)
(***************************************************************************)

MayStart(s) ==
  /\ stage[s] = "ready"
  /\ starts[s] < IF s \in Demos THEN 1 ELSE MaxStarts

Counted(s) == starts' = [starts EXCEPT ![s] = @ + 1]

\* The scenario, the display or the program is missing, or the circuit is open;
\* the temporary directory, where it exists, is removed.
Refused(s) ==
  /\ MayStart(s)
  /\ Counted(s)
  /\ UNCHANGED <<stage, circuit, instanceVars, lock, reader, historyVars>>

StartsNiri(s) ==
  /\ Counted(s)
  /\ Goes(s, "waiting")
  /\ proc' = [proc EXCEPT ![s] = "starting"]
  /\ sock' = [sock EXCEPT ![s] = FALSE]
  /\ log' = [log EXCEPT ![s] = FALSE]
  /\ helpers' = [helpers EXCEPT ![s] = FALSE]
  /\ dir' = [dir EXCEPT ![s] = TRUE]
  /\ signal' = [signal EXCEPT ![s] = "none"]
  /\ UNCHANGED <<circuit, lock, reader, historyVars>>

\* Mutant: the circuit is not looked at.
LaunchAnyway(s) == MayStart(s) /\ StartsNiri(s)

Launch(s) ==
  /\ MayStart(s)
  /\ s \in Visible => ~circuit[s]
  /\ StartsNiri(s)

SocketFound(s) ==
  /\ stage[s] = "waiting" /\ sock[s]
  /\ Goes(s, "probing")
  /\ UNCHANGED <<starts, circuit, instanceVars, lock, reader, historyVars>>

ProbeAnswered(s) ==
  /\ stage[s] = "probing" /\ proc[s] = "serving"
  /\ Goes(s, "settling")
  /\ UNCHANGED <<starts, circuit, instanceVars, lock, reader, historyVars>>

\* start() returns, also when the compositor has died since the probe.
Settled(s) ==
  /\ stage[s] = "settling"
  /\ Goes(s, IF s \in Demos THEN "opening" ELSE "running")
  /\ UNCHANGED <<starts, circuit, instanceVars, lock, reader, historyVars>>

\* What stays when nothing is cleaned up.
Everything(s) ==
  {x \in {"process", "helpers", "directory"} :
     \/ x = "process" /\ Alive(s)
     \/ x = "helpers" /\ helpers[s]
     \/ x = "directory" /\ dir[s]}

\* The session forgets the instance; what is still there then stays.
Drops(s, remains, cause) ==
  /\ left' = [left EXCEPT ![s] = {<<x, cause, signal[s]>> : x \in remains}]
  /\ proc' = [proc EXCEPT ![s] = "none"]
  /\ sock' = [sock EXCEPT ![s] = FALSE]
  /\ log' = [log EXCEPT ![s] = FALSE]
  /\ helpers' = [helpers EXCEPT ![s] = FALSE]
  /\ dir' = [dir EXCEPT ![s] = FALSE]
  /\ signal' = [signal EXCEPT ![s] = "none"]

\* No socket came in time: start() calls _terminate_process_tree.
SocketTimeout(s) ==
  /\ stage[s] = "waiting"
  /\ Goes(s, "abandoning")
  /\ UNCHANGED <<starts, circuit, instanceVars, lock, reader, historyVars>>

(***************************************************************************)
(* _terminate_process_tree, called by start() and by stop().  It is not a   *)
(* coroutine: the session does nothing else meanwhile.                     *)
(***************************************************************************)
Terminating(s) == stage[s] \in {"abandoning", "stopping"}

\* poll() finds the compositor running.
SendsTerm(s) ==
  /\ Terminating(s) /\ Alive(s) /\ signal[s] = "none"
  /\ signal' = [signal EXCEPT ![s] = "SIGTERM"]
  /\ UNCHANGED <<stage, starts, circuit, proc, sock, log, helpers, dir, lock, reader, historyVars>>

\* Mutant: the compositor is killed, and not its group.
KillsLeader(s) ==
  /\ Terminating(s) /\ Alive(s) /\ signal[s] = "SIGTERM"
  /\ signal' = [signal EXCEPT ![s] = "SIGKILL"]
  /\ proc' = [proc EXCEPT ![s] = "gone"]
  /\ UNCHANGED <<stage, starts, circuit, sock, log, helpers, dir, lock, reader, historyVars>>

\* wait() has timed out, so the whole group is killed, and waited for.
SendsKill(s) ==
  /\ Terminating(s) /\ Alive(s) /\ signal[s] = "SIGTERM"
  /\ signal' = [signal EXCEPT ![s] = "SIGKILL"]
  /\ proc' = [proc EXCEPT ![s] = "gone"]
  /\ helpers' = [helpers EXCEPT ![s] = FALSE]
  /\ UNCHANGED <<stage, starts, circuit, sock, log, dir, lock, reader, historyVars>>

\* What is there when it has returned: poll() or wait() saw the compositor
\* itself end, and nobody looks at its helpers.
Terminated(s) == proc[s] = "gone"
Remains(s) == Everything(s) \ {"directory"}

\* start() goes on to its exception: a signature that
\* _maybe_open_visible_circuit finds opens the circuit, and the directory stays
\* only if that is asked for.
StartAbandoned(s) ==
  /\ stage[s] = "abandoning" /\ Terminated(s)
  /\ Drops(s, Remains(s) \cup IF s \in KeepArtifacts THEN {"directory"} ELSE {}, "timeout")
  /\ broken' = [broken EXCEPT ![s] = @ \/ log[s]]
  /\ circuit' = [circuit EXCEPT ![s] = @ \/ (s \in Visible /\ log[s])]
  /\ Goes(s, "ready")
  /\ UNCHANGED <<starts, lock, reader>>

\* The rest of stop().
Stopped(s) ==
  /\ stage[s] = "stopping" /\ Terminated(s)
  /\ Drops(s, Remains(s), "stop")
  /\ Goes(s, IF s \in Demos THEN "unlocking" ELSE "ready")
  /\ UNCHANGED <<starts, circuit, lock, reader, broken>>

\* Mutant: the probe has no deadline.
ProbeForever(s) == stage[s] = "probing" /\ UNCHANGED sessionVars

\* _wait_until_protocol_ready gives up: its RuntimeError passes through start().
ProbeTimeout(s) ==
  /\ stage[s] = "probing"
  /\ Drops(s, Everything(s), "probe")
  /\ Goes(s, "ready")
  /\ UNCHANGED <<starts, circuit, lock, reader, broken>>

\* Ctrl+C cancels start(), which has no handler, and ends the session.
InterruptStart(s) ==
  /\ stage[s] \in {"waiting", "probing", "settling"}
  /\ Drops(s, Everything(s), "interrupt")
  /\ lock' = Unlocked(s)
  /\ Goes(s, "ended")
  /\ UNCHANGED <<starts, circuit, reader, broken>>

(***************************************************************************)
(* With an instance: the test, or the demo with its bundle and event task.  *)
(***************************************************************************)
TestEnds(s) ==
  /\ stage[s] = "running"
  /\ Goes(s, "stopping")
  /\ UNCHANGED <<starts, circuit, instanceVars, lock, reader, historyVars>>

BundleOpens(s) ==
  /\ stage[s] = "opening" /\ proc[s] = "serving"
  /\ reader' = [reader EXCEPT ![s] = "reading"]
  /\ Goes(s, "showing")
  /\ UNCHANGED <<starts, circuit, instanceVars, lock, historyVars>>

\* The calls of the show are _safe_calls and end, one way or the other, by the
\* timeouts of the client; so does the show, at its deadline or by Ctrl+C.  A
\* bundle that does not open raises.  Then the finally clause cancels the task.
ShowEnds(s) ==
  /\ stage[s] \in {"opening", "showing"}
  /\ reader' = [reader EXCEPT ![s] = IF @ = "reading" THEN "cancelled" ELSE @]
  /\ Goes(s, "ending")
  /\ UNCHANGED <<starts, circuit, instanceVars, lock, historyVars>>

\* The task ends by itself when an event cannot be logged.
ReaderFails(s) ==
  /\ reader[s] = "reading"
  /\ reader' = [reader EXCEPT ![s] = "done"]
  /\ UNCHANGED <<stage, starts, circuit, instanceVars, lock, historyVars>>

\* Mutant: _safe_call catches BaseException and the loop goes on.
CancelSwallowed(s) ==
  /\ reader[s] = "cancelled"
  /\ reader' = [reader EXCEPT ![s] = "reading"]
  /\ UNCHANGED <<stage, starts, circuit, instanceVars, lock, historyVars>>

\* CancelledError passes the `except Exception` of _safe_call.
ReaderEnds(s) ==
  /\ reader[s] = "cancelled"
  /\ reader' = [reader EXCEPT ![s] = "done"]
  /\ UNCHANGED <<stage, starts, circuit, instanceVars, lock, historyVars>>

DemoStops(s) ==
  /\ stage[s] = "ending" /\ reader[s] \in {"none", "done"}
  /\ Goes(s, "stopping")
  /\ UNCHANGED <<starts, circuit, instanceVars, lock, reader, historyVars>>

DemoUnlocks(s) ==
  /\ stage[s] = "unlocking"
  /\ lock' = Unlocked(s)
  /\ Goes(s, "ended")
  /\ UNCHANGED <<starts, circuit, instanceVars, reader, historyVars>>

StartSteps(s) ==
  \/ Refused(s) \/ Launch(s)
  \/ SocketFound(s) \/ SocketTimeout(s) \/ ProbeAnswered(s) \/ ProbeTimeout(s) \/ Settled(s)
TerminationSteps(s) == SendsTerm(s) \/ SendsKill(s) \/ StartAbandoned(s) \/ Stopped(s)
DemoSteps(s) ==
  s \in Demos /\ (BundleOpens(s) \/ ShowEnds(s) \/ ReaderEnds(s) \/ DemoStops(s) \/ DemoUnlocks(s))
SessionSteps(s) ==
  \/ EnterHeadless(s) \/ EnterVisible(s) \/ TurnedAway(s)
  \/ StartSteps(s) \/ TestEnds(s) \/ TerminationSteps(s) \/ DemoSteps(s)
  \/ Leave(s)

Environment(s) ==
  Listens(s) \/ Serves(s) \/ Dies(s) \/ HelpersEnd(s) \/ InterruptStart(s) \/ ReaderFails(s)

SessionsNext == \E s \in Sessions : SessionSteps(s) \/ Environment(s)

\* Every wait of a session has a timeout, and a test or a demo with a duration
\* ends; the session goes on with what the harness returned.
SessionsSpec ==
  SessionsInit /\ [][SessionsNext]_sessionVars
    /\ \A s \in Sessions : WF_sessionVars(SessionSteps(s))

(***************************************************************************)
(* Properties.                                                             *)
(***************************************************************************)
Stages ==
  {"outside", "ready", "waiting", "probing", "settling", "abandoning", "running", "opening",
   "showing", "ending", "stopping", "unlocking", "ended"}

\* A visible compositor that a session still knows of runs under the lock of
\* that session, from the first moment to the last (conftest.py:189-208,
\* visual_demo.py:282-361).
LockedWhileVisible ==
  \A s \in Visible : Alive(s) => lock[LockOf(s)] = s

\* However the compositor and its helpers meet the signals, a start that times
\* out waiting for the socket, or a stop, leaves no compositor.  Helpers stay only
\* behind a compositor that ended before the group was killed, and a directory
\* only where it is asked for (nested_niri.py:216-230, 318-320, 340-364).
CleanedUp ==
  \A s \in Sessions : \A x \in left[s] :
    x[2] \in {"timeout", "stop"} =>
      \/ x[1] = "helpers" /\ x[3] # "SIGKILL"
      \/ x[1] = "directory" /\ x[2] = "timeout" /\ s \in KeepArtifacts

\* Once a visible start has failed with a signature of the backend in the log,
\* the session starts no other compositor (nested_niri.py:141-143, 366-376).
NoRelaunchAfterSignature ==
  [][\A s \in Visible : broken[s] => (proc'[s] = "starting" => proc[s] = "starting")]_sessionVars

\* A start comes to an end: an instance, an exception or an interrupt
\* (nested_niri.py:207-241, 340-364).
Starting(s) == stage[s] \in {"waiting", "probing", "settling", "abandoning"}
StartSettles == \A s \in Sessions : Starting(s) ~> ~Starting(s)

\* A demo that has begun ends, with its event task over and its lock released,
\* whatever happens to the compositor (visual_demo.py:260-361).
DemoEnds ==
  \A s \in Demos :
    stage[s] = "ready" ~> /\ stage[s] = "ended" /\ reader[s] \in {"none", "done"}
                          /\ lock[LockOf(s)] # s
=============================================================================
