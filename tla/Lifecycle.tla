----------------------------- MODULE Lifecycle -----------------------------
(***************************************************************************)
(* The process lifecycle of the live engine: the tail of main.run, which   *)
(* starts four background tasks and waits for the first of them, or for    *)
(* the shutdown event, to complete, and the cleanups of src/live/shutdown. *)
(*                                                                         *)
(* A task is "created" until its first step.  Two of the four are given    *)
(* the Shutdown object instead of its event and await shutdown.wait(), a   *)
(* method the class does not have: they end in an AttributeError.          *)
(***************************************************************************)
EXTENDS Naturals, Sequences

Tasks == {"feed", "reconciler", "daily_rollup", "stale_watcher"}

\* In the order in which they are registered.
Cleanups == <<"close_state", "close_client", "cancel_all_open", "stop_health">>

VARIABLES
  task,       \* "created", "waiting" (at an await), "done"
  event,      \* shutdown.event is set
  main,       \* run(): "serving", "stopping", "cleaning", "exited"
  cleaned,    \* cleanups run so far
  signalled,  \* SIGTERM or SIGINT has come
  lostFeed    \* the stream raised an exception it does not reconnect after

vars == <<task, event, main, cleaned, signalled, lostFeed>>

Init ==
  /\ task = [t \in Tasks |-> "created"]
  /\ event = FALSE
  /\ main = "serving"
  /\ cleaned = 0
  /\ signalled = FALSE
  /\ lostFeed = FALSE

-----------------------------------------------------------------------------
Signal ==
  /\ ~signalled
  /\ signalled' = TRUE
  /\ event' = TRUE
  /\ UNCHANGED <<task, main, cleaned, lostFeed>>

\* The tasks that are given the event itself run until it is set.
TaskWaits(t) ==
  /\ t \in {"feed", "reconciler"}
  /\ task[t] # "done"
  /\ task' = [task EXCEPT ![t] = IF event THEN "done" ELSE "waiting"]
  /\ UNCHANGED <<event, main, cleaned, signalled, lostFeed>>

\* An error of the stream other than those it reconnects after ends the feed.
FeedFails ==
  /\ task["feed"] = "waiting"
  /\ task' = [task EXCEPT !["feed"] = "done"]
  /\ lostFeed' = TRUE
  /\ UNCHANGED <<event, main, cleaned, signalled>>

\* The first iteration of the other two: a body that catches its errors, then
\* shutdown.wait(), which raises what the task does not catch.  If the event is
\* set before that they just return.
TaskRaises(t) ==
  /\ t \in {"daily_rollup", "stale_watcher"}
  /\ task[t] = "created"
  /\ task' = [task EXCEPT ![t] = "done"]
  /\ UNCHANGED <<event, main, cleaned, signalled, lostFeed>>

\* asyncio.wait returns on the first completion; the event is set, and the tasks
\* that are left are cancelled and gathered.
MainWakes ==
  /\ main = "serving"
  /\ event \/ \E t \in Tasks : task[t] = "done"
  /\ main' = "stopping"
  /\ event' = TRUE
  /\ UNCHANGED <<task, cleaned, signalled, lostFeed>>

CancelTasks ==
  /\ main = "stopping"
  /\ task' = [t \in Tasks |-> "done"]
  /\ main' = "cleaning"
  /\ UNCHANGED <<event, cleaned, signalled, lostFeed>>

\* A cleanup returns, raises or times out: the next one runs in any case.
RunCleanup ==
  /\ main = "cleaning"
  /\ cleaned' = cleaned + 1
  /\ main' = IF cleaned' = Len(Cleanups) THEN "exited" ELSE main
  /\ UNCHANGED <<task, event, signalled, lostFeed>>

Next ==
  \/ Signal
  \/ \E t \in Tasks : TaskWaits(t) \/ TaskRaises(t)
  \/ FeedFails
  \/ MainWakes
  \/ CancelTasks
  \/ RunCleanup

Spec == Init /\ [][Next]_vars

-----------------------------------------------------------------------------
\* The engine stops serving only when it is told to or has lost its feed ("Run
\* all background tasks concurrently until shutdown").
RunsUntilShutdown == main # "serving" => signalled \/ lostFeed
=============================================================================
