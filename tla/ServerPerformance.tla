--------------------------- MODULE ServerPerformance ---------------------------
(***************************************************************************)
(* ScopedServerPerformance, the guard that raises settings of a Windows    *)
(* Server for the compute benchmark.  A setting has the value it had       *)
(* before, a "high" one, or "managed": the system's default, for a QoS     *)
(* setting that could not be read.  Which of the system's calls fail is    *)
(* given by the sets unreadable and refused.                               *)
(***************************************************************************)

ThreadSettings == {"thread_qos", "thread_priority"}
Settings == {"scheme", "process_priority", "process_qos"} \cup ThreadSettings

\* These are left alone when the value to restore is not known.
ReadFirst == {"scheme", "process_priority", "thread_priority"}

\* The settings the guard changes, from their old values.
Changed(old, unreadable, refused) ==
  {s \in Settings \ refused : s \in ReadFirst => s \notin unreadable /\ old[s] # "high"}

Acquire(old, changed) == [s \in Settings |-> IF s \in changed THEN "high" ELSE old[s]]

\* Fault: a setting is restored only if nothing failed while it was raised.
Release_OnSuccess(now, changed, old, unreadable) ==
  [s \in Settings |->
     IF s \in changed /\ changed = Settings THEN old[s] ELSE now[s]]

\* The destructor: what was changed gets its old value, or the default.
Release(now, changed, old, unreadable) ==
  [s \in Settings |->
     IF s \notin changed THEN now[s]
     ELSE IF s \in unreadable THEN "managed"
     ELSE old[s]]

\* configure_current_thread_for_performance: it sets both of the thread's settings,
\* of which the system accepts some.
Configure(now, accepted) == [s \in Settings |-> IF s \in accepted THEN "high" ELSE now[s]]
=============================================================================
