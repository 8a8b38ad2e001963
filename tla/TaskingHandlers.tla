--------------------------- MODULE TaskingHandlers ---------------------------
(***************************************************************************)
(* Tasking with the ACPI interrupt: the SCI handler (acpi_callback) runs   *)
(* ACPICA's event dispatch, which calls AcpiOsExecute for a GPE, and       *)
(* AcpiOsExecute makes and schedules a worker thread - on processor 0,     *)
(* where the interrupted thread may itself be editing the schedule.        *)
(***************************************************************************)
EXTENDS Tasking

(* AcpiOsExecute in a handler: interrupts are off, so nothing on processor *)
(* 0 comes between its steps.                                              *)
HandlerSchedules(u) ==
  /\ ~wild /\ u \notin allocated \cup taken
  /\ allocated' = allocated \cup {u}
  /\ members'   = members \cup {u}
  /\ next' = [next EXCEPT ![u] = next[current], ![current] = u]
  /\ prev' = [prev EXCEPT ![next[current]] = u, ![u] = current]
  /\ pc'   = [pc EXCEPT ![u] = "run"]
  /\ depth' = [depth EXCEPT ![u] = MaxDepth]
  /\ enabled' = TRUE
  /\ UNCHANGED <<current, made, taken, wild>>

NextWithSci == Next \/ \E u \in Threads : HandlerSchedules(u)

SpecWithSci == Init /\ [][NextWithSci]_vars
=============================================================================
