----------------------------- MODULE RoundRobin -----------------------------
(***************************************************************************)
(* What the scheduler of one processor promises: the threads take turns.   *)
(* A new thread is next in turn, a thread that has left is switched away   *)
(* from once and for all.  Tasking is shown to implement this.             *)
(***************************************************************************)
EXTENDS Sequences

CONSTANT Threads

VARIABLES
  current,    (* the thread the processor runs                             *)
  waiting,    (* the others, in the order of their turns                   *)
  leaving     (* whether the current thread has left the schedule          *)

Range(s) == {s[i] : i \in DOMAIN s}

Join(t) ==
  /\ t # current /\ t \notin Range(waiting)
  /\ waiting' = <<t>> \o waiting
  /\ UNCHANGED <<current, leaving>>

Leave ==
  /\ ~leaving /\ waiting # <<>>
  /\ leaving' = TRUE
  /\ UNCHANGED <<current, waiting>>

Switch ==
  /\ waiting # <<>>
  /\ current' = Head(waiting)
  /\ waiting' = IF leaving THEN Tail(waiting) ELSE Append(Tail(waiting), current)
  /\ leaving' = FALSE

Next == (\E t \in Threads : Join(t)) \/ Leave \/ Switch

Spec ==
  /\ current \in Threads /\ waiting = <<>> /\ leaving = FALSE
  /\ [][Next]_<<current, waiting, leaving>>
=============================================================================
