--------------------------- MODULE Tasking_proofs ---------------------------
(***************************************************************************)
(* Proofs about the schedule of processor 0, for any number of threads and *)
(* any order of scheduling, deaths and ticks.                              *)
(*                                                                         *)
(* The threads of the ring, InRing, are those that are neither being       *)
(* linked nor being unlinked.  That the ring is one circle is said without *)
(* walking it: no part of it but the whole is closed under SchedNext       *)
(* (Circle).  In the middle of an edit one SchedPrev is wrong, and Edits   *)
(* says which and what the thread that edits is going to do about it.      *)
(* Handlers that are given the memory of a dead thread, and the tick that  *)
(* then goes astray, change nothing the invariant is about (Still).        *)
(***************************************************************************)
EXTENDS Tasking, FiniteSetTheorems, TLAPS

Making == {"pause", "next", "fix", "prev", "link"}
Gone   == {"relink", "leave", "free", "gone", "dead"}
InRing == members \ (Joining \cup Leaving)

(* Where the threads are, and which objects are whose.                     *)
Control ==
  /\ enabled <=> pc[current] \in {"run", "pause", "dead"}
  /\ \A t \in Threads : t # current => pc[t] \in {"run", "pause", "dead"}
  /\ \A t \in allocated : pc[t] \notin {"gone", "dead"}
  /\ \A t \in allocated \ members : t = current /\ pc[t] = "free"
  /\ pc[current] = "free" => current \notin members
  /\ pc[Main] \notin Dying

Makes ==
  \A t \in Threads : pc[t] \in Making =>
    /\ t \in members /\ made[t] \in members
    /\ pc[made[t]] = "run" /\ made[t] # current
    /\ \A s \in Threads : pc[s] \in Making /\ made[s] = made[t] => s = t

(* The thread whose successor's SchedPrev an edit has already changed.     *)
Broken(s) ==
  \/ s = current /\ pc[current] \in {"prev", "link"}
  \/ s = prev[current] /\ pc[current] = "relink"

Circle ==
  /\ Main \in InRing
  /\ current \in InRing \/ pc[current] \in Gone
  /\ \A s \in InRing : next[s] \in InRing
  /\ \A s \in InRing : prev[next[s]] = s \/ Broken(s)
  /\ \A C \in SUBSET InRing : C # {} /\ (\A s \in C : next[s] \in C) => C = InRing

Edits ==
  /\ pc[current] \in {"fix", "prev", "link"} => next[made[current]] = next[current]
  /\ pc[current] \in {"prev", "link"} => prev[next[current]] = made[current]
  /\ pc[current] = "link" => prev[made[current]] = current
  /\ pc[current] \in Gone => next[current] \in InRing
  /\ pc[current] = "relink" =>
       /\ prev[current] \in InRing /\ next[prev[current]] = next[current]
       /\ prev[next[current]] = current

(* The inductive invariant.                                                *)
IInv == TypeOK /\ Control /\ Makes /\ Circle /\ Edits

-----------------------------------------------------------------------------
LEMMA InitIInv == Init => IInv
<1>. SUFFICES ASSUME Init PROVE IInv
  OBVIOUS
<1>. USE ThreadsAssumption DEF Init
<1>1. TypeOK
  <2>1. /\ current \in Threads /\ enabled \in BOOLEAN /\ wild \in BOOLEAN
        /\ members \subseteq allocated /\ allocated \subseteq Threads
        /\ taken \subseteq Threads \ allocated
    OBVIOUS
  <2>2. /\ next \in [Threads -> Threads \cup {Null}]
        /\ prev \in [Threads -> Threads \cup {Null}]
        /\ made \in [Threads -> Threads \cup {Null}]
        /\ depth \in [Threads -> 0..MaxDepth]
    OBVIOUS
  <2>3. pc \in [Threads -> {"run", "pause"} \cup Editing \cup Dying]
    BY DEF Editing, Dying
  <2>. QED
    BY <2>1, <2>2, <2>3 DEF TypeOK
<1>2. Control /\ Makes
  BY DEF Control, Makes, Dying, Making
<1>3. Joining = {} /\ Leaving = {}
  BY DEF Joining, Leaving, Dying
<1>4. InRing = {Main}
  BY <1>3 DEF InRing
<1>5. Circle /\ Edits
  BY <1>4 DEF Circle, Edits, Broken, Gone
<1>. QED
  BY <1>1, <1>2, <1>5 DEF IInv

(* The tick that follows an intact link, and the steps that do not touch   *)
(* the schedule: those of handlers, and the tick that goes astray.         *)
Turn ==
  /\ enabled /\ current' = next[current]
  /\ UNCHANGED <<enabled, next, prev, members, allocated, pc, made, depth, taken, wild>>

Still ==
  /\ UNCHANGED <<current, enabled, next, prev, members, allocated, pc, made, depth>>
  /\ taken' \subseteq taken \cup (Threads \ allocated)
  /\ wild' = wild \/ wild' = TRUE

(* A step is one of these.                                                 *)
LEMMA Steps ==
  ASSUME [Next]_vars
  PROVE  \/ Turn \/ Still
         \/ \E t, u \in Threads : Create(t, u)
         \/ \E t \in Threads :
              \/ SchedulePause(t)
              \/ ScheduleNext(t)
              \/ ScheduleFix(t)
              \/ SchedulePrev(t)
              \/ ScheduleLink(t)
              \/ ScheduleResume(t)
              \/ KillPause(t)
              \/ KillUnlinkNext(t)
              \/ KillUnlinkPrev(t)
              \/ KillLeaveProcess(t)
              \/ KillFree(t)
              \/ KillResume(t)
<1>1. CASE Tick
  BY <1>1 DEF Tick, Turn, Still, links
<1>2. CASE UNCHANGED vars
  BY <1>2 DEF Still, vars
<1>3. ASSUME NEW u \in Threads, HandlerAllocates(u) \/ WorkerFrees(u) PROVE Still
  BY <1>3 DEF Still, HandlerAllocates, WorkerFrees, links
<1>. QED
  BY <1>1, <1>2, <1>3 DEF Next, Schedule, Kill

(* Types.                                                                  *)
LEMMA TypeStep ==
  ASSUME TypeOK, Control, next[current] \in Threads, [Next]_vars
  PROVE  TypeOK'
<1>. USE ThreadsAssumption DEF TypeOK, Editing, Dying
<1>1. CASE Turn
  BY <1>1 DEF Turn, links
<1>2. CASE Still
  BY <1>2 DEF Still, links
<1>3. ASSUME NEW t \in Threads, NEW u \in Threads, Create(t, u) PROVE TypeOK'
  BY <1>3 DEF Create
<1>4. ASSUME NEW t \in Threads, SchedulePause(t) PROVE TypeOK'
  BY <1>4 DEF SchedulePause, Step, links
<1>5. ASSUME NEW t \in Threads, ScheduleNext(t) PROVE TypeOK'
  BY <1>5 DEF ScheduleNext, Step, links
<1>6. ASSUME NEW t \in Threads, ScheduleFix(t) PROVE TypeOK'
  BY <1>6 DEF ScheduleFix, Step, links
<1>7. ASSUME NEW t \in Threads, SchedulePrev(t) PROVE TypeOK'
  BY <1>7 DEF SchedulePrev, Step, links
<1>8. ASSUME NEW t \in Threads, ScheduleLink(t) PROVE TypeOK'
  BY <1>8 DEF ScheduleLink, Step, links
<1>9. ASSUME NEW t \in Threads, ScheduleResume(t) PROVE TypeOK'
  BY <1>9 DEF ScheduleResume, Step, links
<1>10. ASSUME NEW t \in Threads, KillPause(t) PROVE TypeOK'
  BY <1>10 DEF KillPause, Step, links
<1>11. ASSUME NEW t \in Threads, KillUnlinkNext(t) PROVE TypeOK'
  BY <1>11 DEF KillUnlinkNext, Step, links
<1>12. ASSUME NEW t \in Threads, KillUnlinkPrev(t) PROVE TypeOK'
  BY <1>12 DEF KillUnlinkPrev, Step, links
<1>13. ASSUME NEW t \in Threads, KillLeaveProcess(t) PROVE TypeOK'
  BY <1>13 DEF KillLeaveProcess, Step, Control, links
<1>14. ASSUME NEW t \in Threads, KillFree(t) PROVE TypeOK'
  BY <1>14 DEF KillFree, Step, Control, links
<1>15. ASSUME NEW t \in Threads, KillResume(t) PROVE TypeOK'
  BY <1>15 DEF KillResume, Step, links
<1>. QED
  BY Steps, <1>1, <1>2, <1>3, <1>4, <1>5, <1>6, <1>7, <1>8, <1>9, <1>10, <1>11, <1>12,
     <1>13, <1>14, <1>15

(* The ring only changes where a thread is linked or unlinked.             *)
LEMMA RingFacts ==
  ASSUME TypeOK
  PROVE  \A x : x \in InRing <=>
                  /\ x \in members /\ ~(x = current /\ pc[x] \in Gone)
                  /\ \A t \in members : pc[t] \in Making => made[t] # x
BY DEF TypeOK, InRing, Joining, Leaving, Making, Gone, Dying

LEMMA RingFactsPrime ==
  ASSUME TypeOK'
  PROVE  \A x : x \in InRing' <=>
                  /\ x \in members' /\ ~(x = current' /\ pc'[x] \in Gone)
                  /\ \A t \in members' : pc'[t] \in Making => made'[t] # x
BY DEF TypeOK, InRing, Joining, Leaving, Making, Gone, Dying

LEMMA RingSame ==
  ASSUME TypeOK, TypeOK', current' = current, members' = members,
         pc'[current] \in Gone <=> pc[current] \in Gone,
         \A s \in Threads : pc'[s] \in Making <=> pc[s] \in Making,
         \A s \in Threads : pc[s] \in Making => made'[s] = made[s]
  PROVE  InRing' = InRing
<1>1. members \subseteq Threads
  BY DEF TypeOK
<1>2. \A x : (\A s \in members' : pc'[s] \in Making => made'[s] # x)
            <=> (\A s \in members : pc[s] \in Making => made[s] # x)
  BY <1>1
<1>3. \A x : x \in InRing' <=> x \in InRing
  BY <1>2, RingFacts, RingFactsPrime
<1>. QED
  BY <1>3

(* The steps that do not change what is on the ring.                       *)
Quiet ==
  \/ Turn \/ Still
  \/ \E t, u \in Threads : Create(t, u)
  \/ \E t \in Threads :
       \/ SchedulePause(t)
       \/ ScheduleNext(t)
       \/ ScheduleFix(t)
       \/ SchedulePrev(t)
       \/ ScheduleResume(t)
       \/ KillPause(t)
       \/ KillUnlinkPrev(t)
       \/ KillLeaveProcess(t)
       \/ KillFree(t)
       \/ KillResume(t)

LEMMA RingKept ==
  ASSUME IInv, TypeOK', Quiet
  PROVE  InRing' = InRing
<1>. USE ThreadsAssumption DEF IInv, TypeOK
<1>1. CASE Turn
  BY <1>1, RingFacts, RingFactsPrime DEF Turn, links, Control, Circle, Gone, Making, Dying
<1>2. CASE Still
  BY <1>2 DEF Still, links, InRing, Joining, Leaving
<1>3. ASSUME NEW t \in Threads, NEW u \in Threads, Create(t, u) PROVE InRing' = InRing
  <2>1. /\ current = t /\ t \in allocated /\ pc[t] = "run" /\ u # t
        /\ u \notin members /\ u \notin InRing
    BY <1>3, RingFacts DEF Create, Control, Circle, Gone
  <2>2. /\ current' = t /\ members' = members \cup {u}
        /\ pc' = [pc EXCEPT ![t] = "pause", ![u] = "run"]
        /\ made' = [made EXCEPT ![t] = u]
    BY <1>3, <2>1 DEF Create
  <2>3. \A s \in members : pc[s] \in Making => s # t /\ made[s] # u
    BY <2>1 DEF Makes, Making
  <2>4. ASSUME NEW x \in InRing PROVE x \in InRing'
    <3>1. x \in members /\ x # u /\ ~(x = current /\ pc[x] \in Gone)
      BY <2>1, <2>4, RingFacts
    <3>2. x \in members' /\ ~(x = current' /\ pc'[x] \in Gone)
      BY <2>1, <2>2, <3>1 DEF Gone
    <3>3. ASSUME NEW s \in members', pc'[s] \in Making PROVE made'[s] # x
      <4>1. CASE s = t
        BY <2>2, <3>1, <4>1
      <4>2. CASE s # t
        <5>1. s # u /\ s \in members /\ pc'[s] = pc[s] /\ made'[s] = made[s]
          BY <2>1, <2>2, <3>3, <4>2 DEF Making
        <5>. QED
          BY <5>1, <3>3, <2>4, RingFacts
      <4>. QED
        BY <4>1, <4>2
    <3>. QED
      BY <3>2, <3>3, RingFactsPrime
  <2>5. ASSUME NEW x \in InRing' PROVE x \in InRing
    <3>1. t \in members
      BY <2>1 DEF Control
    <3>2. x \in members \cup {u}
      BY <2>2, <2>5 DEF InRing
    <3>3. pc'[t] = "pause" /\ made'[t] = u
      BY <2>1, <2>2
    <3>4. x # u
      BY <3>1, <3>3, <2>2, <2>5, RingFactsPrime DEF Making
    <3>5. ASSUME NEW s \in members, pc[s] \in Making PROVE made[s] # x
      <4>1. s # t /\ s # u
        BY <2>1, <2>3, <3>5
      <4>2. s \in members' /\ pc'[s] = pc[s] /\ made'[s] = made[s]
        BY <4>1, <2>2
      <4>. QED
        BY <4>2, <3>5, <2>5, RingFactsPrime
    <3>. QED
      BY <2>1, <3>2, <3>4, <3>5, RingFacts DEF Gone
  <2>. QED
    BY <2>4, <2>5
<1>4. ASSUME NEW t \in Threads, SchedulePause(t) PROVE InRing' = InRing
  BY <1>4, RingSame DEF SchedulePause, Step, links, Gone, Making, Dying, Editing
<1>5. ASSUME NEW t \in Threads, ScheduleNext(t) PROVE InRing' = InRing
  BY <1>5, RingSame DEF ScheduleNext, Step, links, Gone, Making, Dying, Editing
<1>6. ASSUME NEW t \in Threads, ScheduleFix(t) PROVE InRing' = InRing
  BY <1>6, RingSame DEF ScheduleFix, Step, links, Gone, Making, Dying, Editing
<1>7. ASSUME NEW t \in Threads, SchedulePrev(t) PROVE InRing' = InRing
  BY <1>7, RingSame DEF SchedulePrev, Step, links, Gone, Making, Dying, Editing
<1>8. ASSUME NEW t \in Threads, ScheduleResume(t) PROVE InRing' = InRing
  BY <1>8, RingSame DEF ScheduleResume, Step, links, Gone, Making, Dying, Editing
<1>9. ASSUME NEW t \in Threads, KillPause(t) PROVE InRing' = InRing
  BY <1>9, RingSame DEF KillPause, Step, links, Gone, Making, Dying, Editing
<1>10. ASSUME NEW t \in Threads, KillUnlinkPrev(t) PROVE InRing' = InRing
  BY <1>10, RingSame DEF KillUnlinkPrev, Step, links, Gone, Making, Dying, Editing
<1>11. ASSUME NEW t \in Threads, KillLeaveProcess(t) PROVE InRing' = InRing
  BY <1>11, RingFacts, RingFactsPrime
     DEF KillLeaveProcess, Step, links, Control, Makes, Circle, Gone, Making, Dying
<1>12. ASSUME NEW t \in Threads, KillFree(t) PROVE InRing' = InRing
  BY <1>12, RingSame DEF KillFree, Step, links, Gone, Making, Dying, Editing
<1>13. ASSUME NEW t \in Threads, KillResume(t) PROVE InRing' = InRing
  <2>1. /\ current = t /\ current' = t /\ members' = members /\ made' = made
        /\ pc[t] = "gone" /\ pc' = [pc EXCEPT ![t] = "dead"]
    BY <1>13 DEF KillResume, Step
  <2>2. t \notin members
    BY <2>1 DEF Control
  <2>. QED
    BY <2>1, <2>2 DEF InRing, Joining, Leaving, Dying
<1>. QED
  BY <1>1, <1>2, <1>3, <1>4, <1>5, <1>6, <1>7, <1>8, <1>9, <1>10, <1>11, <1>12,
     <1>13 DEF Quiet

LEMMA RingJoined ==
  ASSUME IInv, TypeOK', NEW t \in Threads, ScheduleLink(t)
  PROVE  made[t] \notin InRing /\ InRing' = InRing \cup {made[t]}
<1>1. /\ current = t /\ pc[t] = "link" /\ pc' = [pc EXCEPT ![t] = "resume"]
      /\ current' = current /\ members' = members /\ made' = made
  BY DEF ScheduleLink, Step
<1>2. /\ t \in members /\ made[t] \in members /\ made[t] # t
      /\ \A s \in Threads : pc[s] \in Making /\ made[s] = made[t] => s = t
  BY <1>1 DEF IInv, Makes, Making
<1>3. made[t] \notin InRing
  BY <1>1, <1>2, RingFacts DEF IInv, Making
<1>4. ASSUME NEW x \in InRing \cup {made[t]} PROVE x \in InRing'
  <2>1. x \in members /\ ~(x = current /\ pc'[x] \in Gone)
    BY <1>1, <1>2, RingFacts DEF IInv, Gone, TypeOK
  <2>2. ASSUME NEW s \in members, pc'[s] \in Making PROVE made[s] # x
    <3>1. s # t /\ pc[s] \in Making /\ s \in Threads
      BY <1>1, <2>2 DEF IInv, TypeOK, Making
    <3>. QED
      BY <3>1, <1>2, RingFacts DEF IInv
  <2>. QED
    BY <2>1, <2>2, <1>1, RingFactsPrime
<1>5. ASSUME NEW x \in InRing', x # made[t] PROVE x \in InRing
  <2>1. x \in members /\ ~(x = current /\ pc[x] \in Gone)
    BY <1>1, <1>5, RingFactsPrime DEF IInv, Gone, TypeOK
  <2>2. ASSUME NEW s \in members, pc[s] \in Making PROVE made[s] # x
    BY <1>1, <1>5, <2>2, RingFactsPrime DEF IInv, TypeOK
  <2>. QED
    BY <2>1, <2>2, RingFacts DEF IInv
<1>. QED
  BY <1>3, <1>4, <1>5

LEMMA RingLeft ==
  ASSUME IInv, TypeOK', NEW t \in Threads, KillUnlinkNext(t)
  PROVE  t \in InRing /\ InRing' = InRing \ {t}
<1>1. /\ current = t /\ pc[t] = "unlink" /\ pc' = [pc EXCEPT ![t] = "relink"]
      /\ current' = current /\ members' = members /\ made' = made
  BY DEF KillUnlinkNext, Step
<1>2. t \in InRing
  BY <1>1 DEF IInv, Circle, Gone
<1>3. \A s \in members : pc'[s] \in Making <=> pc[s] \in Making
  BY <1>1 DEF IInv, TypeOK, Making
<1>4. \A x : x \in members /\ ~(x = current /\ pc'[x] \in Gone)
               <=> x \in members /\ ~(x = current /\ pc[x] \in Gone) /\ x # t
  BY <1>1 DEF IInv, TypeOK, Gone
<1>5. \A x : x \in InRing' <=> x \in InRing /\ x # t
  BY <1>1, <1>3, <1>4, RingFacts, RingFactsPrime DEF IInv
<1>. QED
  BY <1>2, <1>5

LEMMA ControlStep ==
  ASSUME IInv, [Next]_vars
  PROVE  Control'
<1>. USE ThreadsAssumption DEF IInv, TypeOK, Dying
<1>0. current \in Threads /\ next[current] \in allocated
      /\ (pc[current] \in Gone => pc[current] \in Dying)
  BY DEF Circle, Edits, InRing, Gone
<1>1. CASE Turn
  BY <1>1, <1>0 DEF Turn, Control
<1>2. CASE Still
  BY <1>2 DEF Still, Control
<1>3. ASSUME NEW t \in Threads, NEW u \in Threads, Create(t, u) PROVE Control'
  BY <1>3 DEF Control, Create
<1>4. ASSUME NEW t \in Threads, SchedulePause(t) PROVE Control'
  BY <1>4 DEF Control, SchedulePause, Step
<1>5. ASSUME NEW t \in Threads, ScheduleNext(t) PROVE Control'
  BY <1>5 DEF Control, ScheduleNext, Step
<1>6. ASSUME NEW t \in Threads, ScheduleFix(t) PROVE Control'
  BY <1>6 DEF Control, ScheduleFix, Step
<1>7. ASSUME NEW t \in Threads, SchedulePrev(t) PROVE Control'
  BY <1>7 DEF Control, SchedulePrev, Step
<1>8. ASSUME NEW t \in Threads, ScheduleLink(t) PROVE Control'
  BY <1>8 DEF Control, ScheduleLink, Step
<1>9. ASSUME NEW t \in Threads, ScheduleResume(t) PROVE Control'
  BY <1>9 DEF Control, ScheduleResume, Step
<1>10. ASSUME NEW t \in Threads, KillPause(t) PROVE Control'
  BY <1>10 DEF Control, KillPause, Step
<1>11. ASSUME NEW t \in Threads, KillUnlinkNext(t) PROVE Control'
  BY <1>11 DEF Control, KillUnlinkNext, Step
<1>12. ASSUME NEW t \in Threads, KillUnlinkPrev(t) PROVE Control'
  BY <1>12 DEF Control, KillUnlinkPrev, Step
<1>13. ASSUME NEW t \in Threads, KillLeaveProcess(t) PROVE Control'
  BY <1>13 DEF Control, KillLeaveProcess, Step
<1>14. ASSUME NEW t \in Threads, KillFree(t) PROVE Control'
  BY <1>14 DEF Control, KillFree, Step
<1>15. ASSUME NEW t \in Threads, KillResume(t) PROVE Control'
  BY <1>15 DEF Control, KillResume, Step
<1>. QED
  BY Steps, <1>1, <1>2, <1>3, <1>4, <1>5, <1>6, <1>7, <1>8, <1>9, <1>10, <1>11, <1>12,
     <1>13, <1>14, <1>15

LEMMA MakesStep ==
  ASSUME IInv, [Next]_vars
  PROVE  Makes'
<1>. USE ThreadsAssumption DEF IInv, TypeOK
<1>0. next[current] \in InRing
      /\ \A t \in members : pc[t] \in Making => made[t] \notin InRing
  BY RingFacts DEF Circle, Edits
<1>1. CASE Turn
  BY <1>1, <1>0 DEF Turn, Makes, Making
<1>2. CASE Still
  BY <1>2 DEF Still, Makes
<1>3. ASSUME NEW t \in Threads, NEW u \in Threads, Create(t, u) PROVE Makes'
  <2>1. /\ current = t /\ t \in members /\ pc[t] = "run" /\ u # t /\ u \notin members
    BY <1>3 DEF Create, Control, Circle, Gone, InRing
  <2>2. /\ current' = t /\ members' = members \cup {u} /\ made' = [made EXCEPT ![t] = u]
        /\ pc' = [pc EXCEPT ![t] = "pause", ![u] = "run"]
    BY <1>3, <2>1 DEF Create
  <2>3. \A s \in Threads \ {t} : pc'[s] \in Making =>
          s # u /\ pc[s] \in Making /\ made'[s] = made[s] /\ made[s] \in members \ {t, u}
    BY <2>1, <2>2 DEF Makes, Making
  <2>4. pc'[t] = "pause" /\ made'[t] = u /\ pc'[u] = "run"
    BY <2>1, <2>2
  <2>. QED
    BY <2>1, <2>2, <2>3, <2>4 DEF Makes
<1>4. ASSUME NEW t \in Threads, SchedulePause(t) PROVE Makes'
  BY <1>4 DEF Makes, Making, SchedulePause, Step
<1>5. ASSUME NEW t \in Threads, ScheduleNext(t) PROVE Makes'
  BY <1>5 DEF Makes, Making, ScheduleNext, Step
<1>6. ASSUME NEW t \in Threads, ScheduleFix(t) PROVE Makes'
  BY <1>6 DEF Makes, Making, ScheduleFix, Step
<1>7. ASSUME NEW t \in Threads, SchedulePrev(t) PROVE Makes'
  BY <1>7 DEF Makes, Making, SchedulePrev, Step
<1>8. ASSUME NEW t \in Threads, ScheduleLink(t) PROVE Makes'
  BY <1>8 DEF Makes, Making, ScheduleLink, Step
<1>9. ASSUME NEW t \in Threads, ScheduleResume(t) PROVE Makes'
  BY <1>9 DEF Makes, Making, ScheduleResume, Step
<1>10. ASSUME NEW t \in Threads, KillPause(t) PROVE Makes'
  BY <1>10 DEF Makes, Making, KillPause, Step
<1>11. ASSUME NEW t \in Threads, KillUnlinkNext(t) PROVE Makes'
  BY <1>11 DEF Makes, Making, KillUnlinkNext, Step
<1>12. ASSUME NEW t \in Threads, KillUnlinkPrev(t) PROVE Makes'
  BY <1>12 DEF Makes, Making, KillUnlinkPrev, Step
<1>13. ASSUME NEW t \in Threads, KillLeaveProcess(t) PROVE Makes'
  BY <1>13 DEF Makes, Making, KillLeaveProcess, Step
<1>14. ASSUME NEW t \in Threads, KillFree(t) PROVE Makes'
  BY <1>14 DEF Makes, Making, KillFree, Step
<1>15. ASSUME NEW t \in Threads, KillResume(t) PROVE Makes'
  BY <1>15 DEF Makes, Making, KillResume, Step
<1>. QED
  BY Steps, <1>1, <1>2, <1>3, <1>4, <1>5, <1>6, <1>7, <1>8, <1>9, <1>10, <1>11, <1>12,
     <1>13, <1>14, <1>15

(* The thread before the one that is about to be unlinked: a successor     *)
(* that is its own would be a circle without the main thread.              *)
LEMMA Predecessor ==
  ASSUME IInv, pc[current] = "unlink"
  PROVE  /\ current \in InRing /\ prev[current] \in InRing
         /\ prev[current] # current /\ next[prev[current]] = current
         /\ next[current] \in InRing /\ next[current] # current
<1>1. current \in InRing /\ next[current] \in InRing /\ current # Main /\ Main \in InRing
  BY DEF IInv, Circle, Gone, Control, Dying
<1>2. next[current] # current
  <2>1. CASE next[current] = current
    <3>1. {current} = InRing
      BY <1>1, <2>1 DEF IInv, Circle
    <3>. QED
      BY <3>1, <1>1
  <2>. QED
    BY <2>1
<1>3. PICK p \in InRing : next[p] = current
  <2>. DEFINE C == {next[q] : q \in InRing}
  <2>1. C \in SUBSET InRing /\ C # {} /\ \A q \in C : next[q] \in C
    BY <1>1 DEF IInv, Circle
  <2>2. C = InRing
    BY <2>1 DEF IInv, Circle
  <2>. QED
    BY <1>1, <2>2
<1>4. prev[next[p]] = p
  BY DEF IInv, Circle, Broken
<1>. QED
  BY <1>1, <1>2, <1>3, <1>4

LEMMA CircleKept ==
  ASSUME IInv, InRing' = InRing,
         \A s \in InRing : next'[s] = next[s],
         \A s \in InRing : prev'[next[s]] = s \/ Broken(s)',
         current' \in InRing \/ pc'[current'] \in Gone
  PROVE  Circle'
<1>1. \A s \in InRing' : next'[s] \in InRing' /\ (prev'[next'[s]] = s \/ Broken(s)')
  BY DEF IInv, Circle
<1>2. ASSUME NEW C \in SUBSET InRing', C # {}, \A s \in C : next'[s] \in C
      PROVE  C = InRing'
  <2>1. C \in SUBSET InRing /\ \A s \in C : next[s] \in C
    BY <1>2
  <2>. QED
    BY <1>2, <2>1 DEF IInv, Circle
<1>3. Main \in InRing' /\ (current' \in InRing' \/ pc'[current'] \in Gone)
  BY DEF IInv, Circle
<1>. QED
  BY <1>1, <1>2, <1>3 DEF Circle

LEMMA CircleJoined ==
  ASSUME IInv, TypeOK', NEW t \in Threads, ScheduleLink(t)
  PROVE  Circle'
<1>. DEFINE u == made[t]
<1>1. /\ current = t /\ pc[t] = "link" /\ current' = t /\ prev' = prev
      /\ next' = [next EXCEPT ![t] = u] /\ t \in InRing
  BY DEF ScheduleLink, Step, links, IInv, Circle, Gone
<1>2. u \notin InRing /\ InRing' = InRing \cup {u} /\ u \in Threads
  BY RingJoined, <1>1 DEF IInv, Makes, Making, TypeOK
<1>3. next[u] = next[t] /\ prev[next[t]] = u /\ prev[u] = t /\ next[t] \in InRing
  BY <1>1 DEF IInv, Edits, Circle
<1>4. next'[t] = u /\ \A s \in Threads \ {t} : next'[s] = next[s]
  BY <1>1 DEF IInv, TypeOK
<1>5. \A s \in InRing \ {t} : next[s] \in InRing /\ prev[next[s]] = s /\ s \in Threads
  BY <1>1 DEF IInv, Circle, Broken, TypeOK, InRing
<1>6. \A s \in InRing' : next'[s] \in InRing' /\ prev'[next'[s]] = s
  BY <1>1, <1>2, <1>3, <1>4, <1>5
<1>7. ASSUME NEW C \in SUBSET InRing', C # {}, \A s \in C : next'[s] \in C
      PROVE  C = InRing'
  <2>. DEFINE D == C \ {u}
  <2>1. u \in C => next[t] \in D
    BY <1>2, <1>3, <1>4, <1>7, <1>1
  <2>2. D \in SUBSET InRing /\ D # {}
    BY <1>2, <1>7, <2>1
  <2>3. ASSUME NEW s \in D PROVE next[s] \in D
    BY <1>2, <1>4, <1>5, <1>7, <2>1, <2>2, <2>3
  <2>4. D = InRing
    BY <2>2, <2>3 DEF IInv, Circle
  <2>. QED
    BY <1>1, <1>2, <1>4, <1>7, <2>4
<1>8. Main \in InRing' /\ current' \in InRing'
  BY <1>1, <1>2 DEF IInv, Circle
<1>. QED
  BY <1>6, <1>7, <1>8 DEF Circle

LEMMA CircleLeft ==
  ASSUME IInv, TypeOK', NEW t \in Threads, KillUnlinkNext(t)
  PROVE  Circle' /\ Edits'
<1>. DEFINE p == prev[t]
<1>1. /\ current = t /\ pc[t] = "unlink" /\ current' = t /\ prev' = prev
      /\ next' = [next EXCEPT ![p] = next[t]] /\ pc' = [pc EXCEPT ![t] = "relink"]
  BY DEF KillUnlinkNext, Step, links
<1>2. InRing' = InRing \ {t}
  BY RingLeft
<1>3. /\ t \in InRing /\ p \in InRing /\ p # t /\ next[p] = t
      /\ next[t] \in InRing /\ next[t] # t /\ InRing \subseteq Threads
  BY Predecessor, <1>1 DEF IInv, TypeOK, InRing
<1>4. next'[p] = next[t] /\ \A s \in Threads \ {p} : next'[s] = next[s]
  BY <1>1, <1>3 DEF IInv, TypeOK
<1>5. \A s \in InRing : next[s] \in InRing /\ prev[next[s]] = s
  BY <1>1 DEF IInv, Circle, Broken
<1>6. pc'[t] = "relink"
  BY <1>1 DEF IInv, TypeOK
<1>7. \A s \in InRing \ {t, p} : next'[s] \in InRing \ {t} /\ prev[next'[s]] = s
  BY <1>3, <1>4, <1>5
<1>8. \A s \in InRing' : next'[s] \in InRing' /\ (prev'[next'[s]] = s \/ Broken(s)')
  BY <1>1, <1>2, <1>3, <1>4, <1>6, <1>7 DEF Broken
<1>9. ASSUME NEW C \in SUBSET InRing', C # {}, \A s \in C : next'[s] \in C
      PROVE  C = InRing'
  <2>1. CASE p \in C
    <3>. DEFINE D == C \cup {t}
    <3>1. D \in SUBSET InRing /\ D # {}
      BY <1>2, <1>3, <1>9
    <3>2. ASSUME NEW s \in D PROVE next[s] \in D
      BY <1>2, <1>3, <1>4, <1>9, <2>1, <3>2
    <3>3. D = InRing
      BY <3>1, <3>2 DEF IInv, Circle
    <3>. QED
      BY <1>2, <1>9, <3>3
  <2>2. CASE p \notin C
    <3>1. C \in SUBSET InRing /\ \A s \in C : next[s] \in C
      BY <1>2, <1>3, <1>4, <1>9, <2>2
    <3>2. C = InRing
      BY <1>9, <3>1 DEF IInv, Circle
    <3>. QED
      BY <1>3, <2>2, <3>2
  <2>. QED
    BY <2>1, <2>2
<1>10. Main \in InRing' /\ pc'[current'] \in Gone
  BY <1>1, <1>2, <1>6 DEF IInv, Circle, Gone, Control, Dying
<1>11. Circle'
  BY <1>8, <1>9, <1>10 DEF Circle
<1>12. /\ next'[t] \in InRing' /\ prev'[t] \in InRing' /\ next'[prev'[t]] = next'[t]
       /\ prev'[next'[t]] = t
  BY <1>1, <1>2, <1>3, <1>4, <1>5
<1>. QED
  BY <1>1, <1>6, <1>11, <1>12 DEF Edits, Gone

(* What a step finds of the ring.                                          *)
LEMMA Here ==
  ASSUME IInv
  PROVE  /\ current \in Threads /\ InRing \subseteq Threads
         /\ current \in InRing \/ pc[current] \in Gone
         /\ \A s \in InRing : next[s] \in InRing /\ (prev[next[s]] = s \/ Broken(s))
         /\ pc[current] \in Making =>
              made[current] \in Threads /\ made[current] \notin InRing \cup {current}
         /\ next[current] \in InRing
BY RingFacts DEF IInv, TypeOK, Circle, Makes, Edits, InRing

LEMMA QuietLinks ==
  ASSUME IInv, TypeOK', Quiet
  PROVE  /\ \A s \in InRing :
              next'[s] = next[s] /\ (prev'[next[s]] = s \/ Broken(s)')
         /\ current' \in InRing \/ pc'[current'] \in Gone
<1>. USE ThreadsAssumption DEF IInv, TypeOK
<1>. DEFINE Links ==
      /\ \A s \in InRing :
           next'[s] = next[s] /\ (prev'[next[s]] = s \/ Broken(s)')
      /\ current' \in InRing \/ pc'[current'] \in Gone
<1>0. /\ current \in Threads /\ InRing \subseteq Threads
      /\ current \in InRing \/ pc[current] \in Gone
      /\ \A s \in InRing : next[s] \in InRing /\ (prev[next[s]] = s \/ Broken(s))
      /\ pc[current] \in Making =>
           made[current] \in Threads /\ made[current] \notin InRing \cup {current}
      /\ next[current] \in InRing
  BY Here
<1>1. CASE Turn
  BY <1>1, <1>0 DEF Turn, links, Broken, Control
<1>2. CASE Still
  BY <1>2, <1>0 DEF Still, links, Broken
<1>3. ASSUME NEW t \in Threads, NEW u \in Threads, Create(t, u) PROVE Links
  <2>1. /\ current = t /\ pc[t] = "run" /\ u \notin allocated /\ current' = t
        /\ next' = [next EXCEPT ![u] = Null] /\ prev' = [prev EXCEPT ![u] = Null]
    BY <1>3 DEF Create
  <2>2. u \notin InRing /\ current \in InRing
    BY <2>1, <1>0 DEF InRing, Gone
  <2>3. \A s \in InRing : prev[next[s]] = s
    BY <2>1, <1>0 DEF Broken
  <2>4. \A s \in InRing : next'[s] = next[s] /\ prev'[s] = prev[s]
    BY <2>1, <2>2, <1>0
  <2>. QED
    BY <2>1, <2>2, <2>3, <2>4, <1>0
<1>4. ASSUME NEW t \in Threads, SchedulePause(t) PROVE Links
  BY <1>4, <1>0 DEF SchedulePause, Step, links, Broken, Gone, Making
<1>5. ASSUME NEW t \in Threads, ScheduleNext(t) PROVE Links
  BY <1>5, <1>0 DEF ScheduleNext, Step, links, Broken, Gone, Making
<1>6. ASSUME NEW t \in Threads, ScheduleFix(t) PROVE Links
  <2>1. /\ current = t /\ pc[t] = "fix" /\ current' = t /\ next' = next
        /\ pc' = [pc EXCEPT ![t] = "prev"]
              /\ prev' = [prev EXCEPT ![next[made[t]]] = made[t]]
    BY <1>6 DEF ScheduleFix, Step
  <2>2. next[made[t]] = next[t] /\ t \in InRing /\ next[t] \in InRing
    BY <2>1, <1>0 DEF Edits, Gone
  <2>3. \A s \in InRing : prev[next[s]] = s
    BY <2>1, <1>0 DEF Broken
  <2>4. \A s \in InRing \ {next[t]} : prev'[s] = prev[s]
    BY <2>1, <2>2, <1>0
  <2>5. Broken(t)'
    BY <2>1 DEF Broken
  <2>6. \A s \in InRing \ {t} : prev'[next[s]] = s
    BY <2>2, <2>3, <2>4, <1>0
  <2>. QED
    BY <2>1, <2>2, <2>5, <2>6, <1>0
<1>7. ASSUME NEW t \in Threads, SchedulePrev(t) PROVE Links
  BY <1>7, <1>0 DEF SchedulePrev, Step, links, Broken, Gone, Making
<1>8. ASSUME NEW t \in Threads, ScheduleResume(t) PROVE Links
  BY <1>8, <1>0 DEF ScheduleResume, Step, links, Broken, Gone, Making
<1>9. ASSUME NEW t \in Threads, KillPause(t) PROVE Links
  BY <1>9, <1>0 DEF KillPause, Step, links, Broken, Gone, Making
<1>10. ASSUME NEW t \in Threads, KillUnlinkPrev(t) PROVE Links
  <2>1. /\ current = t /\ pc[t] = "relink" /\ current' = t /\ next' = next
        /\ pc' = [pc EXCEPT ![t] = "leave"] /\ prev' = [prev EXCEPT ![next[t]] = prev[t]]
    BY <1>10 DEF KillUnlinkPrev, Step
  <2>2. /\ t \notin InRing /\ next[t] \in InRing /\ prev[t] \in InRing
        /\ next[prev[t]] = next[t] /\ prev[next[t]] = t
    BY <2>1, RingFacts DEF Edits, Gone
  <2>3. \A s \in InRing \ {prev[t]} : prev[next[s]] = s
    BY <2>1, <1>0 DEF Broken
  <2>4. prev'[next[t]] = prev[t] /\ \A s \in InRing \ {next[t]} : prev'[s] = prev[s]
    BY <2>1, <2>2, <1>0
  <2>5. \A s \in InRing \ {prev[t]} : prev'[next[s]] = s
    BY <2>2, <2>3, <2>4, <1>0
  <2>6. pc'[t] = "leave"
    BY <2>1
  <2>. QED
    BY <2>1, <2>2, <2>4, <2>5, <2>6, <1>0 DEF Gone
<1>11. ASSUME NEW t \in Threads, KillLeaveProcess(t) PROVE Links
  BY <1>11, <1>0 DEF KillLeaveProcess, Step, links, Broken, Gone, Making
<1>12. ASSUME NEW t \in Threads, KillFree(t) PROVE Links
  BY <1>12, <1>0 DEF KillFree, Step, links, Broken, Gone, Making
<1>13. ASSUME NEW t \in Threads, KillResume(t) PROVE Links
  BY <1>13, <1>0 DEF KillResume, Step, links, Broken, Gone, Making
<1>. QED
  BY <1>1, <1>2, <1>3, <1>4, <1>5, <1>6, <1>7, <1>8, <1>9, <1>10, <1>11, <1>12,
     <1>13 DEF Quiet

LEMMA QuietEdits ==
  ASSUME IInv, TypeOK', Quiet
  PROVE  Edits'
<1>. USE ThreadsAssumption DEF IInv, TypeOK
<1>0. /\ current \in Threads /\ InRing \subseteq Threads
      /\ current \in InRing \/ pc[current] \in Gone
      /\ \A s \in InRing : next[s] \in InRing /\ (prev[next[s]] = s \/ Broken(s))
      /\ pc[current] \in Making =>
           made[current] \in Threads /\ made[current] \notin InRing \cup {current}
      /\ next[current] \in InRing
  BY Here
<1>1. CASE Turn
  BY <1>1, <1>0, RingKept DEF Quiet, Turn, links, Control, Edits, Gone
<1>2. CASE Still
  BY <1>2, RingKept DEF Quiet, Still, links, Edits
<1>3. ASSUME NEW t \in Threads, NEW u \in Threads, Create(t, u) PROVE Edits'
  BY <1>3, <1>0, RingKept DEF Quiet, Create, Control, Gone, Edits
<1>4. ASSUME NEW t \in Threads, SchedulePause(t) PROVE Edits'
  BY <1>4, <1>0, RingKept DEF Quiet, SchedulePause, Step, links, Gone, Making, Edits
<1>5. ASSUME NEW t \in Threads, ScheduleNext(t) PROVE Edits'
  BY <1>5, <1>0, RingKept DEF Quiet, ScheduleNext, Step, links, Gone, Making, Edits
<1>6. ASSUME NEW t \in Threads, ScheduleFix(t) PROVE Edits'
  BY <1>6, <1>0, RingKept DEF Quiet, ScheduleFix, Step, links, Gone, Making, Edits
<1>7. ASSUME NEW t \in Threads, SchedulePrev(t) PROVE Edits'
  BY <1>7, <1>0, RingKept DEF Quiet, SchedulePrev, Step, links, Gone, Making, Edits
<1>8. ASSUME NEW t \in Threads, ScheduleResume(t) PROVE Edits'
  BY <1>8, <1>0, RingKept DEF Quiet, ScheduleResume, Step, links, Gone, Making, Edits
<1>9. ASSUME NEW t \in Threads, KillPause(t) PROVE Edits'
  BY <1>9, <1>0, RingKept DEF Quiet, KillPause, Step, links, Gone, Making, Edits
<1>10. ASSUME NEW t \in Threads, KillUnlinkPrev(t) PROVE Edits'
  <2>1. current' = current /\ next' = next /\ pc'[current'] = "leave"
    BY <1>10, <1>0 DEF KillUnlinkPrev, Step, links
  <2>2. InRing' = InRing
    BY <1>10, RingKept DEF Quiet
  <2>. QED
    BY <2>1, <2>2, <1>0 DEF Edits, Gone
<1>11. ASSUME NEW t \in Threads, KillLeaveProcess(t) PROVE Edits'
  <2>1. current' = current /\ next' = next /\ pc'[current'] = "free"
    BY <1>11, <1>0 DEF KillLeaveProcess, Step, links
  <2>2. InRing' = InRing
    BY <1>11, RingKept DEF Quiet
  <2>. QED
    BY <2>1, <2>2, <1>0 DEF Edits, Gone
<1>12. ASSUME NEW t \in Threads, KillFree(t) PROVE Edits'
  <2>1. current' = current /\ next' = next /\ pc'[current'] = "gone"
    BY <1>12, <1>0 DEF KillFree, Step, links
  <2>2. InRing' = InRing
    BY <1>12, RingKept DEF Quiet
  <2>. QED
    BY <2>1, <2>2, <1>0 DEF Edits, Gone
<1>13. ASSUME NEW t \in Threads, KillResume(t) PROVE Edits'
  <2>1. current' = current /\ next' = next /\ pc'[current'] = "dead"
    BY <1>13, <1>0 DEF KillResume, Step, links
  <2>2. InRing' = InRing
    BY <1>13, RingKept DEF Quiet
  <2>. QED
    BY <2>1, <2>2, <1>0 DEF Edits, Gone
<1>. QED
  BY <1>1, <1>2, <1>3, <1>4, <1>5, <1>6, <1>7, <1>8, <1>9, <1>10, <1>11, <1>12,
     <1>13 DEF Quiet

-----------------------------------------------------------------------------
LEMMA NextIInv == IInv /\ [Next]_vars => IInv'
<1>. SUFFICES ASSUME IInv, [Next]_vars PROVE IInv'
  OBVIOUS
<1>1. TypeOK'
  BY TypeStep, Here DEF IInv
<1>2. Control' /\ Makes'
  BY ControlStep, MakesStep
<1>3. CASE Quiet
  <2>1. Circle'
    BY <1>1, <1>3, RingKept, QuietLinks, CircleKept
  <2>2. Edits'
    BY <1>1, <1>3, QuietEdits
  <2>. QED
    BY <1>1, <1>2, <2>1, <2>2 DEF IInv
<1>4. ASSUME NEW t \in Threads, ScheduleLink(t) PROVE IInv'
  <2>1. Circle'
    BY <1>1, <1>4, CircleJoined
  <2>2. Edits'
    BY <1>4 DEF ScheduleLink, Step, IInv, TypeOK, Edits, Gone
  <2>. QED
    BY <1>1, <1>2, <2>1, <2>2 DEF IInv
<1>5. ASSUME NEW t \in Threads, KillUnlinkNext(t) PROVE IInv'
  BY <1>1, <1>2, <1>5, CircleLeft DEF IInv
<1>. QED
  BY <1>3, <1>4, <1>5, Steps DEF Quiet

(* The invariant of the scheduler holds in every state.                    *)
THEOREM Inductive == Spec => []IInv
<1>. QED
  BY InitIInv, NextIInv, PTL DEF Spec

(* The variables of the scheduler keep their types.                        *)
THEOREM TypeCorrect == Spec => []TypeOK
<1>1. IInv => TypeOK
  BY DEF IInv
<1>. QED
  BY <1>1, Inductive, PTL

(* What the edits of the list write to.                                   *)
LEMMA WritesLive ==
  ASSUME IInv, [Next]_vars, NEW x \in Threads, next'[x] # next[x] \/ prev'[x] # prev[x]
  PROVE  x \in allocated'
<1>. USE DEF IInv, TypeOK
<1>0. InRing \subseteq members /\ next[current] \in InRing
  BY Here DEF InRing
<1>1. CASE Turn
  BY <1>1 DEF Turn
<1>2. CASE Still
  BY <1>2 DEF Still
<1>3. ASSUME NEW t \in Threads, NEW u \in Threads, Create(t, u) PROVE x \in allocated'
  BY <1>3 DEF Create
<1>4. ASSUME NEW t \in Threads, ScheduleNext(t) PROVE x \in allocated'
  BY <1>4 DEF ScheduleNext, Step, Makes, Making
<1>5. ASSUME NEW t \in Threads, ScheduleFix(t) PROVE x \in allocated'
  BY <1>5, <1>0 DEF ScheduleFix, Step, Edits
<1>6. ASSUME NEW t \in Threads, SchedulePrev(t) PROVE x \in allocated'
  BY <1>6 DEF SchedulePrev, Step, Makes, Making
<1>7. ASSUME NEW t \in Threads, ScheduleLink(t) PROVE x \in allocated'
  BY <1>7 DEF ScheduleLink, Step, Makes, Making
<1>8. ASSUME NEW t \in Threads, KillUnlinkNext(t) PROVE x \in allocated'
  BY <1>8, <1>0, Predecessor DEF KillUnlinkNext, Step
<1>9. ASSUME NEW t \in Threads, KillUnlinkPrev(t) PROVE x \in allocated'
  BY <1>9, <1>0 DEF KillUnlinkPrev, Step
<1>. QED
  BY Steps, <1>1, <1>2, <1>3, <1>4, <1>5, <1>6, <1>7, <1>8, <1>9 DEF Step, links,
     SchedulePause, ScheduleResume, KillPause, KillLeaveProcess, KillFree, KillResume

(* tasking_tick switches to threads whose objects are alive, although      *)
(* tasking_kill_thread frees the object of the running thread and the      *)
(* timer may interrupt any edit of the list.  The only tick that may go    *)
(* astray is the one that follows a death whose object a handler has been  *)
(* given, and no edit of the list writes to an object that is free.        *)
THEOREM OnlyLiveThreads == Spec => SwitchesToLiveThreads
<1>1. ASSUME IInv, [Next]_vars, current' # current
      PROVE  current' \in allocated /\ pc[current'] \notin Dying
  <2>1. Turn
    BY <1>1, Steps DEF Still, Create, Step, SchedulePause, ScheduleNext, ScheduleFix,
       SchedulePrev, ScheduleLink, ScheduleResume, KillPause, KillUnlinkNext,
       KillUnlinkPrev, KillLeaveProcess, KillFree, KillResume
  <2>2. current' \in InRing
    BY <1>1, <2>1, Here DEF Turn
  <2>3. current' \in allocated /\ current' \in Threads
    BY <1>1, <2>2 DEF InRing, IInv, TypeOK
  <2>. QED
    BY <1>1, <2>3 DEF IInv, Control, Dying
<1>2. ASSUME IInv, [Next]_vars, wild' # wild
      PROVE  pc[current] = "dead" /\ current \in taken
  <2>1. Tick /\ current \in taken
    BY <1>2 DEF vars, Next, Tick, HandlerAllocates, WorkerFrees, Create, Schedule, Kill, Step,
       SchedulePause, ScheduleNext, ScheduleFix, SchedulePrev, ScheduleLink, ScheduleResume,
       KillPause, KillUnlinkNext, KillUnlinkPrev, KillLeaveProcess, KillFree, KillResume
  <2>2. current \notin allocated /\ pc[current] \in {"run", "pause", "dead"}
    BY <1>2, <2>1 DEF Tick, IInv, TypeOK, Control
  <2>3. current \notin InRing
    BY <2>2, <1>2 DEF InRing, IInv, TypeOK
  <2>. QED
    BY <2>1, <2>2, <2>3, <1>2 DEF IInv, Circle, Gone
<1>3. ASSUME IInv, [Next]_vars, NEW t \in Threads, next'[t] # next[t] \/ prev'[t] # prev[t]
      PROVE  t \in allocated'
  BY <1>1, <1>3, WritesLive
<1>4. IInv /\ [Next]_vars =>
        [/\ current' # current => current' \in allocated /\ pc[current'] \notin Dying
         /\ wild' # wild => pc[current] = "dead" /\ current \in taken
         /\ \A t \in Threads :
              next'[t] # next[t] \/ prev'[t] # prev[t] => t \in allocated']_vars
  BY <1>1, <1>2, <1>3
<1>. QED
  BY <1>4, Inductive, PTL DEF Spec, SwitchesToLiveThreads

-----------------------------------------------------------------------------
LEMMA LeastOf ==
  ASSUME NEW T, T \subseteq Nat, T # {}
  PROVE  \E k \in T : \A j \in T : k <= j
<1>. DEFINE less == {ss \in Nat \X Nat : ss[1] < ss[2]}
<1>1. \E k \in T : \A j \in T : <<j, k>> \notin less
  BY NatLessThanWellFounded, WFMin, Zenon DEF OpToRel
<1>2. \A j, k \in Nat : j < k => <<j, k>> \in less
  OBVIOUS
<1>. HIDE DEF less
<1>3. PICK k \in T : \A j \in T : ~(j < k)
  BY <1>1, <1>2
<1>. QED
  BY <1>3

(* Induction on the natural numbers for a set instead of a predicate: the  *)
(* least number outside of it, if there were one, could not be.            *)
LEMMA Induction ==
  ASSUME NEW T, 0 \in T, \A k \in Nat : k \in T => k + 1 \in T
  PROVE  Nat \subseteq T
<1>1. SUFFICES ASSUME Nat \ T # {} PROVE FALSE
  OBVIOUS
<1>2. PICK k \in Nat \ T : \A j \in Nat \ T : k <= j
  BY <1>1, LeastOf
<1>3. k # 0 /\ k - 1 \in Nat /\ k - 1 \in T
  BY <1>2
<1>. QED
  BY <1>2, <1>3

(* tasking_tick's walk from the current thread on is what its recursive    *)
(* definition says.                                                        *)
LEMMA Walk ==
  walk = [i \in 0..Cardinality(Threads) |->
            IF i = 0 THEN current
            ELSE IF walk[i - 1] = Null THEN Null ELSE next[walk[i - 1]]]
<1>. DEFINE Walks(n, f) == f = [i \in 0..n |->
              IF i = 0 THEN current ELSE IF f[i - 1] = Null THEN Null ELSE next[f[i - 1]]]
<1>. DEFINE T == {n \in Nat : \E f : Walks(n, f)}
<1>1. 0 \in T
  <2>1. Walks(0, [i \in 0..0 |-> current])
    OBVIOUS
  <2>. QED
    BY <2>1
<1>2. ASSUME NEW n \in Nat, n \in T PROVE n + 1 \in T
  <2>1. PICK f : Walks(n, f)
    BY <1>2
  <2>. DEFINE g == [i \in 0..(n + 1) |-> IF i <= n THEN f[i]
                      ELSE IF f[n] = Null THEN Null ELSE next[f[n]]]
  <2>2. \A i \in 0..n : g[i] = f[i]
    OBVIOUS
  <2>3. \A i \in 0..n : f[i] = IF i = 0 THEN current
                               ELSE IF f[i - 1] = Null THEN Null ELSE next[f[i - 1]]
    BY <2>1
  <2>4. \A i \in 0..(n + 1) : g[i] = IF i = 0 THEN current
                               ELSE IF g[i - 1] = Null THEN Null ELSE next[g[i - 1]]
    <3>. SUFFICES ASSUME NEW i \in 0..(n + 1)
                  PROVE g[i] = IF i = 0 THEN current
                               ELSE IF g[i - 1] = Null THEN Null ELSE next[g[i - 1]]
      OBVIOUS
    <3>1. CASE i = 0
      BY <3>1, <2>2, <2>3
    <3>2. CASE i \in 1..n
      <4>1. i \in 0..n /\ i - 1 \in 0..n
        BY <3>2
      <4>. QED
        BY <3>2, <4>1, <2>2, <2>3
    <3>3. CASE i = n + 1
      <4>1. n \in 0..n /\ g[n] = f[n] /\ i - 1 = n /\ i # 0 /\ ~(i <= n)
        BY <3>3, <2>2
      <4>. QED
        BY <4>1
    <3>. QED
      BY <3>1, <3>2, <3>3
  <2>5. Walks(n + 1, g)
    BY <2>4
  <2>6. \E h : Walks(n + 1, h)
    <3>. HIDE DEF Walks, g
    <3>. QED
      BY <2>5
  <2>. QED
    BY <2>6
<1>3. Cardinality(Threads) \in T
  BY <1>1, <1>2, Induction, FS_CardinalityType, ThreadsAssumption
<1>4. \E f : Walks(Cardinality(Threads), f)
  BY <1>3
<1>. QED
  BY <1>4 DEF walk

(* It stays on the ring, and among as many steps as there are threads, one *)
(* comes to where another was.                                             *)
LEMMA Walked ==
  ASSUME IInv, NEW N, N = Cardinality(Threads)
  PROVE  /\ N \in Nat /\ walk[0] = current
         /\ \A k \in 0..N : k < N => walk[k + 1] = next[walk[k]]
         /\ \A k \in 1..N : walk[k] \in InRing
         /\ \E i, j \in 0..N : i < j /\ walk[i] = walk[j]
<1>1. N \in Nat /\ IsFiniteSet(0..N) /\ Cardinality(0..N) = N + 1 /\ IsFiniteSet(Threads)
  BY FS_CardinalityType, FS_Interval, ThreadsAssumption
<1>2. walk[0] = current
  BY Walk, <1>1
<1>3. ASSUME NEW i \in 0..N, i > 0
      PROVE  walk[i] = IF walk[i - 1] = Null THEN Null ELSE next[walk[i - 1]]
  BY Walk, <1>1, <1>3
<1>. DEFINE T == {n \in Nat : n < N => walk[n + 1] \in InRing
      /\ walk[n + 1] = next[walk[n]]}
<1>4. InRing \subseteq Threads /\ current \in Threads /\ next[current] \in InRing
      /\ (\A s \in InRing : next[s] \in InRing) /\ Null \notin Threads
  BY Here, ThreadsAssumption
<1>5. 0 \in T
  BY <1>1, <1>2, <1>3, <1>4
<1>6. ASSUME NEW n \in Nat, n \in T PROVE n + 1 \in T
  <2>1. CASE n + 1 < N
    <3>1. walk[n + 1] \in InRing
      BY <1>1, <1>6, <2>1
    <3>2. walk[n + 2] = IF walk[n + 1] = Null THEN Null ELSE next[walk[n + 1]]
      BY <1>1, <1>3, <2>1
    <3>. QED
      BY <1>4, <3>1, <3>2
  <2>. QED
    BY <2>1
<1>7. \A i \in 0..N : i < N => walk[i + 1] \in InRing /\ walk[i + 1] = next[walk[i]]
  <2>1. Nat \subseteq T
    <3>. HIDE DEF T
    <3>. QED
      BY <1>5, <1>6, Induction
  <2>. QED
    BY <1>1, <2>1
<1>8. \A i \in 1..N : walk[i] \in InRing
  <2>. SUFFICES ASSUME NEW i \in 1..N PROVE walk[i] \in InRing
    OBVIOUS
  <2>1. i - 1 \in 0..N /\ i - 1 < N /\ (i - 1) + 1 = i
    BY <1>1
  <2>. QED
    BY <1>7, <2>1
<1>9. walk \in [0..N -> Threads]
  <2>1. \A i \in 0..N : walk[i] \in Threads
    BY <1>1, <1>2, <1>4, <1>8
  <2>2. walk = [i \in 0..N |-> walk[i]]
    BY Walk
  <2>. QED
    BY <2>1, <2>2
<1>10. \E x, y \in 0..N : x # y /\ walk[x] = walk[y]
  BY <1>1, <1>9, FS_PigeonHole
<1>11. \E i, j \in 0..N : i < j /\ walk[i] = walk[j]
  <2>1. PICK x, y \in 0..N : x # y /\ walk[x] = walk[y]
    BY <1>10
  <2>2. x < y \/ y < x
    BY <2>1, <1>1
  <2>. QED
    BY <2>1, <2>2
<1>. QED
  BY <1>1, <1>2, <1>7, <1>8, <1>11

(* The walk meets every thread of the ring: what lies before it comes to a *)
(* thread again is closed.                                                 *)
LEMMA RingWalked ==
  ASSUME IInv
  PROVE  Ring \ Leaving = InRing
<1>. DEFINE N == Cardinality(Threads)
<1>1. N \in Nat
  BY FS_CardinalityType, ThreadsAssumption
<1>2. walk[0] = current
  BY Walked
<1>4. InRing \subseteq Threads /\ current \in Threads /\ next[current] \in InRing
      /\ (\A s \in InRing : next[s] \in InRing) /\ Null \notin Threads
  BY Here, ThreadsAssumption
<1>7. \A k \in 0..N : k < N => walk[k + 1] = next[walk[k]]
  BY Walked
<1>8. \A k \in 1..N : walk[k] \in InRing
  BY Walked
<1>11. PICK i, j \in 0..N : i < j /\ walk[i] = walk[j]
  BY Walked
<1>. HIDE DEF N
<1>. DEFINE C == {walk[k] : k \in 0..(j - 1)} \ Leaving
<1>12. \A x : x \in Leaving <=> x = current /\ pc[current] \in Gone
  BY <1>4 DEF Leaving, Gone, Dying
<1>13. \A s \in InRing : s \notin Leaving
  BY DEF InRing
<1>14. C \in SUBSET InRing
  BY <1>1, <1>2, <1>8, <1>11, <1>12, Here
<1>15. C # {}
  <2>1. CASE current \in InRing
    <3>1. walk[0] \in C
      BY <1>1, <1>2, <1>11, <1>13, <2>1
    <3>. QED
      BY <3>1
  <2>2. CASE current \notin InRing
    <3>1. walk[j] \in InRing
      BY <1>1, <1>8, <1>11
    <3>2. i # 0
      BY <3>1, <2>2, <1>2, <1>11
    <3>3. 1 \in 0..(j - 1) /\ walk[1] \in InRing
      BY <3>2, <1>1, <1>8, <1>11
    <3>. QED
      BY <3>3, <1>13
  <2>. QED
    BY <2>1, <2>2
<1>16. ASSUME NEW s \in C PROVE next[s] \in C
  <2>1. PICK k \in 0..(j - 1) : s = walk[k]
    BY <1>16
  <2>2. k \in 0..N /\ k < N /\ walk[k + 1] = next[s] /\ next[s] \in InRing
    <3>1. k \in 0..N /\ k < N /\ k + 1 \in 1..N
      BY <1>1, <1>11, <2>1
    <3>. QED
      BY <3>1, <1>7, <1>8, <2>1
  <2>3. CASE k < j - 1
    <3>1. k + 1 \in 0..(j - 1)
      BY <2>3, <1>1, <1>11
    <3>. QED
      BY <3>1, <2>2, <1>13
  <2>4. CASE k = j - 1
    <3>1. walk[k + 1] = walk[i] /\ i \in 0..(j - 1)
      BY <2>4, <1>1, <1>11
    <3>. QED
      BY <3>1, <2>2, <1>13
  <2>. QED
    BY <2>1, <2>3, <2>4, <1>1, <1>11
<1>17. C = InRing
  <2>. HIDE DEF C
  <2>. QED
    BY <1>14, <1>15, <1>16 DEF IInv, Circle
<1>18. ASSUME NEW x \in Ring \ Leaving PROVE x \in InRing
  <2>1. PICK k \in 0..N : x = walk[k]
    BY <1>18 DEF Ring, N
  <2>2. CASE k = 0
    BY <2>1, <2>2, <1>2, <1>12, <1>18, Here
  <2>3. CASE k # 0
    BY <2>1, <2>3, <1>1, <1>8
  <2>. QED
    BY <2>2, <2>3
<1>19. ASSUME NEW x \in InRing PROVE x \in Ring \ Leaving
  <2>1. PICK k \in 0..(j - 1) : x = walk[k]
    BY <1>17, <1>19
  <2>2. k \in 0..N
    BY <1>1, <1>11
  <2>. QED
    BY <2>1, <2>2, <1>13, <1>19 DEF Ring, N
<1>. QED
  BY <1>18, <1>19

(* No thread is lost to the scheduler: what the timer walks over are the   *)
(* threads of the kernel that were scheduled and have not returned.        *)
THEOREM NoneLost == Spec => []NoThreadLost
<1>1. IInv => NoThreadLost
  BY RingWalked DEF NoThreadLost, InRing
<1>. QED
  BY <1>1, Inductive, PTL

(* Whenever the timer may walk it, the list is one circle in both          *)
(* directions.                                                             *)
THEOREM ListStaysIntact == Spec => []ListIntact
<1>1. ASSUME IInv, enabled, NEW t \in InRing
      PROVE  next[t] \in InRing /\ prev[next[t]] = t
  BY <1>1, Here DEF IInv, Control, Broken
<1>2. IInv => ListIntact
  BY <1>1, RingWalked DEF ListIntact
<1>. QED
  BY <1>2, Inductive, PTL
-----------------------------------------------------------------------------
(* The order of turns.  Before s[1] comes the current thread c.            *)
Before(s, c, i) == IF i = 1 THEN c ELSE s[i - 1]

(* s are the threads that follow c under f, up to where they repeat.       *)
Follows(s, c, f) ==
  /\ s \in Seq(Threads)
  /\ \A i \in 1..Len(s) : s[i] = f[Before(s, c, i)] /\ s[i] # c
  /\ \A i, j \in 1..Len(s) : s[i] = s[j] => i = j
  /\ \/ f[Before(s, c, Len(s) + 1)] = c
     \/ \E i \in 1..Len(s) : f[Before(s, c, Len(s) + 1)] = s[i]

(* There is one such sequence.                                             *)
LEMMA SamePrefix ==
  ASSUME NEW c, NEW f, NEW s, Follows(s, c, f), NEW t, Follows(t, c, f)
  PROVE  \A i \in Nat : i \in 1..Len(s) /\ i \in 1..Len(t) => s[i] = t[i]
<1>. DEFINE T == {k \in Nat : k \in 1..Len(s) /\ k \in 1..Len(t) => s[k] = t[k]}
<1>1. 0 \in T
  OBVIOUS
<1>2. ASSUME NEW k \in Nat, k \in T PROVE k + 1 \in T
  <2>. SUFFICES ASSUME k + 1 \in 1..Len(s), k + 1 \in 1..Len(t) PROVE s[k + 1] = t[k + 1]
    OBVIOUS
  <2>1. PICK m \in Nat : m = k + 1
    OBVIOUS
  <2>2. s[m] = f[Before(s, c, m)] /\ t[m] = f[Before(t, c, m)]
    BY <2>1 DEF Follows
  <2>3. Before(s, c, m) = Before(t, c, m)
    <3>1. CASE k = 0
      BY <2>1, <3>1 DEF Before
    <3>2. CASE k # 0
      <4>1. k \in 1..Len(s) /\ k \in 1..Len(t) /\ m # 1 /\ m - 1 = k
        BY <2>1, <3>2 DEF Follows
      <4>. QED
        BY <4>1, <1>2 DEF Before
    <3>. QED
      BY <3>1, <3>2
  <2>. QED
    BY <2>1, <2>2, <2>3
<1>3. Nat \subseteq T
  <2>. HIDE DEF T
  <2>. QED
    BY <1>1, <1>2, Induction
<1>. QED
  BY <1>3

LEMMA NotLonger ==
  ASSUME NEW c, NEW f, NEW s, Follows(s, c, f), NEW t, Follows(t, c, f)
  PROVE  ~(Len(s) < Len(t))
<1>. SUFFICES ASSUME Len(s) < Len(t) PROVE FALSE
  OBVIOUS
<1>1. Len(s) \in Nat /\ Len(t) \in Nat
  BY DEF Follows
<1>2. PICK m \in Nat : m = Len(s) + 1
  BY <1>1
<1>3. m \in 1..Len(t) /\ \A i \in 1..Len(s) : i \in 1..Len(t) /\ i # m
  BY <1>1, <1>2
<1>4. \A i \in 1..Len(s) : s[i] = t[i]
  BY <1>1, <1>3, SamePrefix
<1>5. Before(s, c, m) = Before(t, c, m)
  <2>1. CASE m = 1
    BY <2>1 DEF Before
  <2>2. CASE m # 1
    <3>1. m - 1 \in 1..Len(s)
      BY <1>1, <1>2, <2>2
    <3>. QED
      BY <2>2, <3>1, <1>4 DEF Before
  <2>. QED
    BY <2>1, <2>2
<1>6. t[m] = f[Before(s, c, m)] /\ t[m] # c
  BY <1>3, <1>5 DEF Follows
<1>7. f[Before(s, c, m)] = c \/ \E i \in 1..Len(s) : f[Before(s, c, m)] = s[i]
  BY <1>2 DEF Follows
<1>8. PICK i \in 1..Len(s) : t[m] = s[i]
  BY <1>6, <1>7
<1>9. t[m] = t[i] /\ i \in 1..Len(t) /\ i # m
  BY <1>3, <1>4, <1>8
<1>. QED
  BY <1>3, <1>9 DEF Follows

LEMMA OneOrder ==
  ASSUME NEW c, NEW f, NEW s, Follows(s, c, f), NEW t, Follows(t, c, f)
  PROVE  s = t
<1>1. s \in Seq(Threads) /\ t \in Seq(Threads) /\ Len(s) \in Nat /\ Len(t) \in Nat
  BY DEF Follows
<1>2. Len(s) = Len(t)
  BY <1>1, NotLonger
<1>3. \A i \in 1..Len(s) : s[i] = t[i]
  BY <1>1, <1>2, SamePrefix
<1>. QED
  BY <1>1, <1>2, <1>3

(* Turns is the one of the walk.                                           *)
LEMMA TurnsAre ==
  IInv => Follows(Turns, current, next) /\ \A i \in 1..Len(Turns) : Turns[i] \in InRing
<1>. SUFFICES ASSUME IInv
              PROVE  /\ Follows(Turns, current, next)
                     /\ \A i \in 1..Len(Turns) : Turns[i] \in InRing
  OBVIOUS
<1>1. PICK N : N = Cardinality(Threads)
  OBVIOUS
<1>2. /\ N \in Nat /\ walk[0] = current
      /\ \A k \in 0..N : k < N => walk[k + 1] = next[walk[k]]
      /\ \A k \in 1..N : walk[k] \in InRing
      /\ \E i, j \in 0..N : i < j /\ walk[i] = walk[j]
  BY <1>1, Walked
<1>. DEFINE Again(k) == \E j \in 0..(k - 1) : walk[k] = walk[j]
            First(k) == Again(k) /\ \A i \in 1..(k - 1) : ~Again(i)
<1>3. \E k \in 1..N : First(k)
  <2>. DEFINE T == {k \in 1..N : Again(k)}
  <2>1. PICK i, j \in 0..N : i < j /\ walk[i] = walk[j]
    BY <1>2
  <2>2. j \in 1..N /\ i \in 0..(j - 1)
    BY <2>1, <1>2
  <2>3. j \in T
    BY <2>1, <2>2
  <2>4. T \subseteq Nat
    OBVIOUS
  <2>. HIDE DEF T
  <2>5. PICK k \in T : \A m \in T : k <= m
    BY <2>3, <2>4, LeastOf
  <2>6. k \in 1..N /\ Again(k)
    BY <2>5 DEF T
  <2>7. ASSUME NEW m \in 1..(k - 1), Again(m) PROVE FALSE
    <3>1. m \in T
      BY <2>6, <2>7, <1>2 DEF T
    <3>2. k <= m
      BY <2>5, <3>1
    <3>. QED
      BY <2>6, <3>2
  <2>. QED
    BY <2>6, <2>7
<1>4. PICK n \in 1..N : First(n) /\ Turns = [i \in 1..(n - 1) |-> walk[i]]
  <2>. DEFINE P(k) == /\ walk[k] \in {walk[j] : j \in 0..(k - 1)}
                      /\ \A i \in 1..(k - 1) : walk[i] \notin {walk[j] : j \in 0..(i - 1)}
              n == CHOOSE k \in 1..Cardinality(Threads) : P(k)
  <2>1. \A k \in 1..N : First(k) <=> P(k)
    OBVIOUS
  <2>2. Turns = [i \in 1..(n - 1) |-> walk[i]]
    BY DEF Turns
  <2>3. \E k \in 1..Cardinality(Threads) : P(k)
    BY <1>1, <1>3, <2>1
  <2>. HIDE DEF P, First
  <2>4. n \in 1..N /\ P(n)
    BY <2>3, <1>1
  <2>5. First(n)
    BY <2>1, <2>4
  <2>. HIDE DEF n
  <2>. QED
    BY <2>2, <2>4, <2>5
<1>5. InRing \subseteq Threads
  BY Here
<1>6. PICK s : s = Turns
  OBVIOUS
<1>7. /\ s \in Seq(Threads) /\ Len(s) = n - 1
      /\ \A i \in 1..(n - 1) : s[i] = walk[i] /\ s[i] \in InRing
  <2>1. n - 1 \in Nat /\ \A i \in 1..(n - 1) : walk[i] \in InRing /\ walk[i] \in Threads
    BY <1>2, <1>5
  <2>2. s = [i \in 1..(n - 1) |-> walk[i]]
    BY <1>4, <1>6
  <2>. HIDE DEF First
  <2>. QED
    BY <2>1, <2>2
<1>8. \A i, j \in 0..(n - 1) : walk[i] = walk[j] => i = j
  <2>1. ASSUME NEW i \in 1..(n - 1), NEW j \in 0..(i - 1) PROVE walk[i] # walk[j]
    <3>1. ~Again(i)
      <4>. HIDE DEF Again
      <4>. QED
        BY <1>4
    <3>. QED
      BY <3>1
  <2>. HIDE DEF First
  <2>2. ASSUME NEW i \in 0..(n - 1), NEW j \in 0..(n - 1), walk[i] = walk[j], j < i PROVE FALSE
    <3>1. i \in 1..(n - 1) /\ j \in 0..(i - 1)
      BY <2>2, <1>2
    <3>. QED
      BY <2>1, <2>2, <3>1
  <2>. QED
    BY <2>2
<1>9. \A i \in 1..n : walk[i] = next[walk[i - 1]]
  <2>. HIDE DEF First
  <2>. SUFFICES ASSUME NEW i \in 1..n PROVE walk[i] = next[walk[i - 1]]
    OBVIOUS
  <2>1. PICK k \in Nat : k = i - 1
    OBVIOUS
  <2>2. k \in 0..N /\ k < N /\ k + 1 = i
    BY <2>1, <1>2
  <2>. QED
    BY <2>1, <2>2, <1>2
<1>10. \A i \in 1..n : Before(s, current, i) = walk[i - 1]
  <2>. HIDE DEF First
  <2>. SUFFICES ASSUME NEW i \in 1..n PROVE Before(s, current, i) = walk[i - 1]
    OBVIOUS
  <2>1. CASE i = 1
    BY <2>1, <1>2 DEF Before
  <2>2. CASE i # 1
    <3>1. i - 1 \in 1..(n - 1)
      BY <2>2, <1>2
    <3>. QED
      BY <2>2, <3>1, <1>7 DEF Before
  <2>. QED
    BY <2>1, <2>2
<1>11. \A i \in 1..Len(s) : s[i] = next[Before(s, current, i)] /\ s[i] # current
  <2>. HIDE DEF First
  <2>. SUFFICES ASSUME NEW i \in 1..(n - 1)
                PROVE  s[i] = next[Before(s, current, i)] /\ s[i] # current
    BY <1>7
  <2>1. i \in 1..n /\ i \in 0..(n - 1) /\ 0 \in 0..(n - 1) /\ i # 0
    BY <1>2
  <2>2. walk[i] # walk[0]
    BY <2>1, <1>8
  <2>. QED
    BY <2>1, <2>2, <1>2, <1>7, <1>9, <1>10
<1>12. \A i, j \in 1..Len(s) : s[i] = s[j] => i = j
  <2>. HIDE DEF First
  <2>1. \A i \in 1..(n - 1) : i \in 0..(n - 1)
    OBVIOUS
  <2>. QED
    BY <2>1, <1>7, <1>8
<1>13. \/ next[Before(s, current, Len(s) + 1)] = current
       \/ \E i \in 1..Len(s) : next[Before(s, current, Len(s) + 1)] = s[i]
  <2>1. PICK j \in 0..(n - 1) : walk[n] = walk[j]
    BY <1>4
  <2>. HIDE DEF First
  <2>2. Len(s) + 1 = n /\ n \in 1..n
    BY <1>7, <1>2
  <2>3. next[Before(s, current, Len(s) + 1)] = walk[n]
    BY <2>2, <1>9, <1>10
  <2>4. CASE j = 0
    BY <2>1, <2>3, <2>4, <1>2
  <2>5. CASE j # 0
    <3>1. j \in 1..(n - 1)
      BY <2>5, <1>2
    <3>2. walk[j] = s[j] /\ j \in 1..Len(s)
      BY <3>1, <1>7
    <3>. QED
      BY <2>1, <2>3, <3>2
  <2>. QED
    BY <2>4, <2>5
<1>. HIDE DEF First
<1>. QED
  BY <1>6, <1>7, <1>11, <1>12, <1>13 DEF Follows

(* Where a step leaves the order alone, one thread joins, or it turns.     *)
LEMMA OrderKept ==
  ASSUME NEW c, NEW f, NEW g, NEW s, Follows(s, c, f), g[c] = f[c],
         \A i \in 1..Len(s) : g[s[i]] = f[s[i]]
  PROVE  Follows(s, c, g)
<1>1. s \in Seq(Threads) /\ Len(s) \in Nat
  BY DEF Follows
<1>2. ASSUME NEW i \in 1..(Len(s) + 1) PROVE g[Before(s, c, i)] = f[Before(s, c, i)]
  <2>1. CASE i = 1
    BY <2>1 DEF Before
  <2>2. CASE i # 1
    <3>1. i - 1 \in 1..Len(s)
      BY <2>2, <1>1
    <3>. QED
      BY <2>2, <3>1 DEF Before
  <2>. QED
    BY <2>1, <2>2
<1>3. Len(s) + 1 \in 1..(Len(s) + 1) /\ \A i \in 1..Len(s) : i \in 1..(Len(s) + 1)
  BY <1>1
<1>. QED
  BY <1>2, <1>3 DEF Follows

LEMMA OrderJoined ==
  ASSUME NEW c, NEW f, NEW g, NEW s, Follows(s, c, f), NEW u \in Threads, u # c,
         \A i \in 1..Len(s) : s[i] # u /\ g[s[i]] = f[s[i]],
         g[c] = u, g[u] = f[c]
  PROVE  Follows(<<u>> \o s, c, g)
<1>1. s \in Seq(Threads) /\ Len(s) \in Nat
  BY DEF Follows
<1>2. PICK t : t = <<u>> \o s
  OBVIOUS
<1>3. /\ t \in Seq(Threads) /\ Len(t) = Len(s) + 1 /\ t[1] = u
      /\ \A i \in 1..Len(s) : t[i + 1] = s[i]
  BY <1>1, <1>2
<1>4. \A k \in 1..Len(t) : k = 1 \/ \E i \in 1..Len(s) : k = i + 1 /\ t[k] = s[i]
  <2>. SUFFICES ASSUME NEW k \in 1..Len(t), k # 1
                PROVE  \E i \in 1..Len(s) : k = i + 1 /\ t[k] = s[i]
    OBVIOUS
  <2>1. PICK i \in 1..Len(s) : k = i + 1
    <3>1. k - 1 \in 1..Len(s) /\ k = (k - 1) + 1
      BY <1>1, <1>3
    <3>. QED
      BY <3>1
  <2>. QED
    BY <2>1, <1>3
<1>5. ASSUME NEW i \in 1..(Len(s) + 1) PROVE g[Before(t, c, i + 1)] = f[Before(s, c, i)]
  <2>0. Before(t, c, i + 1) = t[i]
    BY <1>1 DEF Before
  <2>1. CASE i = 1
    BY <2>0, <2>1, <1>3 DEF Before
  <2>2. CASE i # 1
    <3>1. PICK j \in 1..Len(s) : i = j + 1 /\ t[i] = s[j]
      BY <2>2, <1>3, <1>4
    <3>2. Before(s, c, i) = s[j]
      BY <2>2, <3>1, <1>1 DEF Before
    <3>. QED
      BY <2>0, <3>1, <3>2
  <2>. QED
    BY <2>1, <2>2
<1>6. ASSUME NEW k \in 1..Len(t) PROVE t[k] = g[Before(t, c, k)] /\ t[k] # c
  <2>1. CASE k = 1
    BY <2>1, <1>3 DEF Before
  <2>2. CASE k # 1
    <3>1. PICK i \in 1..Len(s) : k = i + 1 /\ t[k] = s[i]
      BY <2>2, <1>4
    <3>2. i \in 1..(Len(s) + 1)
      BY <1>1
    <3>3. g[Before(t, c, k)] = f[Before(s, c, i)]
      BY <3>1, <3>2, <1>5
    <3>. QED
      BY <3>1, <3>3 DEF Follows
  <2>. QED
    BY <2>1, <2>2
<1>7. ASSUME NEW k \in 1..Len(t), NEW m \in 1..Len(t), t[k] = t[m] PROVE k = m
  BY <1>3, <1>4, <1>7 DEF Follows
<1>8. \/ g[Before(t, c, Len(t) + 1)] = c
      \/ \E i \in 1..Len(t) : g[Before(t, c, Len(t) + 1)] = t[i]
  <2>1. PICK m \in Nat : m = Len(s) + 1
    BY <1>1
  <2>2. m \in 1..(Len(s) + 1) /\ Len(t) + 1 = m + 1
    BY <2>1, <1>1, <1>3
  <2>3. g[Before(t, c, Len(t) + 1)] = f[Before(s, c, Len(s) + 1)]
    BY <2>1, <2>2, <1>5
  <2>4. CASE f[Before(s, c, Len(s) + 1)] = c
    BY <2>3, <2>4
  <2>5. CASE f[Before(s, c, Len(s) + 1)] # c
    <3>1. PICK i \in 1..Len(s) : f[Before(s, c, Len(s) + 1)] = s[i]
      BY <2>5 DEF Follows
    <3>2. i + 1 \in 1..Len(t) /\ t[i + 1] = s[i]
      BY <1>1, <1>3
    <3>. QED
      BY <2>3, <3>1, <3>2
  <2>. QED
    BY <2>4, <2>5
<1>9. Follows(t, c, g)
  BY <1>3, <1>6, <1>7, <1>8 DEF Follows
<1>. QED
  BY <1>2, <1>9

LEMMA OrderTurned ==
  ASSUME NEW c \in Threads, NEW f, NEW s, Follows(s, c, f), s # <<>>, f[s[Len(s)]] = c
  PROVE  Follows(Append(Tail(s), c), s[1], f)
<1>1. s \in Seq(Threads) /\ Len(s) \in Nat /\ Len(s) >= 1
  BY DEF Follows
<1>2. PICK t : t = Append(Tail(s), c)
  OBVIOUS
<1>3. /\ t \in Seq(Threads) /\ Len(t) = Len(s) /\ t[Len(s)] = c
      /\ \A i \in 1..Len(s) : i # Len(s) => t[i] = s[i + 1]
  BY <1>1, <1>2
<1>4. \A i \in 1..Len(s) : s[i] = f[Before(s, c, i)] /\ s[i] # c
  BY DEF Follows
<1>5. \A i, j \in 1..Len(s) : s[i] = s[j] => i = j
  BY DEF Follows
<1>6. s[1] = f[c] /\ s[1] # c
  BY <1>1, <1>4 DEF Before
<1>7. \A i \in 1..Len(s) : i # Len(s) => i + 1 \in 1..Len(s) /\ s[i + 1] = f[s[i]]
  <2>. SUFFICES ASSUME NEW i \in 1..Len(s), i # Len(s)
                PROVE  i + 1 \in 1..Len(s) /\ s[i + 1] = f[s[i]]
    OBVIOUS
  <2>1. PICK k \in Nat : k = i + 1
    OBVIOUS
  <2>2. k \in 1..Len(s) /\ k # 1 /\ k - 1 = i
    BY <2>1, <1>1
  <2>. QED
    BY <2>1, <2>2, <1>4 DEF Before
<1>8. ASSUME NEW i \in 1..Len(s) PROVE Before(t, s[1], i) = s[i]
  <2>1. CASE i = 1
    BY <2>1 DEF Before
  <2>2. CASE i # 1
    <3>1. PICK j \in Nat : j = i - 1
      BY <2>2
    <3>2. j \in 1..Len(s) /\ j # Len(s) /\ j + 1 = i
      BY <3>1, <2>2, <1>1
    <3>. QED
      BY <3>1, <3>2, <2>2, <1>3 DEF Before
  <2>. QED
    BY <2>1, <2>2
<1>9. ASSUME NEW i \in 1..Len(s) PROVE t[i] = f[Before(t, s[1], i)] /\ t[i] # s[1]
  <2>1. CASE i = Len(s)
    BY <2>1, <1>3, <1>6, <1>8
  <2>2. CASE i # Len(s)
    <3>1. i + 1 \in 1..Len(s) /\ 1 \in 1..Len(s) /\ i + 1 # 1
      BY <2>2, <1>1
    <3>2. s[i + 1] # s[1]
      BY <3>1, <1>5
    <3>. QED
      BY <2>2, <3>2, <1>3, <1>7, <1>8
  <2>. QED
    BY <2>1, <2>2
<1>10. ASSUME NEW i \in 1..Len(s), NEW j \in 1..Len(s), t[i] = t[j] PROVE i = j
  <2>1. ASSUME NEW k \in 1..Len(s), k # Len(s) PROVE t[k] # c
    BY <2>1, <1>3, <1>4, <1>7
  <2>2. CASE i # Len(s) /\ j # Len(s)
    <3>1. s[i + 1] = s[j + 1] /\ i + 1 \in 1..Len(s) /\ j + 1 \in 1..Len(s)
      BY <2>2, <1>3, <1>7, <1>10
    <3>2. i + 1 = j + 1
      BY <3>1, <1>5
    <3>. QED
      BY <3>2
  <2>. QED
    BY <2>1, <2>2, <1>3, <1>10
<1>11. f[Before(t, s[1], Len(t) + 1)] = s[1]
  <2>1. Before(t, s[1], Len(s) + 1) = t[Len(s)]
    BY <1>1 DEF Before
  <2>. QED
    BY <2>1, <1>3, <1>6
<1>12. Follows(t, s[1], f)
  BY <1>3, <1>9, <1>10, <1>11 DEF Follows
<1>. QED
  BY <1>2, <1>12

LEMMA OrderLeft ==
  ASSUME NEW c, NEW f, NEW s, Follows(s, c, f), s # <<>>, f[s[Len(s)]] # c
  PROVE  Follows(Tail(s), s[1], f)
<1>1. s \in Seq(Threads) /\ Len(s) \in Nat /\ Len(s) >= 1
  BY DEF Follows
<1>2. PICK t : t = Tail(s)
  OBVIOUS
<1>3. PICK n \in Nat : n + 1 = Len(s)
  <2>1. Len(s) - 1 \in Nat /\ (Len(s) - 1) + 1 = Len(s)
    BY <1>1
  <2>. QED
    BY <2>1
<1>4. t \in Seq(Threads) /\ Len(t) = n /\ \A i \in 1..n : t[i] = s[i + 1]
  BY <1>1, <1>2, <1>3
<1>5. \A i \in 1..Len(s) : s[i] = f[Before(s, c, i)] /\ s[i] # c
  BY DEF Follows
<1>6. \A i, j \in 1..Len(s) : s[i] = s[j] => i = j
  BY DEF Follows
<1>7. \A i \in 1..n : i \in 1..Len(s) /\ i + 1 \in 1..Len(s) /\ s[i + 1] = f[s[i]]
  <2>. SUFFICES ASSUME NEW i \in 1..n
                PROVE  i \in 1..Len(s) /\ i + 1 \in 1..Len(s) /\ s[i + 1] = f[s[i]]
    OBVIOUS
  <2>1. PICK k \in Nat : k = i + 1
    OBVIOUS
  <2>2. k \in 1..Len(s) /\ k # 1 /\ k - 1 = i /\ i \in 1..Len(s)
    BY <2>1, <1>3
  <2>. QED
    BY <2>1, <2>2, <1>5 DEF Before
<1>8. ASSUME NEW i \in 1..(n + 1) PROVE Before(t, s[1], i) = s[i]
  <2>1. CASE i = 1
    BY <2>1 DEF Before
  <2>2. CASE i # 1
    <3>1. PICK j \in Nat : j = i - 1
      BY <2>2
    <3>2. j \in 1..n /\ j + 1 = i
      BY <3>1, <2>2
    <3>. QED
      BY <3>1, <3>2, <2>2, <1>4 DEF Before
  <2>. QED
    BY <2>1, <2>2
<1>9. ASSUME NEW i \in 1..n PROVE t[i] = f[Before(t, s[1], i)] /\ t[i] # s[1]
  <2>1. i + 1 \in 1..Len(s) /\ 1 \in 1..Len(s) /\ i + 1 # 1 /\ i \in 1..(n + 1)
    BY <1>3
  <2>2. s[i + 1] # s[1]
    BY <2>1, <1>6
  <2>. QED
    BY <2>1, <2>2, <1>4, <1>7, <1>8
<1>10. ASSUME NEW i \in 1..n, NEW j \in 1..n, t[i] = t[j] PROVE i = j
  <2>1. s[i + 1] = s[j + 1] /\ i + 1 \in 1..Len(s) /\ j + 1 \in 1..Len(s)
    BY <1>4, <1>7, <1>10
  <2>2. i + 1 = j + 1
    BY <2>1, <1>6
  <2>. QED
    BY <2>2
<1>11. PICK i \in 1..Len(s) : f[s[Len(s)]] = s[i]
  <2>1. Before(s, c, Len(s) + 1) = s[Len(s)]
    BY <1>1 DEF Before
  <2>. QED
    BY <2>1 DEF Follows
<1>12. f[Before(t, s[1], Len(t) + 1)] = s[i]
  <2>1. n + 1 \in 1..(n + 1)
    OBVIOUS
  <2>2. Before(t, s[1], n + 1) = s[n + 1]
    BY <2>1, <1>8
  <2>. QED
    BY <2>2, <1>3, <1>4, <1>11
<1>13. s[i] = s[1] \/ \E j \in 1..n : s[i] = t[j]
  <2>1. CASE i # 1
    <3>1. PICK j \in Nat : j = i - 1
      BY <2>1
    <3>2. j \in 1..n /\ j + 1 = i
      BY <3>1, <2>1, <1>3
    <3>. QED
      BY <3>2, <1>4
  <2>. QED
    BY <2>1
<1>14. Follows(t, s[1], f)
  BY <1>4, <1>9, <1>10, <1>12, <1>13 DEF Follows
<1>. QED
  BY <1>2, <1>14

(* On a circle in both directions the last one comes back to the first.    *)
GoesBack(s, c, f, p) == p[f[c]] = c /\ \A i \in 1..Len(s) : p[f[s[i]]] = s[i]
ComesBack(s, c, f) == f[s[Len(s)]] = c

LEMMA LastOne ==
  ASSUME NEW c, NEW f, NEW p, NEW s, Follows(s, c, f), s # <<>>, GoesBack(s, c, f, p)
  PROVE  ComesBack(s, c, f)
<1>. USE DEF GoesBack, ComesBack
<1>1. s \in Seq(Threads) /\ Len(s) \in Nat /\ Len(s) >= 1
  BY DEF Follows
<1>2. PICK n \in 1..Len(s) : n = Len(s)
  BY <1>1
<1>3. ASSUME NEW i \in 1..Len(s), f[s[n]] = s[i] PROVE FALSE
  <2>1. f[s[n]] = f[Before(s, c, i)]
    BY <1>3 DEF Follows
  <2>2. CASE i = 1
    <3>1. f[s[n]] = f[c]
      BY <2>1, <2>2 DEF Before
    <3>2. s[n] = c
      BY <3>1
    <3>. QED
      BY <3>2 DEF Follows
  <2>3. CASE i # 1
    <3>1. PICK j \in 1..Len(s) : j = i - 1
      BY <2>3, <1>1
    <3>2. f[s[n]] = f[s[j]]
      BY <2>1, <2>3, <3>1 DEF Before
    <3>3. s[n] = s[j]
      BY <3>2
    <3>4. n = j
      BY <3>3 DEF Follows
    <3>. QED
      BY <3>1, <3>4, <1>2
  <2>. QED
    BY <2>2, <2>3
<1>4. Before(s, c, Len(s) + 1) = s[n]
  BY <1>1, <1>2 DEF Before
<1>. QED
  BY <1>2, <1>3, <1>4 DEF Follows

LEMMA OrderPassed ==
  ASSUME NEW c, NEW f, NEW g, NEW s, Follows(s, c, f), s # <<>>, g[c] = f[c],
         \A i \in 1..Len(s) : s[i] = s[Len(s)] \/ g[s[i]] = f[s[i]],
         g[s[Len(s)]] = f[c]
  PROVE  Follows(s, c, g) /\ s[1] = f[c]
<1>1. s \in Seq(Threads) /\ Len(s) \in Nat /\ Len(s) >= 1
  BY DEF Follows
<1>2. ASSUME NEW i \in 1..Len(s) PROVE g[Before(s, c, i)] = f[Before(s, c, i)]
  <2>1. CASE i = 1
    BY <2>1 DEF Before
  <2>2. CASE i # 1
    <3>1. PICK j \in 1..Len(s) : j = i - 1
      BY <2>2, <1>1
    <3>2. PICK n \in 1..Len(s) : n = Len(s)
      BY <1>1
    <3>3. s[j] # s[n]
      BY <3>1, <3>2 DEF Follows
    <3>. QED
      BY <2>2, <3>1, <3>2, <3>3 DEF Before
  <2>. QED
    BY <2>1, <2>2
<1>3. s[1] = f[c]
  BY <1>1 DEF Follows, Before
<1>4. g[Before(s, c, Len(s) + 1)] = s[1]
  <2>1. Before(s, c, Len(s) + 1) = s[Len(s)]
    BY <1>1 DEF Before
  <2>. QED
    BY <2>1, <1>3
<1>5. 1 \in 1..Len(s)
  BY <1>1
<1>. QED
  BY <1>2, <1>3, <1>4, <1>5 DEF Follows

LEMMA TurnsAreNext ==
  (IInv => Follows(Turns, current, next) /\ \A i \in 1..Len(Turns) : Turns[i] \in InRing)'
BY TurnsAre, PTL

(* Whether the current thread has left, as RoundRobin sees it.             *)
LEMMA LeavingIs == IInv => (Leaving # {} <=> pc[current] \in Gone)
BY DEF IInv, TypeOK, Leaving, Gone, Dying

LEMMA LeavingIsNext == (IInv => (Leaving # {} <=> pc[current] \in Gone))'
BY LeavingIs, PTL

LEMMA TurnsKept ==
  ASSUME IInv, IInv', current' = current, next'[current] = next[current],
         \A s \in InRing : next'[s] = next[s]
  PROVE  Turns' = Turns
<1>1. Follows(Turns, current, next) /\ \A i \in 1..Len(Turns) : Turns[i] \in InRing
  BY TurnsAre
<1>2. Follows(Turns', current, next')
  BY TurnsAreNext
<1>3. Follows(Turns, current, next')
  BY <1>1, OrderKept
<1>. QED
  BY <1>2, <1>3, OneOrder

(* A step that neither turns nor links nor unlinks is none of RoundRobin.  *)
LEMMA OrderStays ==
  ASSUME IInv, IInv', Quiet, ~Turn
  PROVE  current' = current /\ Turns' = Turns /\ (pc'[current'] \in Gone <=> pc[current] \in Gone)
<1>0. /\ current \in Threads /\ InRing \subseteq Threads
      /\ current \in InRing \/ pc[current] \in Gone
      /\ pc[current] \in Making =>
           made[current] \in Threads /\ made[current] \notin InRing \cup {current}
  BY Here
<1>1. TypeOK /\ TypeOK'
  BY DEF IInv
<1>2. \A s \in InRing : next'[s] = next[s]
  BY <1>1, QuietLinks
<1>. DEFINE Same == /\ current' = current /\ next'[current] = next[current]
                    /\ pc'[current'] \in Gone <=> pc[current] \in Gone
<1>. USE DEF TypeOK, Gone
<1>3. ASSUME Still PROVE Same
  BY <1>3 DEF Still, links
<1>4. ASSUME NEW t \in Threads, NEW u \in Threads, Create(t, u) PROVE Same
  BY <1>0, <1>1, <1>2, <1>4 DEF Create
<1>5. ASSUME NEW t \in Threads, SchedulePause(t) PROVE Same
  BY <1>0, <1>1, <1>5 DEF SchedulePause, Step, links
<1>6. ASSUME NEW t \in Threads, ScheduleNext(t) PROVE Same
  BY <1>0, <1>1, <1>6 DEF ScheduleNext, Step, links, Making
<1>7. ASSUME NEW t \in Threads, ScheduleFix(t) PROVE Same
  BY <1>0, <1>1, <1>7 DEF ScheduleFix, Step, links
<1>8. ASSUME NEW t \in Threads, SchedulePrev(t) PROVE Same
  BY <1>0, <1>1, <1>8 DEF SchedulePrev, Step, links
<1>9. ASSUME NEW t \in Threads, ScheduleResume(t) PROVE Same
  BY <1>0, <1>1, <1>9 DEF ScheduleResume, Step, links
<1>10. ASSUME NEW t \in Threads, KillPause(t) PROVE Same
  BY <1>0, <1>1, <1>10 DEF KillPause, Step, links
<1>11. ASSUME NEW t \in Threads, KillUnlinkPrev(t) PROVE Same
  BY <1>0, <1>1, <1>11 DEF KillUnlinkPrev, Step, links
<1>12. ASSUME NEW t \in Threads, KillLeaveProcess(t) PROVE Same
  BY <1>0, <1>1, <1>12 DEF KillLeaveProcess, Step, links
<1>13. ASSUME NEW t \in Threads, KillFree(t) PROVE Same
  BY <1>0, <1>1, <1>13 DEF KillFree, Step, links
<1>14. ASSUME NEW t \in Threads, KillResume(t) PROVE Same
  BY <1>0, <1>1, <1>14 DEF KillResume, Step, links
<1>15. Same
  BY <1>3, <1>4, <1>5, <1>6, <1>7, <1>8, <1>9, <1>10, <1>11, <1>12, <1>13, <1>14 DEF Quiet
<1>. QED
  BY <1>2, <1>15, TurnsKept

(* The thread that is linked is the next in turn.                          *)
LEMMA OrderJoins ==
  ASSUME IInv, IInv', NEW t \in Threads, ScheduleLink(t)
  PROVE  Abstract!Join(made[t]) /\ made[t] \in Threads
<1>1. /\ current = t /\ pc[t] = "link" /\ pc' = [pc EXCEPT ![t] = "resume"]
      /\ current' = current /\ next' = [next EXCEPT ![t] = made[t]]
  BY DEF ScheduleLink, Step
<1>2. /\ made[t] \in Threads /\ made[t] \notin InRing /\ made[t] # t
      /\ next[made[t]] = next[t] /\ InRing \subseteq Threads
  BY <1>1, Here DEF Making, IInv, Edits
<1>3. next \in [Threads -> Threads \cup {Null}]
  BY DEF IInv, TypeOK
<1>4. PICK u : u = made[t]
  OBVIOUS
<1>5. Follows(Turns, t, next) /\ \A i \in 1..Len(Turns) : Turns[i] \in InRing
  BY <1>1, TurnsAre
<1>6. \A i \in 1..Len(Turns) : Turns[i] # u /\ next'[Turns[i]] = next[Turns[i]]
  <2>1. \A i \in 1..Len(Turns) : Turns[i] # t
    BY <1>5 DEF Follows
  <2>. QED
    BY <2>1, <1>1, <1>2, <1>3, <1>4, <1>5
<1>7. next'[t] = u /\ next'[u] = next[t]
  BY <1>1, <1>2, <1>3, <1>4
<1>8. Follows(<<u>> \o Turns, t, next')
  BY <1>2, <1>4, <1>5, <1>6, <1>7, OrderJoined
<1>9. Follows(Turns', t, next')
  BY <1>1, TurnsAreNext
<1>10. Turns' = <<u>> \o Turns
  BY <1>8, <1>9, OneOrder
<1>11. pc[current] \notin Gone /\ pc'[current'] \notin Gone
  BY <1>1 DEF IInv, TypeOK, Gone
<1>12. (Leaving # {})' = (Leaving # {})
  BY <1>11, LeavingIs, LeavingIsNext
<1>13. u \notin Abstract!Range(Turns)
  BY <1>5, <1>6 DEF Abstract!Range, Follows
<1>. QED
  BY <1>1, <1>2, <1>4, <1>10, <1>12, <1>13 DEF Abstract!Join

(* The thread that unlinks itself is not the only one.                     *)
LEMMA OrderLeaves ==
  ASSUME IInv, IInv', NEW t \in Threads, KillUnlinkNext(t)
  PROVE  Abstract!Leave
<1>1. /\ current = t /\ pc[t] = "unlink" /\ pc' = [pc EXCEPT ![t] = "relink"]
      /\ current' = current /\ next' = [next EXCEPT ![prev[t]] = next[t]]
  BY DEF KillUnlinkNext, Step
<1>2. /\ prev[t] \in InRing /\ prev[t] # t /\ next[prev[t]] = t /\ next[t] # t
      /\ InRing \subseteq Threads
  BY <1>1, Predecessor, Here
<1>3. next \in [Threads -> Threads \cup {Null}] /\ pc'[t] = "relink"
  BY <1>1 DEF IInv, TypeOK
<1>4. PICK s : s = Turns
  OBVIOUS
<1>5. /\ Follows(s, t, next) /\ \A i \in 1..Len(s) : s[i] \in InRing
      /\ Follows(Turns', t, next')
  BY <1>1, <1>4, TurnsAre, TurnsAreNext
<1>6. s # <<>>
  <2>1. ASSUME s = <<>> PROVE next[t] = t
    <3>1. Len(s) = 0
      BY <2>1
    <3>. QED
      BY <3>1, <1>5 DEF Follows, Before
  <2>. QED
    BY <2>1, <1>2
<1>7. prev[next[t]] = t /\ \A i \in 1..Len(s) : prev[next[s[i]]] = s[i]
  BY <1>1, <1>5, Here, Predecessor DEF Broken
<1>8. next[s[Len(s)]] = t
  <2>1. GoesBack(s, t, next, prev)
    BY <1>7 DEF GoesBack
  <2>. QED
    BY <1>5, <1>6, <2>1, LastOne DEF ComesBack
<1>9. s[Len(s)] = prev[t]
  <2>1. Len(s) \in 1..Len(s)
    BY <1>5, <1>6 DEF Follows
  <2>. QED
    BY <2>1, <1>7, <1>8
<1>10. next'[t] = next[t] /\ next'[prev[t]] = next[t]
       /\ \A i \in 1..Len(s) : s[i] = prev[t] \/ next'[s[i]] = next[s[i]]
  BY <1>1, <1>2, <1>3, <1>5
<1>11. Follows(s, t, next')
  BY <1>5, <1>6, <1>9, <1>10, OrderPassed
<1>12. Turns' = s
  BY <1>5, <1>11, OneOrder
<1>13. Leaving = {} /\ Leaving' # {}
  BY <1>1, <1>3, LeavingIs, LeavingIsNext DEF Gone
<1>. QED
  BY <1>1, <1>4, <1>6, <1>12, <1>13 DEF Abstract!Leave

(* The timer switches to the next in turn, and comes back last to a thread *)
(* that has not left.                                                      *)
LEMMA OrderTurns ==
  ASSUME IInv, IInv', Turn
  PROVE  Abstract!Switch \/ UNCHANGED <<current, Turns, Leaving>>
<1>1. /\ enabled /\ current' = next[current] /\ next' = next /\ prev' = prev
      /\ members' = members /\ pc' = pc
  BY DEF Turn, links
<1>2. /\ pc[current] \in {"run", "pause", "dead"} /\ current \in Threads
      /\ InRing \subseteq Threads /\ next[current] \in InRing
      /\ current \in InRing \/ pc[current] \in Gone
  BY <1>1, Here DEF IInv, Control
<1>3. \A x \in InRing : prev[next[x]] = x
  BY <1>2, Here DEF Broken
<1>4. PICK c : c = current
  OBVIOUS
<1>5. PICK s : s = Turns
  OBVIOUS
<1>6. /\ Follows(s, c, next) /\ \A i \in 1..Len(s) : s[i] \in InRing
      /\ Follows(Turns', next[c], next)
  BY <1>1, <1>4, <1>5, TurnsAre, TurnsAreNext
<1>7. next[c] \in allocated /\ pc[next[c]] \notin Gone
  BY <1>2, <1>4, RingFacts DEF IInv, TypeOK, Control, InRing, Gone
<1>8. Leaving' = {}
  BY <1>1, <1>4, <1>7, LeavingIsNext
<1>9. CASE s = <<>>
  <2>1. next[c] = c
    <3>1. Len(s) = 0
      BY <1>9
    <3>. QED
      BY <3>1, <1>6 DEF Follows, Before
  <2>2. Turns' = Turns
    BY <2>1, <1>5, <1>6, OneOrder
  <2>3. Leaving = {}
    BY <1>4, <1>7, <2>1, LeavingIs
  <2>. QED
    BY <1>1, <1>4, <1>8, <2>1, <2>2, <2>3
<1>10. CASE s # <<>>
  <2>0. s \in Seq(Threads) /\ Len(s) \in Nat /\ Len(s) >= 1
    BY <1>6, <1>10 DEF Follows
  <2>1. s[1] = next[c] /\ Head(s) = s[1] /\ Len(s) \in 1..Len(s)
    <3>1. Len(s) \in 1..Len(s) /\ 1 \in 1..Len(s) /\ Head(s) = s[1]
      BY <2>0
    <3>2. s[1] = next[Before(s, c, 1)]
      BY <1>6, <3>1 DEF Follows
    <3>. QED
      BY <3>1, <3>2 DEF Before
  <2>2. CASE Leaving = {}
    <3>1. c \in InRing
      BY <1>2, <1>4, <2>2, LeavingIs
    <3>2. next[s[Len(s)]] = c
      <4>1. GoesBack(s, c, next, prev)
        BY <1>3, <1>6, <3>1 DEF GoesBack
      <4>2. Follows(s, c, next) /\ s # <<>>
        BY <1>6, <1>10
      <4>. QED
        BY <4>1, <4>2, LastOne DEF ComesBack
    <3>3. Follows(Append(Tail(s), c), next[c], next)
      BY <1>2, <1>4, <1>6, <1>10, <2>1, <3>2, OrderTurned
    <3>4. Turns' = Append(Tail(s), c)
      BY <1>6, <3>3, OneOrder
    <3>. QED
      BY <1>1, <1>4, <1>5, <1>8, <1>10, <2>1, <2>2, <3>4 DEF Abstract!Switch
  <2>3. CASE Leaving # {}
    <3>1. c \notin InRing
      BY <1>4, <2>3, LeavingIs, RingFacts DEF IInv
    <3>2. next[s[Len(s)]] # c
      BY <1>6, <2>1, <3>1, Here
    <3>3. Follows(Tail(s), next[c], next)
      BY <1>6, <1>10, <2>1, <3>2, OrderLeft
    <3>4. Turns' = Tail(s)
      BY <1>6, <3>3, OneOrder
    <3>. QED
      BY <1>1, <1>4, <1>5, <1>8, <1>10, <2>1, <2>3, <3>4 DEF Abstract!Switch
  <2>. QED
    BY <2>2, <2>3
<1>. QED
  BY <1>9, <1>10

LEMMA OrderStep ==
  ASSUME IInv, IInv', [Next]_vars
  PROVE  [Abstract!Next]_<<current, Turns, Leaving # {}>>
<1>1. CASE Turn
  BY <1>1, OrderTurns DEF Abstract!Next
<1>2. CASE Quiet /\ ~Turn
  <2>1. current' = current /\ Turns' = Turns /\ (pc'[current'] \in Gone <=> pc[current] \in Gone)
    BY <1>2, OrderStays
  <2>2. (Leaving # {})' = (Leaving # {})
    BY <2>1, LeavingIs, LeavingIsNext
  <2>. QED
    BY <2>1, <2>2
<1>3. ASSUME NEW t \in Threads, ScheduleLink(t) PROVE Abstract!Next
  BY <1>3, OrderJoins DEF Abstract!Next
<1>4. ASSUME NEW t \in Threads, KillUnlinkNext(t) PROVE Abstract!Next
  BY <1>4, OrderLeaves DEF Abstract!Next
<1>. QED
  BY <1>1, <1>2, <1>3, <1>4, Steps DEF Quiet

LEMMA OrderStarts ==
  Init => current \in Threads /\ Turns = <<>> /\ (Leaving # {}) = FALSE
<1>. SUFFICES ASSUME Init PROVE current \in Threads /\ Turns = <<>> /\ Leaving = {}
  OBVIOUS
<1>1. IInv
  BY InitIInv
<1>2. current \in Threads /\ next[current] = current /\ pc[current] = "run"
  BY ThreadsAssumption DEF Init
<1>3. Follows(<<>>, current, next)
  BY <1>2 DEF Follows, Before
<1>4. Turns = <<>>
  BY <1>1, <1>3, TurnsAre, OneOrder
<1>. QED
  BY <1>1, <1>2, <1>4, LeavingIs DEF Gone

(* The threads take turns: each edit of the list and each tick is a step   *)
(* of RoundRobin, or none.                                                 *)
THEOREM TakesTurns == Spec => ImplementsRoundRobin
<1>1. IInv /\ IInv' /\ [Next]_vars => [Abstract!Next]_<<current, Turns, Leaving # {}>>
  BY OrderStep
<1>. QED
  BY <1>1, OrderStarts, Inductive, PTL DEF Spec, ImplementsRoundRobin, Abstract!Spec
=============================================================================
