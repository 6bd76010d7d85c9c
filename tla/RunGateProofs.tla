--------------------------- MODULE RunGateProofs ---------------------------
(***************************************************************************)
(* What the lock and the verdict of run-gate.sh guarantee for any number   *)
(* of gates, steps and contents, and any number of kills, signals, reused  *)
(* pids and moves of the tree.                                             *)
(***************************************************************************)
EXTENDS RunGate, TLAPS

-----------------------------------------------------------------------------
(* Typing.  A gate that may still run a step has one left: without that    *)
(* the count of steps would not keep its range.                            *)

Verdicts == {"none", "refused", "void", "failed", "pass"}

ProcessTypes ==
  /\ pc \in [Gates -> Pcs]
  /\ holder \in [Gates -> Gates \cup {None}]
  /\ start \in [Gates -> Trees \cup {None}]
  /\ done \in [Gates -> 0..NSteps]
  /\ red \in [Gates -> BOOLEAN]
  /\ mixed \in [Gates -> BOOLEAN]
  /\ moved \in [Gates -> 0..2]
  /\ \A g \in Gates : pc[g] \notin {"judge", "exit"} => done[g] < NSteps

LockTypes ==
  /\ dir \in Gates \cup {None}
  /\ pid \in Gates \cup {None}
  /\ revoked \subseteq Gates

WorldTypes ==
  /\ tree \in Trees
  /\ verdict \in [Gates -> Verdicts]
  /\ signalled \in BOOLEAN
  /\ upsets \in 0..MaxUpsets
  /\ reused \subseteq Gates

Typed == ProcessTypes /\ LockTypes /\ WorldTypes

(***************************************************************************)
(* A process that vanishes leaves well-typed variables behind.             *)
(***************************************************************************)
LEMMA VanishTypes ==
  ASSUME ProcessTypes, NEW g \in Gates, NEW label \in {"ended", "dead"}, Vanish(g, label)
  PROVE  ProcessTypes'
<1> USE StepsAssumption DEF ProcessTypes, Vanish, Goto
<1>1. /\ (pc \in [Gates -> Pcs])' /\ (holder \in [Gates -> Gates \cup {None}])'
      /\ (start \in [Gates -> Trees \cup {None}])'
  BY DEF Pcs, Outside
<1>2. (done \in [Gates -> 0..NSteps])' /\ (moved \in [Gates -> 0..2])'
  OBVIOUS
<1>3. (red \in [Gates -> BOOLEAN])' /\ (mixed \in [Gates -> BOOLEAN])'
  OBVIOUS
<1>4. (\A h \in Gates : pc[h] \notin {"judge", "exit"} => done[h] < NSteps)'
  BY DEF Pcs
<1>5. QED
  BY <1>1, <1>2, <1>3, <1>4

(***************************************************************************)
(* A process that goes on to a command that is no judgement keeps its      *)
(* types when its step count stays below the tier's.                       *)
(***************************************************************************)
LEMMA GotoTypes ==
  ASSUME ProcessTypes, NEW g \in Gates, NEW label \in Pcs, Goto(g, label),
         UNCHANGED <<holder, runVars>>,
         label \in {"judge", "exit"} \/ done[g] < NSteps
  PROVE  ProcessTypes'
BY DEF ProcessTypes, Goto, runVars

LEMMA RemoveLockTypes ==
  ASSUME LockTypes, NEW leaving, RemoveLock(leaving)
  PROVE  LockTypes'
BY DEF LockTypes, RemoveLock, Inside

LEMMA TypedInit == Init => Typed
<1> SUFFICES ASSUME Init PROVE Typed
  OBVIOUS
<1> USE StepsAssumption, UpsetsAssumption DEF Init
<1>1. /\ pc \in [Gates -> Pcs] /\ holder \in [Gates -> Gates \cup {None}]
      /\ start \in [Gates -> Trees \cup {None}]
  BY DEF Pcs, Outside
<1>2. /\ done \in [Gates -> 0..NSteps] /\ moved \in [Gates -> 0..2]
      /\ \A g \in Gates : done[g] < NSteps
  OBVIOUS
<1>3. red \in [Gates -> BOOLEAN] /\ mixed \in [Gates -> BOOLEAN]
  OBVIOUS
<1>4. LockTypes
  BY DEF LockTypes
<1>5. WorldTypes
  <2>1. signalled \in BOOLEAN
    OBVIOUS
  <2>2. verdict \in [Gates -> Verdicts] /\ upsets \in 0..MaxUpsets
    BY DEF Verdicts
  <2>3. QED
    BY <2>1, <2>2 DEF WorldTypes
<1>6. QED
  BY <1>1, <1>2, <1>3, <1>4, <1>5 DEF Typed, ProcessTypes

LEMMA TypedStep == Typed /\ [Next]_vars => Typed'
<1> SUFFICES ASSUME Typed, [Next]_vars PROVE Typed'
  OBVIOUS
<1> USE DEF Typed
<1>1. ASSUME NEW g \in Gates, Mkdir(g) PROVE Typed'
  <2>1. ProcessTypes'
    BY <1>1, GotoTypes DEF Mkdir, Pcs, Outside, ProcessTypes
  <2>2. LockTypes' /\ WorldTypes'
    BY <1>1 DEF Mkdir, LockTypes, WorldTypes, envVars
  <2>3. QED
    BY <2>1, <2>2
<1>2. ASSUME NEW g \in Gates, ReadHolder(g) PROVE Typed'
  BY <1>2 DEF ReadHolder, ProcessTypes, LockTypes, WorldTypes, runVars, envVars, Goto, Pcs, Outside
<1>3. ASSUME NEW g \in Gates, Probe(g) PROVE Typed'
  <2>1. ProcessTypes'
    BY <1>3, GotoTypes, VanishTypes DEF Probe, Pcs, Outside, ProcessTypes
  <2>2. LockTypes' /\ WorldTypes'
    BY <1>3 DEF Probe, LockTypes, WorldTypes, envVars, Verdicts
  <2>3. QED
    BY <2>1, <2>2
<1>4. ASSUME NEW g \in Gates, Reclaim(g) PROVE Typed'
  <2>1. ProcessTypes'
    BY <1>4, GotoTypes DEF Reclaim, Pcs, Outside, ProcessTypes
  <2>2. LockTypes' /\ WorldTypes'
    BY <1>4, RemoveLockTypes DEF Reclaim, WorldTypes, envVars
  <2>3. QED
    BY <2>1, <2>2
<1>5. ASSUME NEW g \in Gates, Remake(g) PROVE Typed'
  <2>1. ProcessTypes'
    BY <1>5, GotoTypes, VanishTypes DEF Remake, Pcs, Outside, ProcessTypes
  <2>2. LockTypes' /\ WorldTypes'
    BY <1>5 DEF Remake, LockTypes, WorldTypes, envVars, Verdicts
  <2>3. QED
    BY <2>1, <2>2
<1>6. ASSUME NEW g \in Gates, Record(g) PROVE Typed'
  <2>1. ProcessTypes'
    BY <1>6, GotoTypes DEF Record, Pcs, Trapped, ProcessTypes
  <2>2. LockTypes' /\ WorldTypes'
    BY <1>6 DEF Record, LockTypes, WorldTypes, envVars
  <2>3. QED
    BY <2>1, <2>2
<1>7. ASSUME NEW g \in Gates, Snapshot(g) PROVE Typed'
  BY <1>7 DEF Snapshot, ProcessTypes, LockTypes, WorldTypes, envVars, Goto, Pcs, Trapped
<1>8. ASSUME NEW g \in Gates, Step(g) PROVE Typed'
  <2>1. PICK fails \in BOOLEAN :
          /\ red' = [red EXCEPT ![g] = fails]
          /\ Goto(g, IF fails \/ done[g] + 1 = NSteps THEN "judge" ELSE "step")
    BY <1>8 DEF Step
  <2>2. done[g] \in 0..NSteps /\ done[g] < NSteps
    BY <1>8 DEF Step, ProcessTypes
  <2>3. (done \in [Gates -> 0..NSteps])'
    BY <1>8, <2>2, StepsAssumption DEF Step, ProcessTypes
  <2>4. (pc \in [Gates -> Pcs])' /\ (red \in [Gates -> BOOLEAN])'
    BY <2>1 DEF ProcessTypes, Goto, Pcs, Trapped
  <2>5. (mixed \in [Gates -> BOOLEAN])'
    BY <1>8 DEF Step, ProcessTypes
  <2>6. ASSUME NEW h \in Gates, (pc[h] \notin {"judge", "exit"})' PROVE (done[h] < NSteps)'
    <3>1. CASE h = g
      BY <1>8, <2>1, <2>2, <2>6, <3>1, StepsAssumption DEF Step, ProcessTypes, Goto
    <3>2. CASE h # g
      BY <1>8, <2>1, <2>6, <3>2 DEF Step, ProcessTypes, Goto
    <3>3. QED
      BY <3>1, <3>2
  <2>7. ProcessTypes'
    BY <1>8, <2>3, <2>4, <2>5, <2>6 DEF Step, ProcessTypes
  <2>8. LockTypes' /\ WorldTypes'
    BY <1>8 DEF Step, LockTypes, WorldTypes, envVars
  <2>9. QED
    BY <2>7, <2>8
<1>9. ASSUME NEW g \in Gates, Judge(g) PROVE Typed'
  <2>1. ProcessTypes'
    BY <1>9, GotoTypes DEF Judge, Pcs, Trapped
  <2>2. LockTypes' /\ WorldTypes'
    BY <1>9 DEF Judge, LockTypes, WorldTypes, envVars, Verdicts
  <2>3. QED
    BY <2>1, <2>2
<1>10. ASSUME NEW g \in Gates, Exit(g) PROVE Typed'
  BY <1>10, VanishTypes, RemoveLockTypes DEF Exit, WorldTypes, envVars
<1>11. ASSUME NEW g \in Gates, Kill(g) PROVE Typed'
  <2>1. ProcessTypes' /\ LockTypes'
    BY <1>11, VanishTypes DEF Kill, LockTypes
  <2>2. WorldTypes'
    BY <1>11, UpsetsAssumption DEF Kill, Upset, WorldTypes
  <2>3. QED
    BY <2>1, <2>2
<1>12. ASSUME NEW g \in Gates, Signal(g) PROVE Typed'
  <2>1. ProcessTypes'
    BY <1>12, VanishTypes DEF Signal, ProcessTypes, runVars
  <2>2. LockTypes'
    BY <1>12, RemoveLockTypes DEF Signal, LockTypes
  <2>3. WorldTypes'
    <3>1. upsets' \in 0..MaxUpsets
      BY <1>12, UpsetsAssumption DEF Signal, Upset, WorldTypes
    <3>2. signalled' \in BOOLEAN
      BY <1>12 DEF Signal, WorldTypes
    <3>3. QED
      BY <1>12, <3>1, <3>2 DEF Signal, WorldTypes
  <2>4. QED
    BY <2>1, <2>2, <2>3
<1>13. ASSUME NEW g \in Gates, Reuse(g) PROVE Typed'
  <2>1. ProcessTypes' /\ LockTypes'
    BY <1>13 DEF Reuse, ProcessTypes, LockTypes, gateVars, runVars
  <2>2. WorldTypes'
    BY <1>13, UpsetsAssumption DEF Reuse, Upset, WorldTypes
  <2>3. QED
    BY <2>1, <2>2
<1>14. CASE RemoveByHand
  <2>1. ProcessTypes' /\ WorldTypes'
    BY <1>14 DEF RemoveByHand, ProcessTypes, WorldTypes, runVars, envVars
  <2>2. LockTypes'
    BY <1>14, RemoveLockTypes DEF RemoveByHand
  <2>3. QED
    BY <2>1, <2>2
<1>15. CASE Move
  <2>1. ProcessTypes' /\ LockTypes'
    BY <1>15 DEF Move, ProcessTypes, LockTypes, gateVars
  <2>2. WorldTypes'
    BY <1>15, UpsetsAssumption DEF Move, Upset, WorldTypes, Trees
  <2>3. QED
    BY <2>1, <2>2
<1>16. CASE UNCHANGED vars
  BY <1>16 DEF vars, gateVars, runVars, envVars, ProcessTypes, LockTypes, WorldTypes
<1>17. QED
  BY <1>1, <1>2, <1>3, <1>4, <1>5, <1>6, <1>7, <1>8, <1>9, <1>10, <1>11, <1>12, <1>13,
     <1>14, <1>15, <1>16 DEF Next, Script, Environment

LEMMA TypedAlways == Spec => []Typed
<1>1. QED
  BY TypedInit, TypedStep, PTL DEF Spec

(***************************************************************************)
(* Every variable of the gates and of their tree keeps its type.           *)
(***************************************************************************)
THEOREM TypeCorrect == Spec => []TypeOK
<1>1. Typed => TypeOK
  BY DEF Typed, ProcessTypes, LockTypes, WorldTypes, Verdicts, TypeOK
<1>2. QED
  BY <1>1, TypedAlways, PTL

-----------------------------------------------------------------------------
(* The lock.                                                               *)

LockInv == UnrobbedGateOwnsTheLock /\ LeftoverOnlyFromTheKilled

LEMMA LockInit == Init => LockInv
BY NoneIsNothing DEF Init, LockInv, UnrobbedGateOwnsTheLock, LeftoverOnlyFromTheKilled, Inside,
                     Trapped

(***************************************************************************)
(* Removing the lock keeps the invariant when the process that removes it  *)
(* stays as it is, is not inside, or leaves: whoever is inside and had it  *)
(* is revoked, and there is no lock to leave behind.                       *)
(***************************************************************************)
LEMMA RemoveLockKeepsLockInv ==
  ASSUME Typed, LockInv, NEW leaving, RemoveLock(leaving), Inside' \subseteq Inside \ leaving
  PROVE  LockInv'
<1>1. ASSUME NEW g \in Inside', g \notin revoked' PROVE FALSE
  <2>1. g \in Inside \ revoked
    BY <1>1 DEF RemoveLock
  <2>2. dir = g
    BY <2>1 DEF LockInv, UnrobbedGateOwnsTheLock
  <2>3. QED
    BY <1>1, <2>1, <2>2 DEF RemoveLock
<1>2. dir' = None
  BY DEF RemoveLock
<1>3. QED
  BY <1>1, <1>2 DEF LockInv, UnrobbedGateOwnsTheLock, LeftoverOnlyFromTheKilled

(***************************************************************************)
(* A process that is not inside moves outside or dies; one that is inside  *)
(* moves inside or dies: the lock stays accounted for.                     *)
(***************************************************************************)
LEMMA MoveKeepsLockInv ==
  ASSUME Typed, LockInv, UNCHANGED <<dir, revoked>>,
         NEW g \in Gates, NEW label \in Pcs, Goto(g, label),
         g \in Inside \/ pc[g] \in {"mkdir", "read", "probe", "reclaim", "remake"},
         g \in Inside => label \in Trapped \cup {"dead"},
         g \notin Inside => label \in Outside
  PROVE  LockInv'
<1> USE DEF LockInv, Typed, ProcessTypes, LockTypes
<1>1. \A h \in Gates : h # g => pc'[h] = pc[h]
  BY DEF Goto
<1>2. pc'[g] = label
  BY DEF Goto
<1>3. Inside' \subseteq Inside
  <2>1. g \notin Inside => g \notin Inside'
    BY <1>2 DEF Inside, Outside, Trapped
  <2>2. QED
    BY <1>1, <2>1 DEF Inside
<1>4. UnrobbedGateOwnsTheLock'
  BY <1>3 DEF UnrobbedGateOwnsTheLock
<1>5. LeftoverOnlyFromTheKilled'
  <2> SUFFICES ASSUME dir' # None PROVE dir' \in Inside' \/ pc'[dir'] = "dead"
    BY DEF LeftoverOnlyFromTheKilled
  <2>1. dir \in Gates /\ (dir \in Inside \/ pc[dir] = "dead")
    BY DEF LeftoverOnlyFromTheKilled
  <2>2. CASE dir = g
    BY <1>2, <2>1, <2>2 DEF Inside, Trapped
  <2>3. CASE dir # g
    BY <1>1, <2>1, <2>3 DEF Inside
  <2>4. QED
    BY <2>2, <2>3
<1>6. QED
  BY <1>4, <1>5

(***************************************************************************)
(* A gate that made the directory is the one inside with it: before, there *)
(* was no lock, so every gate inside had been revoked.                     *)
(***************************************************************************)
LEMMA MakeKeepsLockInv ==
  ASSUME Typed, LockInv, dir = None, NEW g \in Gates, dir' = g, Goto(g, "record"),
         UNCHANGED revoked
  PROVE  LockInv'
<1>1. Inside' \subseteq Inside \cup {g} /\ g \in Inside'
  BY DEF Inside, Goto, Typed, ProcessTypes
<1>2. Inside \subseteq revoked
  BY NoneIsNothing DEF LockInv, UnrobbedGateOwnsTheLock, Inside
<1>3. QED
  BY <1>1, <1>2 DEF LockInv, UnrobbedGateOwnsTheLock, LeftoverOnlyFromTheKilled

LEMMA LockStep == Typed /\ LockInv /\ [Next]_vars => LockInv'
<1> SUFFICES ASSUME Typed, LockInv, [Next]_vars PROVE LockInv'
  OBVIOUS
<1> USE DEF Pcs, Outside, Trapped
<1>1. ASSUME NEW g \in Gates, Mkdir(g) PROVE LockInv'
  <2>1. CASE dir = None
    BY <1>1, <2>1, MakeKeepsLockInv DEF Mkdir
  <2>2. CASE dir # None
    BY <1>1, <2>2, MoveKeepsLockInv DEF Mkdir, Inside
  <2>3. QED
    BY <2>1, <2>2
<1>2. ASSUME NEW g \in Gates, ReadHolder(g) PROVE LockInv'
  BY <1>2, MoveKeepsLockInv DEF ReadHolder, Inside
<1>3. ASSUME NEW g \in Gates, Probe(g) PROVE LockInv'
  BY <1>3, MoveKeepsLockInv DEF Probe, Vanish, Inside
<1>4. ASSUME NEW g \in Gates, Reclaim(g) PROVE LockInv'
  <2>1. Inside' \subseteq Inside \ {}
    BY <1>4 DEF Reclaim, Goto, Inside, Typed, ProcessTypes
  <2>2. QED
    BY <1>4, <2>1, RemoveLockKeepsLockInv DEF Reclaim
<1>5. ASSUME NEW g \in Gates, Remake(g) PROVE LockInv'
  <2>1. CASE dir = None
    BY <1>5, <2>1, MakeKeepsLockInv DEF Remake
  <2>2. CASE dir # None
    BY <1>5, <2>2, MoveKeepsLockInv DEF Remake, Vanish, Inside
  <2>3. QED
    BY <2>1, <2>2
<1>6. ASSUME NEW g \in Gates, Record(g) PROVE LockInv'
  BY <1>6, MoveKeepsLockInv DEF Record, Inside
<1>7. ASSUME NEW g \in Gates, Snapshot(g) PROVE LockInv'
  BY <1>7, MoveKeepsLockInv DEF Snapshot, Inside
<1>8. ASSUME NEW g \in Gates, Step(g) PROVE LockInv'
  <2>1. PICK label \in {"judge", "step"} : Goto(g, label)
    BY <1>8 DEF Step
  <2>2. QED
    BY <1>8, <2>1, MoveKeepsLockInv DEF Step, Inside
<1>9. ASSUME NEW g \in Gates, Judge(g) PROVE LockInv'
  BY <1>9, MoveKeepsLockInv DEF Judge, Inside
<1>10. ASSUME NEW g \in Gates, Exit(g) PROVE LockInv'
  <2>1. Inside' \subseteq Inside \ {g}
    BY <1>10 DEF Exit, Vanish, Goto, Inside, Typed, ProcessTypes
  <2>2. QED
    BY <1>10, <2>1, RemoveLockKeepsLockInv DEF Exit
<1>11. ASSUME NEW g \in Gates, Kill(g) PROVE LockInv'
  <2>1. g \in Inside \/ pc[g] \in {"read", "probe", "reclaim", "remake"}
    BY <1>11 DEF Kill, Inside, Typed, ProcessTypes
  <2>2. QED
    BY <1>11, <2>1, MoveKeepsLockInv DEF Kill, Vanish
<1>12. ASSUME NEW g \in Gates, Signal(g) PROVE LockInv'
  <2>1. CASE pc[g] \notin Trapped
    <3>1. g \in Inside \/ pc[g] \in {"read", "probe", "reclaim", "remake"}
      BY <1>12, <2>1 DEF Signal, Inside, Typed, ProcessTypes
    <3>2. QED
      BY <1>12, <2>1, <3>1, MoveKeepsLockInv DEF Signal, Vanish
  <2>2. CASE RemoveLock({}) /\ UNCHANGED pc
    BY <2>2, RemoveLockKeepsLockInv DEF Inside
  <2>3. CASE RemoveLock({g}) /\ Vanish(g, "ended")
    <3>1. Inside' \subseteq Inside \ {g}
      BY <2>3 DEF Vanish, Goto, Inside, Typed, ProcessTypes
    <3>2. QED
      BY <2>3, <3>1, RemoveLockKeepsLockInv
  <2>4. QED
    BY <1>12, <2>1, <2>2, <2>3 DEF Signal
<1>13. ASSUME NEW g \in Gates, Reuse(g) PROVE LockInv'
  BY <1>13 DEF Reuse, gateVars, LockInv, UnrobbedGateOwnsTheLock, LeftoverOnlyFromTheKilled, Inside
<1>14. CASE RemoveByHand
  BY <1>14, RemoveLockKeepsLockInv DEF RemoveByHand, Inside
<1>15. CASE Move
  BY <1>15 DEF Move, gateVars, LockInv, UnrobbedGateOwnsTheLock, LeftoverOnlyFromTheKilled, Inside
<1>16. CASE UNCHANGED vars
  BY <1>16 DEF vars, gateVars, LockInv, UnrobbedGateOwnsTheLock, LeftoverOnlyFromTheKilled, Inside
<1>17. QED
  BY <1>1, <1>2, <1>3, <1>4, <1>5, <1>6, <1>7, <1>8, <1>9, <1>10, <1>11, <1>12, <1>13,
     <1>14, <1>15, <1>16 DEF Next, Script, Environment

LEMMA LockAlways == Spec => []LockInv
BY LockInit, LockStep, TypedAlways, PTL DEF Spec

(***************************************************************************)
(* A gate that runs and was not revoked made the lock directory that is    *)
(* there: whatever dies, is signalled or races, at most one gate runs that *)
(* nobody took the lock from.                                              *)
(***************************************************************************)
THEOREM UnrobbedOwns == Spec => []UnrobbedGateOwnsTheLock
BY LockAlways, PTL DEF LockInv

(***************************************************************************)
(* Only a gate killed before its trap ran leaves a lock behind.            *)
(***************************************************************************)
THEOREM LeftoverFromKilled == Spec => []LeftoverOnlyFromTheKilled
BY LockAlways, PTL DEF LockInv

-----------------------------------------------------------------------------
(* What was read of a holder, and when a gate can be robbed.               *)

Before == {"mkdir", "read", "probe", "reclaim", "remake"}

(***************************************************************************)
(* How one step changes what is seen of a gate: it goes on before it has   *)
(* the lock, is refused, dies, goes on with the lock, or ends.             *)
(***************************************************************************)
SeenStep(g) ==
  \/ pc'[g] = pc[g] /\ verdict'[g] = verdict[g]
  \/ pc[g] \in Before /\ pc'[g] \in Before \cup {"record"} /\ verdict'[g] = verdict[g]
  \/ pc[g] \in Before /\ pc'[g] = "ended"
  \/ pc[g] \notin {"ended", "dead"} /\ pc'[g] = "dead" /\ verdict'[g] = verdict[g]
  \/ /\ pc[g] \in {"record"} \cup Trapped /\ pc'[g] \in Trapped
     /\ verdict'[g] \in {verdict[g], "void", "failed", "pass"}
  \/ pc[g] \in Trapped /\ pc'[g] = "ended" /\ verdict'[g] = verdict[g]

LEMMA SeenSteps == Typed /\ [Next]_vars => \A g \in Gates : SeenStep(g)
<1> SUFFICES ASSUME Typed, [Next]_vars, NEW h \in Gates PROVE SeenStep(h)
  OBVIOUS
<1> USE DEF Typed, ProcessTypes, WorldTypes, SeenStep, Before, Trapped, Goto, Vanish, envVars
<1>1. ASSUME NEW g \in Gates, Mkdir(g) PROVE SeenStep(h)
  BY <1>1 DEF Mkdir
<1>2. ASSUME NEW g \in Gates, ReadHolder(g) PROVE SeenStep(h)
  BY <1>2 DEF ReadHolder
<1>3. ASSUME NEW g \in Gates, Probe(g) PROVE SeenStep(h)
  BY <1>3 DEF Probe
<1>4. ASSUME NEW g \in Gates, Reclaim(g) PROVE SeenStep(h)
  BY <1>4 DEF Reclaim
<1>5. ASSUME NEW g \in Gates, Remake(g) PROVE SeenStep(h)
  BY <1>5 DEF Remake
<1>6. ASSUME NEW g \in Gates, Record(g) PROVE SeenStep(h)
  BY <1>6 DEF Record
<1>7. ASSUME NEW g \in Gates, Snapshot(g) PROVE SeenStep(h)
  BY <1>7 DEF Snapshot
<1>8. ASSUME NEW g \in Gates, Step(g) PROVE SeenStep(h)
  BY <1>8 DEF Step
<1>9. ASSUME NEW g \in Gates, Judge(g) PROVE SeenStep(h)
  BY <1>9 DEF Judge
<1>10. ASSUME NEW g \in Gates, Exit(g) PROVE SeenStep(h)
  BY <1>10 DEF Exit
<1>11. ASSUME NEW g \in Gates, Kill(g) PROVE SeenStep(h)
  BY <1>11 DEF Kill
<1>12. ASSUME NEW g \in Gates, Signal(g) PROVE SeenStep(h)
  BY <1>12 DEF Signal
<1>13. ASSUME UNCHANGED <<pc, verdict>> PROVE SeenStep(h)
  BY <1>13
<1>14. QED
  BY <1>1, <1>2, <1>3, <1>4, <1>5, <1>6, <1>7, <1>8, <1>9, <1>10, <1>11, <1>12, <1>13
     DEF Next, Script, Environment, Reuse, RemoveByHand, Move, vars, gateVars

OnlyTheEndedAreRefused == \A g \in Gates : verdict[g] = "refused" => pc[g] = "ended"

LEMMA RefusedStep == Typed /\ OnlyTheEndedAreRefused /\ [Next]_vars => OnlyTheEndedAreRefused'
BY SeenSteps DEF OnlyTheEndedAreRefused, SeenStep, Before, Trapped

(***************************************************************************)
(* A gate that took the lock has it or has departed, for good.             *)
(***************************************************************************)
Took == Inside \cup Departed

LEMMA TookGrows ==
  Typed /\ OnlyTheEndedAreRefused /\ [Next]_vars =>
    Departed \subseteq Departed' /\ Took \subseteq Took'
<1> SUFFICES ASSUME Typed, OnlyTheEndedAreRefused, [Next]_vars,
                    NEW g \in Gates
             PROVE  (g \in Departed => g \in Departed') /\ (g \in Took => g \in Took')
  BY DEF Took, Inside, Departed
<1>1. SeenStep(g)
  BY SeenSteps
<1>2. verdict[g] = "refused" => pc[g] = "ended"
  BY DEF OnlyTheEndedAreRefused
<1>3. g \in Departed => g \in Departed'
  BY <1>1 DEF SeenStep, Departed, Before, Trapped
<1>4. g \in Inside => g \in Inside' \/ g \in Departed'
  BY <1>1, <1>2 DEF SeenStep, Departed, Inside, Before, Trapped
<1>5. QED
  BY <1>3, <1>4 DEF Took

(***************************************************************************)
(* The pid in the lock and every pid read from it are those of gates that  *)
(* took the lock; a gate that reclaims read the pid of one that is gone.   *)
(***************************************************************************)
ReadInv ==
  /\ OnlyTheEndedAreRefused
  /\ pid # None => pid \in Took
  /\ \A g \in Gates : holder[g] # None => holder[g] \in Took
  /\ \A g \in Gates : pc[g] = "reclaim" => holder[g] # None /\ Gone(holder[g])

NotRobbedYet == ~signalled /\ Departed = {} => revoked = {}

LEMMA ReadInit == Init => ReadInv /\ NotRobbedYet
BY DEF Init, ReadInv, NotRobbedYet, OnlyTheEndedAreRefused

LEMMA GoneForGood ==
  ASSUME Typed, [Next]_vars, NEW g \in Gates, Gone(g)
  PROVE  Gone(g)'
BY SeenSteps DEF SeenStep, Gone, Before, Trapped

(***************************************************************************)
(* Where the pids of a lock and of a $holder come from.                    *)
(***************************************************************************)
LEMMA PidSources ==
  Typed /\ [Next]_vars => pid' \in {pid, None} \/ pid' \in Inside'
<1> SUFFICES ASSUME Typed, [Next]_vars PROVE pid' \in {pid, None} \/ pid' \in Inside'
  OBVIOUS
<1>1. ASSUME NEW g \in Gates, Record(g) PROVE pid' = pid \/ pid' \in Inside'
  BY <1>1 DEF Record, Goto, Inside, Trapped, Typed, ProcessTypes
<1>2. QED
  BY <1>1 DEF Next, Script, Environment, Mkdir, ReadHolder, Probe, Reclaim, Remake, Snapshot,
              Step, Judge, Exit, Kill, Signal, Reuse, RemoveByHand, Move, RemoveLock, vars,
              gateVars

LEMMA HolderSources ==
  Typed /\ [Next]_vars =>
    \A g \in Gates :
      /\ holder'[g] \in {holder[g], None} \/ holder'[g] = pid
      /\ pc'[g] = "reclaim" =>
           holder'[g] = holder[g] /\ (pc[g] = "reclaim" \/ Reclaimable(g))
<1> SUFFICES ASSUME Typed, [Next]_vars, NEW h \in Gates
             PROVE  /\ holder'[h] \in {holder[h], None} \/ holder'[h] = pid
                    /\ pc'[h] = "reclaim" =>
                         holder'[h] = holder[h] /\ (pc[h] = "reclaim" \/ Reclaimable(h))
  OBVIOUS
<1> USE DEF Typed, ProcessTypes, Goto, Vanish
<1>1. ASSUME NEW g \in Gates, ReadHolder(g)
      PROVE  /\ holder'[h] \in {holder[h], None} \/ holder'[h] = pid
             /\ pc'[h] = "reclaim" => holder'[h] = holder[h] /\ pc[h] = "reclaim"
  BY <1>1 DEF ReadHolder
<1>2. ASSUME NEW g \in Gates, Probe(g)
      PROVE  /\ holder'[h] \in {holder[h], None}
             /\ pc'[h] = "reclaim" =>
                  holder'[h] = holder[h] /\ (pc[h] = "reclaim" \/ Reclaimable(h))
  BY <1>2 DEF Probe
<1>3. ASSUME NEW g \in Gates, Vanish(g, "ended") \/ Vanish(g, "dead")
      PROVE  /\ holder'[h] \in {holder[h], None}
             /\ pc'[h] = "reclaim" => holder'[h] = holder[h] /\ pc[h] = "reclaim"
  BY <1>3
<1>5. ASSUME UNCHANGED <<pc, holder>>
      PROVE  /\ holder'[h] \in {holder[h], None}
             /\ pc'[h] = "reclaim" => holder'[h] = holder[h] /\ pc[h] = "reclaim"
  BY <1>5
<1>6. ASSUME NEW g \in Gates, Step(g)
      PROVE  /\ holder'[h] \in {holder[h], None}
             /\ pc'[h] = "reclaim" => holder'[h] = holder[h] /\ pc[h] = "reclaim"
  BY <1>6 DEF Step
<1>7. ASSUME NEW g \in Gates, Mkdir(g) \/ Remake(g)
      PROVE  /\ holder'[h] \in {holder[h], None}
             /\ pc'[h] = "reclaim" => holder'[h] = holder[h] /\ pc[h] = "reclaim"
  BY <1>7 DEF Mkdir, Remake
<1>8. ASSUME NEW g \in Gates, Reclaim(g) \/ Record(g) \/ Snapshot(g) \/ Judge(g)
      PROVE  /\ holder'[h] \in {holder[h], None}
             /\ pc'[h] = "reclaim" => holder'[h] = holder[h] /\ pc[h] = "reclaim"
  BY <1>8 DEF Reclaim, Record, Snapshot, Judge
<1>9. QED
  BY <1>1, <1>2, <1>3, <1>5, <1>6, <1>7, <1>8
     DEF Next, Script, Environment, Exit, Kill, Signal, Reuse, RemoveByHand, Move, vars, gateVars

LEMMA ReadStep == Typed /\ ReadInv /\ [Next]_vars => ReadInv'
<1> SUFFICES ASSUME Typed, ReadInv, [Next]_vars PROVE ReadInv'
  OBVIOUS
<1>1. OnlyTheEndedAreRefused'
  BY RefusedStep DEF ReadInv
<1>2. Took \subseteq Took'
  BY TookGrows DEF ReadInv
<1>3. (pid # None => pid \in Took)'
  BY <1>2, PidSources DEF ReadInv, Took
<1>4. ASSUME NEW g \in Gates PROVE (holder[g] # None => holder[g] \in Took)'
  BY <1>2, HolderSources DEF ReadInv
<1>5. ASSUME NEW g \in Gates, pc'[g] = "reclaim" PROVE (holder[g] # None /\ Gone(holder[g]))'
  <2>1. holder'[g] = holder[g] /\ holder[g] # None /\ Gone(holder[g])
    BY <1>5, HolderSources DEF ReadInv, Reclaimable, Answers
  <2>2. holder[g] \in Gates
    BY <2>1 DEF Typed, ProcessTypes
  <2>3. QED
    BY <2>1, <2>2, GoneForGood DEF Gone
<1>6. QED
  BY <1>1, <1>3, <1>4, <1>5 DEF ReadInv

(***************************************************************************)
(* The first gate that is robbed is robbed by a signalled gate, or after a *)
(* gate that took the lock has departed.                                   *)
(***************************************************************************)
LEMMA RobbedStep ==
  Typed /\ LockInv /\ ReadInv /\ NotRobbedYet /\ [Next]_vars => NotRobbedYet'
<1> SUFFICES ASSUME Typed, LockInv, ReadInv, NotRobbedYet, [Next]_vars,
                    ~signalled', Departed' = {}
             PROVE  revoked' = {}
  BY DEF NotRobbedYet
<1>1. Departed = {}
  BY TookGrows DEF ReadInv
<1>2. ~signalled
  BY DEF Next, Script, Environment, Mkdir, ReadHolder, Probe, Reclaim, Remake, Record, Snapshot,
         Step, Judge, Exit, Kill, Signal, Reuse, RemoveByHand, Move, vars, envVars
<1>3. revoked = {}
  BY <1>1, <1>2 DEF NotRobbedYet
<1>4. ASSUME NEW g \in Gates, Reclaim(g) PROVE FALSE
  <2>1. holder[g] # None /\ Gone(holder[g]) /\ holder[g] \in Took
    BY <1>4 DEF ReadInv, Reclaim
  <2>2. holder[g] \notin Inside
    BY <2>1 DEF Gone, Inside, Trapped
  <2>3. QED
    BY <1>1, <2>1, <2>2 DEF Took
<1>5. ASSUME NEW g \in Gates, Exit(g) PROVE FALSE
  <2>1. verdict[g] # "refused"
    BY <1>5 DEF Exit, ReadInv, OnlyTheEndedAreRefused
  <2>2. pc'[g] = "ended" /\ verdict'[g] # "refused"
    BY <1>5, <2>1 DEF Exit, Vanish, Goto, Typed, ProcessTypes
  <2>3. QED
    BY <2>2 DEF Departed
<1>6. ASSUME NEW g \in Gates, Signal(g) PROVE FALSE
  <2>1. CASE Vanish(g, "dead")
    BY <2>1 DEF Vanish, Goto, Typed, ProcessTypes, Departed
  <2>2. CASE pc[g] \in Trapped /\ Vanish(g, "ended")
    <3>1. verdict[g] # "refused"
      BY <2>2 DEF ReadInv, OnlyTheEndedAreRefused, Trapped
    <3>2. pc'[g] = "ended" /\ verdict'[g] # "refused"
      BY <1>6, <2>2, <3>1 DEF Signal, Vanish, Goto, Typed, ProcessTypes
    <3>3. QED
      BY <3>2 DEF Departed
  <2>3. QED
    BY <1>6, <2>1, <2>2 DEF Signal
<1>7. ASSUME RemoveByHand PROVE FALSE
  BY <1>1, <1>7 DEF RemoveByHand, Gone, LockInv, LeftoverOnlyFromTheKilled, Inside, Trapped,
                    Departed, Typed, LockTypes
<1>8. QED
  BY <1>3, <1>4, <1>5, <1>6, <1>7
     DEF Next, Script, Environment, Mkdir, ReadHolder, Probe, Remake, Record, Snapshot, Step,
         Judge, Kill, Reuse, Move, vars, gateVars

(***************************************************************************)
(* As long as no gate that took the lock has departed and none was         *)
(* signalled, one gate runs at a time.                                     *)
(***************************************************************************)
THEOREM ExclusiveBeforeDepartures == Spec => []ExclusiveUntilADeparture
<1>1. Spec => [](ReadInv /\ NotRobbedYet)
  BY ReadInit, ReadStep, RobbedStep, TypedAlways, LockAlways, PTL DEF Spec
<1>2. LockInv /\ NotRobbedYet => ExclusiveUntilADeparture
  BY DEF LockInv, UnrobbedGateOwnsTheLock, NotRobbedYet, ExclusiveUntilADeparture
<1>3. QED
  BY <1>1, <1>2, LockAlways, PTL

-----------------------------------------------------------------------------
(* The verdict.                                                            *)

(***************************************************************************)
(* The tree under a gate between its two snapshots: unmoved, it is the     *)
(* tree of the first one and every step judged it; moved once, it is not   *)
(* that tree, whichever move it was.                                       *)
(***************************************************************************)
TreeUnder(g) ==
  /\ start[g] \in Trees
  /\ moved[g] = 0 => tree = start[g] /\ ~mixed[g]
  /\ moved[g] = 1 => tree # start[g]

Verdict(g) == verdict[g] = "pass" /\ start[g].head = start[g].work /\ moved[g] < 2 => ~mixed[g]

VerdictInv ==
  \A g \in Gates :
    /\ pc[g] \in Before \cup {"record", "snapshot"} => ~mixed[g] /\ moved[g] = 0
    /\ pc[g] \in {"step", "judge"} => TreeUnder(g)
    /\ pc[g] = "exit" => Verdict(g)

(***************************************************************************)
(* On a clean tree the fingerprint tells trees apart: an equal HEAD and an *)
(* empty porcelain are an equal tree.                                      *)
(***************************************************************************)
LEMMA CleanFingerprint ==
  ASSUME NEW t \in Trees, NEW u \in Trees, u.head = u.work, Fingerprint(t) = Fingerprint(u)
  PROVE  t = u
<1>1. t.head = u.head /\ ((t.work # t.head) <=> (u.work # u.head))
  BY DEF Fingerprint
<1>2. t.work = u.work
  BY <1>1
<1>3. QED
  BY <1>1, <1>2 DEF Trees

LEMMA VerdictInit == Init => VerdictInv
BY DEF Init, VerdictInv, Before

(***************************************************************************)
(* Each move of the tree changes it, and is counted for the gates it moves *)
(* under.                                                                  *)
(***************************************************************************)
LEMMA MoveChangesTree ==
  ASSUME Typed, Move
  PROVE  /\ tree' # tree /\ UNCHANGED <<pc, start, mixed, verdict>>
         /\ \A g \in Gates :
              moved'[g] = IF pc[g] \in {"step", "judge"} /\ moved[g] < 2 THEN moved[g] + 1
                          ELSE moved[g]
<1>1. tree' # tree
  BY DEF Move, Typed, WorldTypes, Trees
<1>2. QED
  BY <1>1 DEF Move, gateVars

LEMMA VerdictStep == Typed /\ VerdictInv /\ [Next]_vars => VerdictInv'
<1> SUFFICES ASSUME Typed, VerdictInv, [Next]_vars, NEW h \in Gates
             PROVE  /\ (pc[h] \in Before \cup {"record", "snapshot"} => ~mixed[h] /\ moved[h] = 0)'
                    /\ (pc[h] \in {"step", "judge"} => TreeUnder(h))'
                    /\ (pc[h] = "exit" => Verdict(h))'
  BY DEF VerdictInv
<1> DEFINE Fine == /\ pc[h] \in Before \cup {"record", "snapshot"} => ~mixed[h] /\ moved[h] = 0
                   /\ pc[h] \in {"step", "judge"} => TreeUnder(h)
                   /\ pc[h] = "exit" => Verdict(h)
<1>0. Fine
  BY DEF VerdictInv
<1>1. ASSUME UNCHANGED <<runVars, tree>>, UNCHANGED verdict \/ pc'[h] # "exit",
             \/ pc'[h] = pc[h]
             \/ pc[h] \in Before /\ pc'[h] \in Before \cup {"record"}
             \/ pc[h] = "record" /\ pc'[h] = "snapshot"
             \/ pc'[h] \in {"ended", "dead"}
      PROVE  Fine'
  BY <1>0, <1>1 DEF TreeUnder, Verdict, Before, runVars
<1>2. ASSUME NEW g \in Gates, NEW label \in {"ended", "dead"}, Vanish(g, label),
             UNCHANGED tree, verdict'[h] = verdict[h] \/ h = g
      PROVE  Fine'
  <2>1. CASE h = g
    BY <1>2, <2>1 DEF Vanish, Goto, Typed, ProcessTypes, Before
  <2>2. CASE h # g
    BY <1>0, <1>2, <2>2 DEF Vanish, Goto, Typed, ProcessTypes, TreeUnder, Verdict
  <2>3. QED
    BY <2>1, <2>2
<1>3. ASSUME NEW g \in Gates, Snapshot(g) PROVE Fine'
  <2>1. CASE h = g
    BY <1>0, <1>3, <2>1 DEF Snapshot, Goto, Typed, ProcessTypes, WorldTypes, envVars, TreeUnder,
                            Before
  <2>2. CASE h # g
    BY <1>0, <1>3, <2>2 DEF Snapshot, Goto, Typed, ProcessTypes, envVars, TreeUnder, Verdict
  <2>3. QED
    BY <2>1, <2>2
<1>4. ASSUME NEW g \in Gates, Step(g) PROVE Fine'
  <2>1. CASE h = g
    <3>1. pc'[g] \in {"step", "judge"}
      BY <1>4 DEF Step, Goto, Typed, ProcessTypes
    <3>2. TreeUnder(g)'
      BY <1>0, <1>4, <2>1 DEF Step, TreeUnder, Typed, ProcessTypes, envVars
    <3>3. QED
      BY <2>1, <3>1, <3>2 DEF Before
  <2>2. CASE h # g
    BY <1>0, <1>4, <2>2 DEF Step, Goto, Typed, ProcessTypes, envVars, TreeUnder, Verdict
  <2>3. QED
    BY <2>1, <2>2
<1>5. ASSUME NEW g \in Gates, Judge(g) PROVE Fine'
  <2>1. CASE h = g
    <3>1. pc'[g] = "exit" /\ UNCHANGED runVars
      BY <1>5 DEF Judge, Goto, Typed, ProcessTypes
    <3>2. ASSUME verdict'[g] = "pass", start[g].head = start[g].work, moved[g] < 2
          PROVE  ~mixed[g]
      <4>1. TreeUnder(g)
        BY <1>0, <1>5, <2>1 DEF Judge
      <4>2. Fingerprint(tree) = Fingerprint(start[g])
        BY <1>5, <3>2 DEF Judge, Typed, WorldTypes
      <4>3. tree = start[g]
        BY <3>2, <4>1, <4>2, CleanFingerprint DEF Typed, WorldTypes, TreeUnder
      <4>4. QED
        BY <3>2, <4>1, <4>3 DEF TreeUnder, Typed, ProcessTypes
    <3>3. QED
      BY <2>1, <3>1, <3>2 DEF Verdict, Before, runVars
  <2>2. CASE h # g
    BY <1>0, <1>5, <2>2 DEF Judge, Goto, Typed, ProcessTypes, WorldTypes, runVars, envVars,
                            TreeUnder, Verdict
  <2>3. QED
    BY <2>1, <2>2
<1>6. ASSUME Move PROVE Fine'
  <2>1. tree' # tree /\ UNCHANGED <<pc, start, mixed, verdict>>
    BY <1>6, MoveChangesTree
  <2>2. moved'[h] = IF pc[h] \in {"step", "judge"} /\ moved[h] < 2 THEN moved[h] + 1 ELSE moved[h]
    BY <1>6, MoveChangesTree
  <2>3. moved[h] \in 0..2
    BY DEF Typed, ProcessTypes
  <2>4. CASE pc[h] \in {"step", "judge"}
    BY <1>0, <2>1, <2>2, <2>3, <2>4 DEF TreeUnder, Before
  <2>5. CASE pc[h] \notin {"step", "judge"}
    BY <1>0, <2>1, <2>2, <2>5 DEF Verdict
  <2>6. QED
    BY <2>4, <2>5
<1>7. ASSUME NEW g \in Gates,
             Mkdir(g) \/ ReadHolder(g) \/ Reclaim(g) \/ Record(g) \/ Reuse(g) \/ RemoveByHand
      PROVE  Fine'
  BY <1>1, <1>7 DEF Mkdir, ReadHolder, Reclaim, Record, Reuse, RemoveByHand, Goto, gateVars,
                    envVars, Typed, ProcessTypes, Before
<1>8. ASSUME NEW g \in Gates, Probe(g) \/ Remake(g) PROVE Fine'
  <2>1. CASE Vanish(g, "ended")
    BY <1>2, <1>8, <2>1 DEF Probe, Remake, envVars, Typed, WorldTypes
  <2>2. CASE ~Vanish(g, "ended")
    BY <1>1, <1>8, <2>2 DEF Probe, Remake, Goto, envVars, Typed, ProcessTypes, Before
  <2>3. QED
    BY <2>1, <2>2
<1>9. ASSUME NEW g \in Gates, Exit(g) \/ Kill(g) PROVE Fine'
  BY <1>2, <1>9 DEF Exit, Kill, envVars
<1>10. ASSUME NEW g \in Gates, Signal(g) PROVE Fine'
  <2>1. CASE Vanish(g, "ended") \/ Vanish(g, "dead")
    BY <1>2, <1>10, <2>1 DEF Signal
  <2>2. CASE ~Vanish(g, "ended") /\ ~Vanish(g, "dead")
    BY <1>1, <1>10, <2>2 DEF Signal
  <2>3. QED
    BY <2>1, <2>2
<1>11. CASE UNCHANGED vars
  BY <1>1, <1>11 DEF vars, gateVars, envVars
<1>12. Fine'
  BY <1>3, <1>4, <1>5, <1>6, <1>7, <1>8, <1>9, <1>10, <1>11 DEF Next, Script, Environment
<1>13. QED
  BY <1>12

(***************************************************************************)
(* A gate that started on a clean tree and passed judged one tree, unless  *)
(* the tree moved at least twice under it.                                 *)
(***************************************************************************)
THEOREM PassOnOneTree == Spec => []PassJudgedOneTree
<1>1. Spec => []VerdictInv
  BY VerdictInit, VerdictStep, TypedAlways, PTL DEF Spec
<1>2. VerdictInv => PassJudgedOneTree
  BY DEF VerdictInv, Verdict, PassJudgedOneTree
<1>3. QED
  BY <1>1, <1>2, PTL

-----------------------------------------------------------------------------
(* Whose pid the lock holds.                                               *)

(***************************************************************************)
(* The pid in the lock is that of the gate whose lock it is, unless a gate *)
(* whose own lock was removed wrote it: the file is written after the      *)
(* directory is made, into whatever directory is there (line 46).          *)
(***************************************************************************)
LockNamesItsMaker == pid # None /\ pid # dir => pid \in revoked

NamesInv == LockNamesItsMaker /\ (dir = None => pid = None)

LEMMA NamesInit == Init => NamesInv
BY DEF Init, NamesInv, LockNamesItsMaker

(***************************************************************************)
(* Only Record puts a pid into a lock that is there.  The gate that does   *)
(* is inside: it made the lock, or was robbed of its own.                  *)
(***************************************************************************)
LEMMA NamesStep == Typed /\ LockInv /\ NamesInv /\ [Next]_vars => NamesInv'
<1> SUFFICES ASSUME Typed, LockInv, NamesInv, [Next]_vars PROVE NamesInv'
  OBVIOUS
<1> USE DEF NamesInv, LockNamesItsMaker
<1>1. ASSUME NEW g \in Gates, Record(g) PROVE NamesInv'
  <2>1. g \in Inside
    BY <1>1 DEF Record, Inside
  <2>2. dir = g \/ g \in revoked
    BY <2>1 DEF LockInv, UnrobbedGateOwnsTheLock
  <2>3. UNCHANGED <<dir, revoked>> /\ pid' = IF dir = None THEN pid ELSE g
    BY <1>1 DEF Record
  <2>4. QED
    BY <2>2, <2>3
<1>2. ASSUME pid' = None PROVE NamesInv'
  BY <1>2
<1>3. ASSUME UNCHANGED <<dir, pid, revoked>> PROVE NamesInv'
  BY <1>3
<1>4. ASSUME NEW leaving, RemoveLock(leaving) PROVE NamesInv'
  BY <1>2, <1>4 DEF RemoveLock
<1>5. ASSUME NEW g \in Gates, Mkdir(g) \/ Remake(g) PROVE NamesInv'
  BY <1>2, <1>3, <1>5 DEF Mkdir, Remake
<1>6. QED
  BY <1>1, <1>3, <1>4, <1>5
     DEF Next, Script, Environment, ReadHolder, Probe, Reclaim, Snapshot, Step, Judge, Exit, Kill,
         Signal, Reuse, RemoveByHand, Move, vars, gateVars

LEMMA NamesAlways == Spec => []NamesInv
BY NamesInit, NamesStep, TypedAlways, LockAlways, PTL DEF Spec

(***************************************************************************)
(* The pid that a refusal names, and that a later gate may take for the    *)
(* holder's, is that of the gate whose lock it is, or of a robbed gate.    *)
(***************************************************************************)
THEOREM NamesTheMaker == Spec => []LockNamesItsMaker
BY NamesAlways, PTL DEF NamesInv

(***************************************************************************)
(* A reclaim that finds the lock as it was read takes it from no live      *)
(* gate, unless a robbed gate wrote that pid: what the script lacks is a   *)
(* second look before the rm -rf (line 37).                                *)
(***************************************************************************)
THEOREM ReclaimsAsReadRobNobody == Spec => []UnchangedLockIsFreeToReclaim
<1>1. Spec => []ReadInv
  BY ReadInit, ReadStep, TypedAlways, PTL DEF Spec
<1>2. ReadInv /\ NamesInv => UnchangedLockIsFreeToReclaim
  BY DEF ReadInv, NamesInv, LockNamesItsMaker, UnchangedLockIsFreeToReclaim
<1>3. QED
  BY <1>1, <1>2, NamesAlways, PTL

-----------------------------------------------------------------------------
(* No command leads back.                                                  *)

\* How many commands a gate that was launched has before it, at most.
Left(g) ==
  CASE pc[g] = "mkdir"    -> NSteps + 9
    [] pc[g] = "read"     -> NSteps + 8
    [] pc[g] = "probe"    -> NSteps + 7
    [] pc[g] = "reclaim"  -> NSteps + 6
    [] pc[g] = "remake"   -> NSteps + 5
    [] pc[g] = "record"   -> NSteps + 4
    [] pc[g] = "snapshot" -> NSteps + 3
    [] pc[g] = "step"     -> NSteps - done[g] + 2
    [] pc[g] = "judge"    -> 2
    [] pc[g] = "exit"     -> 1
    [] OTHER              -> 0

(***************************************************************************)
(* Whatever a gate meets, a lock that is held, that is robbed or that was  *)
(* made by another, no command leads back: each brings it nearer its end,  *)
(* and nothing that others do takes it further from it.                    *)
(***************************************************************************)
NoGateTurnsBack ==
  [][\A g \in Gates : UNCHANGED <<pc[g], done[g]>> \/ Left(g)' < Left(g)]_vars

\* A gate that is not gone has a command before it, one that is gone has none.
LEMMA LeftIsCounted ==
  ASSUME Typed, NEW g \in Gates
  PROVE  /\ Left(g) \in 0..(NSteps + 9)
         /\ ~Gone(g) => Left(g) > 0
<1> DEFINE d == done[g]
           l == Left(g)
<1>1. d \in Nat /\ d <= NSteps /\ NSteps \in Nat /\ NSteps > 0 /\ pc[g] \in Pcs
  BY StepsAssumption DEF Typed, ProcessTypes
<1>2. pc[g] = "step" => d < NSteps
  BY DEF Typed, ProcessTypes
<1>3. CASE pc[g] = "step"
  <2>1. l = NSteps - d + 2
    BY <1>3 DEF Left
  <2> HIDE DEF d, l
  <2>2. l \in 0..(NSteps + 9) /\ l > 0
    BY <1>1, <1>2, <1>3, <2>1
  <2>3. QED
    BY <2>2 DEF l
<1>4. CASE pc[g] \notin {"step", "judge", "exit", "ended", "dead"}
  <2>1. \/ l = NSteps + 9 \/ l = NSteps + 8 \/ l = NSteps + 7 \/ l = NSteps + 6
        \/ l = NSteps + 5 \/ l = NSteps + 4 \/ l = NSteps + 3
    BY <1>1, <1>4 DEF Left, Pcs, Outside, Trapped
  <2> HIDE DEF d, l
  <2>2. l \in 0..(NSteps + 9) /\ l > 0
    BY <1>1, <2>1
  <2>3. QED
    BY <2>2 DEF l
<1>5. CASE pc[g] \in {"judge", "exit"}
  <2>1. l = 2 \/ l = 1
    BY <1>5 DEF Left
  <2> HIDE DEF d, l
  <2>2. l \in 0..(NSteps + 9) /\ l > 0
    BY <1>1, <2>1
  <2>3. QED
    BY <2>2 DEF l
<1>6. CASE Gone(g)
  <2>1. l = 0
    BY <1>6 DEF Left, Gone
  <2> HIDE DEF d, l
  <2>2. l \in 0..(NSteps + 9)
    BY <1>1, <2>1
  <2>3. QED
    BY <1>6, <2>2 DEF l
<1>7. QED
  BY <1>3, <1>4, <1>5, <1>6 DEF Gone

LEMMA TurnsStep == Typed /\ Typed' /\ [Next]_vars =>
  \A g \in Gates : UNCHANGED <<pc[g], done[g]>> \/ Left(g)' < Left(g)
<1> SUFFICES ASSUME Typed, Typed', [Next]_vars, NEW h \in Gates
             PROVE  UNCHANGED <<pc[h], done[h]>> \/ Left(h)' < Left(h)
  OBVIOUS
<1> DEFINE Stays == UNCHANGED <<pc[h], done[h]>>
           Nearer == Left(h)' < Left(h)
<1>0. pc[h] \in Pcs /\ done[h] \in 0..NSteps /\ NSteps \in Nat
  BY StepsAssumption DEF Typed, ProcessTypes
<1>1. ASSUME NEW g \in Gates, NEW label, Goto(g, label), g # h, UNCHANGED done PROVE Stays
  BY <1>1 DEF Goto
<1>2. ASSUME NEW g \in Gates, NEW label \in {"ended", "dead"}, Vanish(g, label), ~Gone(g)
      PROVE  Stays \/ Nearer
  <2>1. CASE g = h
    <3>1. Left(h) \in Nat /\ Left(h) > 0
      BY <1>2, <2>1, LeftIsCounted
    <3>2. pc'[h] = label
      BY <1>2, <2>1 DEF Vanish, Goto, Typed, ProcessTypes
    <3>3. Left(h)' = 0
      BY <3>2 DEF Left
    <3>4. QED
      BY <3>1, <3>3
  <2>2. CASE g # h
    BY <1>2, <2>2 DEF Vanish, Goto
  <2>3. QED
    BY <2>1, <2>2
<1>3. ASSUME NEW from, NEW to, pc[h] = from, pc'[h] = to, UNCHANGED done,
             \/ from = "mkdir" /\ to \in {"read", "record"}
             \/ from = "read" /\ to = "probe"
             \/ from = "probe" /\ to = "reclaim"
             \/ from = "reclaim" /\ to = "remake"
             \/ from = "remake" /\ to = "record"
             \/ from = "record" /\ to = "snapshot"
             \/ from = "snapshot" /\ to = "step"
             \/ from = "judge" /\ to = "exit"
      PROVE  Nearer
  <2>1. CASE from = "snapshot"
    <3>1. Left(h) = NSteps + 3
      BY <1>3, <2>1 DEF Left
    <3>2. Left(h)' = NSteps - done[h] + 2
      BY <1>3, <2>1 DEF Left
    <3>3. QED
      BY <1>0, <3>1, <3>2
  <2>2. CASE from # "snapshot"
    BY <1>0, <1>3, <2>2 DEF Left
  <2>3. QED
    BY <2>1, <2>2
<1>4. ASSUME NEW g \in Gates, Step(g) PROVE Stays \/ Nearer
  <2>1. CASE g = h
    <3>1. PICK label \in {"judge", "step"} : Goto(g, label)
      BY <1>4 DEF Step
    <3>2. done'[h] = done[h] + 1 /\ pc[h] = "step" /\ pc'[h] = label
      BY <1>4, <2>1, <3>1 DEF Step, Goto, Typed, ProcessTypes
    <3>3. Left(h) = NSteps - done[h] + 2 /\ done[h] < NSteps
      BY <1>0, <3>2 DEF Left, Typed, ProcessTypes
    <3>4. Left(h)' = IF label = "judge" THEN 2 ELSE NSteps - (done[h] + 1) + 2
      BY <3>2 DEF Left
    <3>5. QED
      BY <1>0, <3>3, <3>4
  <2>2. CASE g # h
    BY <1>4, <2>2 DEF Step, Goto
  <2>3. QED
    BY <2>1, <2>2
<1>5. ASSUME NEW g \in Gates, Mkdir(g) \/ ReadHolder(g) \/ Reclaim(g) \/ Record(g) \/ Judge(g)
      PROVE  Stays \/ Nearer
  <2>1. UNCHANGED done
    BY <1>5 DEF Mkdir, ReadHolder, Reclaim, Record, Judge, runVars
  <2>2. CASE g = h
    BY <1>3, <1>5, <2>1, <2>2 DEF Mkdir, ReadHolder, Reclaim, Record, Judge, Goto, Typed, ProcessTypes
  <2>3. CASE g # h
    BY <1>1, <1>5, <2>1, <2>3 DEF Mkdir, ReadHolder, Reclaim, Record, Judge
  <2>4. QED
    BY <2>2, <2>3
<1>6. ASSUME NEW g \in Gates, Snapshot(g) PROVE Stays \/ Nearer
  BY <1>1, <1>3, <1>6 DEF Snapshot, Goto, Typed, ProcessTypes
<1>7. ASSUME NEW g \in Gates, Probe(g) \/ Remake(g) PROVE Stays \/ Nearer
  <2>1. CASE Vanish(g, "ended")
    BY <1>2, <1>7, <2>1 DEF Probe, Remake, Gone
  <2>2. CASE ~Vanish(g, "ended")
    <3>1. UNCHANGED done
      BY <1>7, <2>2 DEF Probe, Remake, runVars
    <3>2. CASE g = h
      BY <1>3, <1>7, <2>2, <3>1, <3>2 DEF Probe, Remake, Goto, Typed, ProcessTypes
    <3>3. CASE g # h
      BY <1>1, <1>7, <2>2, <3>1, <3>3 DEF Probe, Remake
    <3>4. QED
      BY <3>2, <3>3
  <2>3. QED
    BY <2>1, <2>2
<1>8. ASSUME NEW g \in Gates, Exit(g) \/ Kill(g) PROVE Stays \/ Nearer
  BY <1>2, <1>8 DEF Exit, Kill, Gone
<1>9. ASSUME NEW g \in Gates, Signal(g) PROVE Stays \/ Nearer
  <2>1. CASE Vanish(g, "ended") \/ Vanish(g, "dead")
    BY <1>2, <1>9, <2>1 DEF Signal, Gone, Trapped
  <2>2. CASE ~Vanish(g, "ended") /\ ~Vanish(g, "dead")
    BY <1>9, <2>2 DEF Signal, runVars
  <2>3. QED
    BY <2>1, <2>2
<1>10. CASE (\E g \in Gates : Reuse(g)) \/ RemoveByHand \/ Move \/ UNCHANGED vars
  BY <1>10 DEF Reuse, RemoveByHand, Move, vars, gateVars, runVars
<1>11. QED
  BY <1>4, <1>5, <1>6, <1>7, <1>8, <1>9, <1>10 DEF Next, Script, Environment

(***************************************************************************)
(* Each command brings a gate nearer its end, whatever the others do: so   *)
(* it runs at most NSteps + 9 of them, and a gate whose script goes on, as *)
(* its fairness says, ends.  TLC checks that last step, EveryGateEnds.     *)
(***************************************************************************)
THEOREM GatesGoForward == Spec => NoGateTurnsBack
<1>1. Typed /\ Typed' /\ [Next]_vars => [\A g \in Gates : UNCHANGED <<pc[g], done[g]>> \/ Left(g)' < Left(g)]_vars
  BY TurnsStep
<1>2. QED
  BY <1>1, TypedAlways, PTL DEF Spec, NoGateTurnsBack
=============================================================================
