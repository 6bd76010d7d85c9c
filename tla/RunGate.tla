------------------------------ MODULE RunGate ------------------------------
(***************************************************************************)
(* tools/run-gate.sh: one verification tier of a project, as `make         *)
(* check-commit`, `check-push` and `check-release` run it.  Several gates  *)
(* of one tree may be launched at once: each is a shell process that takes *)
(* <build>/.gate.lock (a directory holding the file pid), records the      *)
(* tree's fingerprint, runs its make steps in order and fail-fast, and     *)
(* compares the fingerprint before it speaks.                              *)
(*                                                                         *)
(* One action is one command of the script that touches what the gates     *)
(* share: the lock directory, its pid file, the process table, the tree.   *)
(* The environment kills gates, signals them, hands a dead gate's pid to   *)
(* another process, removes a lock by hand, and edits and commits.         *)
(***************************************************************************)
EXTENDS Naturals

CONSTANTS
  Gates,       \* the gate processes, each launched at most once and named by its pid
  None,        \* an absent lock, an absent pid file, an unset shell variable
  NSteps,      \* how many make steps the tier has; the script demands one at least
  Contents,    \* the contents a working tree or a commit can have
  MaxUpsets    \* bound: kills, signals, reused pids and moves of the tree, all told

Trees == [head : Contents, work : Contents]

ASSUME NoneIsNothing == None \notin Gates
ASSUME StepsAssumption == NSteps \in Nat \ {0}
ASSUME ContentsAssumption == Contents # {}
ASSUME UpsetsAssumption == MaxUpsets \in Nat

VARIABLES
  pc,        \* pc[g]: the command gate g executes next
  dir,       \* the gate whose mkdir made the lock directory, None when there is none
  pid,       \* what the lock's pid file says, None when there is no such file
  holder,    \* holder[g]: $holder, the pid that g read from a lock it could not take
  tree,      \* the tree: what HEAD names and what the working tree holds
  start,     \* start[g]: the tree when g took its first snapshot
  done,      \* done[g]: make steps g has run
  red,       \* red[g]: $status, a step of g failed
  verdict,   \* verdict[g]: what g printed last
  revoked,   \* history: gates whose lock directory was removed while they ran
  mixed,     \* history: mixed[g], a step of g judged another tree than start[g]
  moved,     \* history: moved[g], moves of the tree under g, counted up to two
  signalled, \* history: some gate that held the lock was sent a signal
  reused,    \* pids of gone gates that other processes now have
  upsets     \* what the environment did so far, bounded by MaxUpsets

gateVars == <<pc, dir, pid, holder, revoked>>
runVars  == <<start, done, red, mixed, moved>>
envVars  == <<tree, signalled, reused, upsets>>
vars     == <<gateVars, runVars, verdict, envVars>>

Outside == {"mkdir", "read", "probe", "reclaim", "remake", "ended", "dead"}
Trapped == {"snapshot", "step", "judge", "exit"}
Pcs     == Outside \cup {"record"} \cup Trapped

(***************************************************************************)
(* The gates between the mkdir that gave them the lock and their last      *)
(* command: those that believe the tree is theirs.                         *)
(***************************************************************************)
Inside == {g \in Gates : pc[g] \in {"record"} \cup Trapped}
Gone(p) == pc[p] \in {"ended", "dead"}

\* kill -0 p: some process has the pid p, be it the gate that had it or another.
Answers(p) == p \in reused \/ ~Gone(p)

(***************************************************************************)
(* snapshot(): HEAD and `git status --porcelain`.  The porcelain names the *)
(* paths that differ from HEAD and how, never their contents: of a working *)
(* tree it says here whether it differs.                                   *)
(***************************************************************************)
FingerprintHeadOnly(t) == t.head
Fingerprint(t) == <<t.head, t.work # t.head>>

\* The holder that g read is recorded and gone (line 35).
Reclaimable(g) == holder[g] # None /\ ~Answers(holder[g])

Init ==
  /\ pc = [g \in Gates |-> "mkdir"]
  /\ dir = None /\ pid = None
  /\ holder = [g \in Gates |-> None]
  /\ tree \in Trees
  /\ start = [g \in Gates |-> None]
  /\ done = [g \in Gates |-> 0]
  /\ red = [g \in Gates |-> FALSE]
  /\ verdict = [g \in Gates |-> "none"]
  /\ revoked = {}
  /\ mixed = [g \in Gates |-> FALSE]
  /\ moved = [g \in Gates |-> 0]
  /\ signalled = FALSE /\ reused = {} /\ upsets = 0

Goto(g, label) == pc' = [pc EXCEPT ![g] = label]

(***************************************************************************)
(* The process is gone, its shell variables with it; what it printed stays.*)
(***************************************************************************)
Vanish(g, label) ==
  /\ Goto(g, label)
  /\ holder' = [holder EXCEPT ![g] = None]
  /\ start' = [start EXCEPT ![g] = None]
  /\ done' = [done EXCEPT ![g] = 0]
  /\ red' = [red EXCEPT ![g] = FALSE]
  /\ mixed' = [mixed EXCEPT ![g] = FALSE]
  /\ moved' = [moved EXCEPT ![g] = 0]

(***************************************************************************)
(* rm -rf "$lock", whoever made the directory.  A gate that made it and    *)
(* has not reached its own end (it is not the one that leaves) is revoked. *)
(***************************************************************************)
RemoveLock(leaving) ==
  /\ dir' = None
  /\ pid' = None
  /\ revoked' = revoked \cup (({dir} \cap Inside) \ leaving)

-----------------------------------------------------------------------------
(* The script.                                                             *)

\* The launch, and mkdir "$lock": atomic, it either makes the directory or finds one.
MkdirUnchecked(g) ==
  /\ pc[g] = "mkdir"
  /\ dir' = g /\ pid' = None /\ Goto(g, "record")
  /\ UNCHANGED <<holder, revoked, runVars, verdict, envVars>>

Mkdir(g) ==
  /\ pc[g] = "mkdir"
  /\ \/ /\ dir = None
        /\ dir' = g /\ pid' = None /\ Goto(g, "record")
     \/ /\ dir # None
        /\ Goto(g, "read")
        /\ UNCHANGED <<dir, pid>>
  /\ UNCHANGED <<holder, revoked, runVars, verdict, envVars>>

\* holder="$(cat "$lock/pid" || true)": empty when the file or the lock is gone by now.
ReadHolder(g) ==
  /\ pc[g] = "read"
  /\ holder' = [holder EXCEPT ![g] = pid]
  /\ Goto(g, "probe")
  /\ UNCHANGED <<dir, pid, revoked, runVars, verdict, envVars>>

(***************************************************************************)
(* The test on what was read: reclaim when a pid was read and nothing      *)
(* answers it, refuse otherwise.  The lock is not read again.              *)
(***************************************************************************)
ProbeWaits(g) ==
  /\ pc[g] = "probe"
  /\ Goto(g, IF Reclaimable(g) THEN "reclaim" ELSE "mkdir")
  /\ UNCHANGED <<dir, pid, holder, revoked, runVars, verdict, envVars>>

ProbeTakesSilenceForDeath(g) ==
  /\ pc[g] = "probe"
  /\ \/ /\ holder[g] = None \/ Reclaimable(g)
        /\ Goto(g, "reclaim") /\ UNCHANGED <<holder, runVars, verdict>>
     \/ /\ holder[g] # None /\ ~Reclaimable(g)
        /\ Vanish(g, "ended") /\ verdict' = [verdict EXCEPT ![g] = "refused"]
  /\ UNCHANGED <<dir, pid, revoked, envVars>>

ProbeNeverReclaims(g) ==
  /\ pc[g] = "probe"
  /\ Vanish(g, "ended") /\ verdict' = [verdict EXCEPT ![g] = "refused"]
  /\ UNCHANGED <<dir, pid, revoked, envVars>>

Probe(g) ==
  /\ pc[g] = "probe"
  /\ \/ /\ Reclaimable(g)
        /\ Goto(g, "reclaim") /\ UNCHANGED <<holder, runVars, verdict>>
     \/ /\ ~Reclaimable(g)
        /\ Vanish(g, "ended") /\ verdict' = [verdict EXCEPT ![g] = "refused"]
  /\ UNCHANGED <<dir, pid, revoked, envVars>>

Reclaim(g) ==
  /\ pc[g] = "reclaim"
  /\ RemoveLock({})
  /\ Goto(g, "remake")
  /\ UNCHANGED <<holder, runVars, verdict, envVars>>

\* mkdir "$lock" || exit 1: no trap is set yet, so the lock that another gate made stays.
Remake(g) ==
  /\ pc[g] = "remake"
  /\ \/ /\ dir = None
        /\ dir' = g /\ pid' = None /\ Goto(g, "record")
        /\ UNCHANGED <<holder, runVars, verdict>>
     \/ /\ dir # None
        /\ Vanish(g, "ended") /\ verdict' = [verdict EXCEPT ![g] = "refused"]
        /\ UNCHANGED <<dir, pid>>
  /\ UNCHANGED <<revoked, envVars>>

(***************************************************************************)
(* echo $$ > "$lock/pid", then the trap.  The redirection writes into      *)
(* whatever directory is there, another gate's too, and a failed one does  *)
(* not stop the script (set -u, no set -e).                                *)
(***************************************************************************)
Record(g) ==
  /\ pc[g] = "record"
  /\ pid' = IF dir = None THEN pid ELSE g
  /\ Goto(g, "snapshot")
  /\ UNCHANGED <<dir, holder, revoked, runVars, verdict, envVars>>

Snapshot(g) ==
  /\ pc[g] = "snapshot"
  /\ start' = [start EXCEPT ![g] = tree]
  /\ Goto(g, "step")
  /\ UNCHANGED <<dir, pid, holder, revoked, done, red, mixed, moved, verdict, envVars>>

\* One make step, green or red; the first red one stops the tier.
Step(g) ==
  /\ pc[g] = "step"
  /\ done' = [done EXCEPT ![g] = @ + 1]
  /\ mixed' = [mixed EXCEPT ![g] = @ \/ tree # start[g]]
  /\ \E fails \in BOOLEAN :
       /\ red' = [red EXCEPT ![g] = fails]
       /\ Goto(g, IF fails \/ done[g] + 1 = NSteps THEN "judge" ELSE "step")
  /\ UNCHANGED <<dir, pid, holder, revoked, start, moved, verdict, envVars>>

\* The last snapshot against the first, then the status.
Judge(g) ==
  /\ pc[g] = "judge"
  /\ verdict' = [verdict EXCEPT ![g] =
                   IF Fingerprint(tree) # Fingerprint(start[g]) THEN "void"
                   ELSE IF red[g] THEN "failed" ELSE "pass"]
  /\ Goto(g, "exit")
  /\ UNCHANGED <<dir, pid, holder, revoked, runVars, envVars>>

\* The EXIT trap removes the lock directory, whoever's it is by now.
ExitKeepsVoidLock(g) ==
  /\ pc[g] = "exit"
  /\ IF verdict[g] = "void" THEN UNCHANGED <<dir, pid, revoked>> ELSE RemoveLock({g})
  /\ Vanish(g, "ended")
  /\ UNCHANGED <<verdict, envVars>>

Exit(g) ==
  /\ pc[g] = "exit"
  /\ RemoveLock({g})
  /\ Vanish(g, "ended")
  /\ UNCHANGED <<verdict, envVars>>

-----------------------------------------------------------------------------
(* The environment.                                                        *)

Upset == upsets < MaxUpsets /\ upsets' = upsets + 1

\* SIGKILL, a crash of the machine's session: no trap runs.
Kill(g) ==
  /\ pc[g] \notin {"mkdir", "ended", "dead"}
  /\ Upset
  /\ Vanish(g, "dead")
  /\ UNCHANGED <<dir, pid, revoked, verdict, tree, signalled, reused>>

(***************************************************************************)
(* INT, TERM or HUP.  Before the trap is set any of them ends the shell.   *)
(* After, INT and TERM run the trap, which removes the lock and does not   *)
(* exit: bash runs it once the command in the foreground returns and goes  *)
(* on with the next one.  HUP is not trapped: bash runs the EXIT trap and  *)
(* ends.                                                                   *)
(***************************************************************************)
Signal(g) ==
  /\ Upset
  /\ \/ /\ pc[g] \notin Trapped \cup {"mkdir", "ended", "dead"}
        /\ Vanish(g, "dead")
        /\ UNCHANGED <<dir, pid, revoked, signalled>>
     \/ /\ pc[g] \in Trapped
        /\ RemoveLock({})
        /\ signalled' = TRUE
        /\ UNCHANGED <<pc, holder, runVars>>
     \/ /\ pc[g] \in Trapped
        /\ RemoveLock({g})
        /\ Vanish(g, "ended")
        /\ UNCHANGED signalled
  /\ UNCHANGED <<verdict, tree, reused>>

\* The system gives the pid of a gone gate to a process that is no gate.
Reuse(g) ==
  /\ Gone(g) /\ g \notin reused
  /\ Upset
  /\ reused' = reused \cup {g}
  /\ UNCHANGED <<gateVars, runVars, verdict, tree, signalled>>

\* The remedy the refusal names: remove the lock by hand once its maker is known to be gone.
RemoveByHand ==
  /\ dir # None /\ Gone(dir)
  /\ RemoveLock({})
  /\ UNCHANGED <<pc, holder, runVars, verdict, envVars>>

\* A developer edits the working tree, commits it, or checks another commit out.
Move ==
  /\ Upset
  /\ \/ \E c \in Contents \ {tree.work} : tree' = [tree EXCEPT !.work = c]
     \/ tree.work # tree.head /\ tree' = [tree EXCEPT !.head = tree.work]
     \/ \E c \in Contents \ {tree.head} : tree' = [head |-> c, work |-> c]
  /\ moved' = [g \in Gates |-> IF pc[g] \in {"step", "judge"} /\ moved[g] < 2
                               THEN moved[g] + 1 ELSE moved[g]]
  /\ UNCHANGED <<gateVars, start, done, red, mixed, verdict, signalled, reused>>

Script(g) ==
  \/ ReadHolder(g) \/ Probe(g) \/ Reclaim(g) \/ Remake(g)
  \/ Record(g) \/ Snapshot(g) \/ Step(g) \/ Judge(g) \/ Exit(g)

Environment ==
  \/ \E g \in Gates : Mkdir(g) \/ Kill(g) \/ Signal(g) \/ Reuse(g)
  \/ RemoveByHand
  \/ Move

Next == (\E g \in Gates : Script(g)) \/ Environment

Spec == Init /\ [][Next]_vars

(***************************************************************************)
(* A launched shell, one past its first mkdir, goes on to its next         *)
(* command, and every make step returns.  Launches, kills, signals and     *)
(* edits owe nothing.                                                      *)
(***************************************************************************)
Fairness == \A g \in Gates : WF_vars(Script(g))
FairSpec == Spec /\ Fairness

-----------------------------------------------------------------------------
(* Properties.                                                             *)

TypeOK ==
  /\ pc \in [Gates -> Pcs]
  /\ dir \in Gates \cup {None}
  /\ pid \in Gates \cup {None}
  /\ holder \in [Gates -> Gates \cup {None}]
  /\ tree \in Trees
  /\ start \in [Gates -> Trees \cup {None}]
  /\ done \in [Gates -> 0..NSteps]
  /\ red \in [Gates -> BOOLEAN]
  /\ verdict \in [Gates -> {"none", "refused", "void", "failed", "pass"}]
  /\ revoked \subseteq Gates
  /\ mixed \in [Gates -> BOOLEAN]
  /\ moved \in [Gates -> 0..2]
  /\ signalled \in BOOLEAN
  /\ upsets \in 0..MaxUpsets
  /\ reused \subseteq Gates

(***************************************************************************)
(* A gate that runs and was not revoked is the one that made the lock      *)
(* directory, so at most one gate that nobody robbed believes the tree is  *)
(* its own (mkdir, the reclaim and the second mkdir, lines 33 to 38).      *)
(***************************************************************************)
UnrobbedGateOwnsTheLock == \A g \in Inside \ revoked : dir = g

\* A gate that took the lock and has left it: by its end, by HUP or killed.
Departed == {g \in Gates : pc[g] = "dead" \/ (pc[g] = "ended" /\ verdict[g] # "refused")}

(***************************************************************************)
(* As long as no gate that took the lock has departed and none was         *)
(* signalled, one gate runs at a time: a live holder is never mistaken for *)
(* a dead one, an absent pid never for a dead pid (lines 34 to 44).        *)
(***************************************************************************)
ExclusiveUntilADeparture ==
  ~signalled /\ Departed = {} => \A g, h \in Inside : g = h

(***************************************************************************)
(* What run-gate.sh promises at lines 10 to 12 and CONVENTIONS.md repeats: *)
(* a second gate is refused while the first lives.                         *)
(***************************************************************************)
OneGateAtATime == \A g, h \in Inside : g = h

(***************************************************************************)
(* A gate about to reclaim a lock that still names the holder it read      *)
(* removes no live gate's lock: what a reclaim can rob was taken after the *)
(* pid was read, or named by a robbed gate (lines 34 to 37).               *)
(***************************************************************************)
UnchangedLockIsFreeToReclaim ==
  \A g \in Gates :
    pc[g] = "reclaim" /\ dir # None /\ pid = holder[g] /\ pid \notin revoked => Gone(dir)

(***************************************************************************)
(* A lock left behind was made by a gate killed before its trap could run: *)
(* no gate that reached an end of its own, refused, void, failed, passed   *)
(* or hung up, leaves one.                                                 *)
(***************************************************************************)
LeftoverOnlyFromTheKilled == dir # None => dir \in Inside \/ pc[dir] = "dead"

(***************************************************************************)
(* A gate that started on a clean tree and passed judged one tree, unless  *)
(* the tree moved away and back, two moves at least (lines 49 to 77).      *)
(***************************************************************************)
PassJudgedOneTree ==
  \A g \in Gates :
    pc[g] = "exit" /\ verdict[g] = "pass" /\ start[g].head = start[g].work /\ moved[g] < 2 => ~mixed[g]

(***************************************************************************)
(* Every launched gate ends: it never waits for the holder of the lock.    *)
(***************************************************************************)
EveryGateEnds == \A g \in Gates : pc[g] \in {"read", "record"} ~> Gone(g)

(***************************************************************************)
(* A gate about to read a lock whose recorded holder was killed clears it: *)
(* that pid is gone from the lock sooner or later, unless the gate itself  *)
(* is killed or the pid now answers for another process.                   *)
(***************************************************************************)
KilledHoldersLockIsReclaimed ==
  \A g, h \in Gates :
    pc[g] = "read" /\ pid = h /\ pc[h] = "dead" ~> pid # h \/ pc[g] = "dead" \/ h \in reused
=============================================================================
