------------------------------ MODULE Release ------------------------------
(***************************************************************************)
(* tools/release.sh: `make release` in the clones of one project, against  *)
(* one remote.  A release judges HEAD's CI, counts the month's tags to     *)
(* number itself, lets the project's bump write the version, and commits,  *)
(* tags and pushes.  Every command may fail, a signal may land between     *)
(* two of them, and developers commit, edit and push meanwhile.            *)
(*                                                                         *)
(* One month is modelled, so a version is its patch number.  A commit is   *)
(* its position in `log`, the commits made so far in any clone; a branch   *)
(* is the sequence of its commits, oldest first.                           *)
(***************************************************************************)
EXTENDS Naturals, FiniteSets, Sequences, SequencesExt

CONSTANTS
  Clones,      \* the clones `make release` runs in
  TagBody,     \* whether RELEASE_TAG_BODY names a target that prints the tag's annotation
  MaxCommits,  \* bound: commits made
  MaxRuns,     \* bound: releases begun
  MaxUpsets    \* bound: failed commands, signals and kills, edits and commits under a release

ASSUME TagBodyAssumption == TagBody \in BOOLEAN
ASSUME CommitsAssumption == MaxCommits \in Nat \ {0}
ASSUME RunsAssumption == MaxRuns \in Nat
ASSUME UpsetsAssumption == MaxUpsets \in Nat

VARIABLES
  pc,        \* pc[c]: the command c's release executes next, or how it ended
  dry,       \* dry[c]: DRY_RUN
  version,   \* version[c]: $version
  committed, \* committed[c]: $committed
  edited,    \* edited[c]: files whose working copy differs from the index
  staged,    \* staged[c]: files whose index entry differs from HEAD
  main,      \* main[c]: c's branch main, checked out
  tags,      \* tags[c]: c's tags, as <<version, commit>>
  log,       \* log[i]: what commit i is
  ci,        \* ci[i]: what became of the workflow's run on commit i
  remoteMain, remoteTags,
  meddled,   \* history: someone edited or committed in a clone under its release
  broken,    \* history: a release stopped between its commit and the end of its push
  runs, upsets

treeVars   == <<edited, staged>>
repoVars   == <<main, tags, log>>
remoteVars == <<ci, remoteMain, remoteTags>>
histVars   == <<meddled, broken, runs>>
vars == <<pc, dry, version, committed, treeVars, repoVars, remoteVars, histVars, upsets>>

(***************************************************************************)
(* The files a release can meet: the notes, what RELEASE_FILES lists (a    *)
(* tracked file, and a new one under a listed directory), and others.      *)
(***************************************************************************)
New     == {"listedNew", "otherNew"}
Listed  == {"listed", "listedNew"}
Files   == {"notes", "other"} \cup Listed \cup New
Allowed == {"notes"} \cup Listed

Versions == 0..MaxCommits
Commits  == 1..MaxCommits
Kinds    == {"code", "docs", "release"}
CiStates == {"not run", "in_progress", "success", "failure"}
Ended    == {"declined", "refused", "rehearsed", "released", "uncommitted", "untagged", "unpushed", "killed"}
Trapped  == {"file", "bump", "check", "add", "commit", "tag", "push"}
Running  == {"fetch", "number"} \cup Trapped

HEAD(c) == Last(main[c])
Clean(c) == edited[c] = {} /\ staged[c] = {}
TagsOf(v, ts) == {t \in ts : t[1] = v}

(***************************************************************************)
(* The state of the workflow for the branch: its run on HEAD or, where it  *)
(* did not run on HEAD, its newest run before, as long as what changed     *)
(* since is only what RELEASE_CI_IGNORED lists.  The script asks the diff  *)
(* from that commit to HEAD; here no commit undoes another one, so that    *)
(* each commit since then shows in it.                                     *)
(***************************************************************************)
JudgedBy(branch) ==
  LET ran == {k \in DOMAIN branch : ci[branch[k]] # "not run"}
      latest == Max(ran)
  IN  IF /\ ran # {}
         /\ \A k \in DOMAIN branch : k > latest => log[branch[k]].kind = "docs"
      THEN ci[branch[latest]]
      ELSE "not run"

Init ==
  /\ pc = [c \in Clones |-> "idle"]
  /\ dry = [c \in Clones |-> FALSE]
  /\ version = [c \in Clones |-> 0]
  /\ committed = [c \in Clones |-> FALSE]
  /\ edited = [c \in Clones |-> {}] /\ staged = [c \in Clones |-> {}]
  /\ main = [c \in Clones |-> <<1>>]
  /\ tags = [c \in Clones |-> {}]
  /\ log = <<[kind |-> "code", version |-> 0, onto |-> <<>>, files |-> {}]>>
  /\ ci = [i \in Commits |-> IF i = 1 THEN "in_progress" ELSE "not run"]
  /\ remoteMain = <<1>> /\ remoteTags = {}
  /\ meddled = FALSE /\ broken = FALSE
  /\ runs = 0 /\ upsets = 0

Goto(c, label) == pc' = [pc EXCEPT ![c] = label]
Upset == upsets < MaxUpsets /\ upsets' = upsets + 1
\* A command fails: because it must, or for a reason of its own.
Fails(forced) == (forced /\ UNCHANGED upsets) \/ Upset

\* Of a release's commit: the version in its message, and the files it took from the index.
NewCommit(kind, v, branch, files) ==
  /\ Len(log) < MaxCommits
  /\ log' = Append(log, [kind |-> kind, version |-> v, onto |-> branch, files |-> files])

(***************************************************************************)
(* What restore() leaves of the files that differ: git checkout -- . takes *)
(* the tracked ones back to the index, git clean removes those that are    *)
(* new under RELEASE_FILES.  After the commit it does nothing.             *)
(***************************************************************************)
RestoreOnlyTracked(c, files) == IF committed[c] THEN files ELSE files \cap New
Restored(c, files) == IF committed[c] THEN files ELSE files \cap (New \ Listed)

\* The script ends before its commit, or by a failure after it: the EXIT trap restores.
Stop(c, end, files) ==
  /\ edited' = [edited EXCEPT ![c] = Restored(c, files)]
  /\ Goto(c, end)

-----------------------------------------------------------------------------
(* The script.                                                             *)

(***************************************************************************)
(* The guards: a clean tree, then the workflow's state on HEAD.            *)
(***************************************************************************)
BeginOnAnyRun(c) ==
  /\ pc[c] = "idle" /\ runs < MaxRuns
  /\ runs' = runs + 1
  /\ \E d \in BOOLEAN : dry' = [dry EXCEPT ![c] = d]
  /\ Goto(c, IF Clean(c) /\ (\E k \in DOMAIN main[c] : ci[main[c][k]] = "success")
             THEN "fetch" ELSE "declined")
  /\ UNCHANGED <<version, committed, treeVars, repoVars, remoteVars, meddled, broken, upsets>>

Begin(c) ==
  /\ pc[c] = "idle" /\ runs < MaxRuns
  /\ runs' = runs + 1
  /\ \E d \in BOOLEAN : dry' = [dry EXCEPT ![c] = d]
  /\ Goto(c, IF Clean(c) /\ JudgedBy(main[c]) = "success" THEN "fetch" ELSE "declined")
  /\ UNCHANGED <<version, committed, treeVars, repoVars, remoteVars, meddled, broken, upsets>>

(***************************************************************************)
(* git fetch --tags, then the prechecks; a dry run does neither.  A tag    *)
(* of the same name elsewhere fails the fetch, which takes the other tags; *)
(* one that is cut short takes some.  The trap is not set yet.             *)
(***************************************************************************)
Fetch(c) ==
  /\ pc[c] = "fetch"
  /\ LET fresh == {t \in remoteTags : TagsOf(t[1], tags[c]) = {}}
         clash == \E t \in remoteTags : ~(TagsOf(t[1], tags[c]) \subseteq {t})
     IN  \/ /\ dry[c]
            /\ Goto(c, "number") /\ UNCHANGED <<tags, upsets>>
         \/ /\ ~dry[c] /\ ~clash
            /\ tags' = [tags EXCEPT ![c] = @ \cup remoteTags]
            /\ Goto(c, "number") /\ UNCHANGED upsets
         \/ /\ ~dry[c]
            /\ \E got \in SUBSET fresh : /\ (clash /\ got = fresh /\ UNCHANGED upsets) \/ Upset
                                        /\ tags' = [tags EXCEPT ![c] = @ \cup got]
            /\ Goto(c, "refused")
  /\ UNCHANGED <<dry, version, committed, treeVars, main, log, remoteVars, histVars>>

(***************************************************************************)
(* The patch is the count of the month's tags.  A tag of that name refuses,*)
(* and so does an empty '## Unreleased', as every release leaves it.       *)
(***************************************************************************)
NumberFromOne(c) ==
  /\ pc[c] = "number"
  /\ LET v == Cardinality({t[1] : t \in tags[c]}) + 1
     IN  /\ version' = [version EXCEPT ![c] = v]
         /\ Goto(c, IF TagsOf(v, tags[c]) = {} THEN "file" ELSE "refused")
  /\ UNCHANGED <<dry, committed, treeVars, repoVars, remoteVars, histVars, upsets>>

Number(c) ==
  /\ pc[c] = "number"
  /\ LET v == Cardinality({t[1] : t \in tags[c]})
     IN  /\ version' = [version EXCEPT ![c] = v]
         /\ \/ /\ TagsOf(v, tags[c]) = {} /\ log[HEAD(c)].kind # "release"
               /\ Goto(c, "file")
            \/ Goto(c, "refused")
  /\ UNCHANGED <<dry, committed, treeVars, repoVars, remoteVars, histVars, upsets>>

\* The notes' entries are filed under the version; nobody looks whether awk and mv did.
File(c) ==
  /\ pc[c] = "file"
  /\ \/ edited' = [edited EXCEPT ![c] = @ \cup {"notes"}] /\ UNCHANGED upsets
     \/ Upset /\ UNCHANGED edited
  /\ Goto(c, "bump")
  /\ UNCHANGED <<dry, version, committed, staged, repoVars, remoteVars, histVars>>

(***************************************************************************)
(* The project's bump writes the version into the listed files, or finds   *)
(* it there, and may touch others; or it fails half way.                   *)
(***************************************************************************)
Bump(c) ==
  /\ pc[c] = "bump"
  /\ \E touched \in {{}, Listed, Files \ {"notes"}} :
       \/ /\ edited' = [edited EXCEPT ![c] = @ \cup touched]
          /\ Goto(c, "check") /\ UNCHANGED upsets
       \/ Upset /\ Stop(c, "refused", edited[c] \cup touched)
  /\ UNCHANGED <<dry, version, committed, staged, repoVars, remoteVars, histVars>>

(***************************************************************************)
(* A change outside the notes and RELEASE_FILES refuses, as does an empty  *)
(* annotation or a failing target.  The annotation is the notes' section,  *)
(* which is not there when it was not filed or a signal restored the       *)
(* notes; or what RELEASE_TAG_BODY's target prints, which nothing ties to  *)
(* the notes.  A dry run ends here.                                        *)
(***************************************************************************)
Check(c) ==
  /\ pc[c] = "check"
  /\ LET fine == edited[c] \cup staged[c] \subseteq Allowed /\ (TagBody \/ "notes" \in edited[c])
     IN  \/ fine /\ ~dry[c] /\ Goto(c, "add") /\ UNCHANGED <<edited, upsets>>
         \/ fine /\ dry[c] /\ Stop(c, "rehearsed", edited[c]) /\ UNCHANGED upsets
         \/ Fails(~fine) /\ Stop(c, "refused", edited[c])
  /\ UNCHANGED <<dry, version, committed, staged, repoVars, remoteVars, histVars>>

\* git add -A -- notes files
AddEverything(c) ==
  /\ pc[c] = "add"
  /\ staged' = [staged EXCEPT ![c] = @ \cup edited[c]]
  /\ edited' = [edited EXCEPT ![c] = {}]
  /\ Goto(c, "commit")
  /\ UNCHANGED <<dry, version, committed, repoVars, remoteVars, histVars, upsets>>

Add(c) ==
  /\ pc[c] = "add"
  /\ \/ /\ staged' = [staged EXCEPT ![c] = @ \cup (edited[c] \cap Allowed)]
        /\ edited' = [edited EXCEPT ![c] = @ \ Allowed]
        /\ Goto(c, "commit") /\ UNCHANGED upsets
     \/ Upset /\ Stop(c, "refused", edited[c]) /\ UNCHANGED staged
  /\ UNCHANGED <<dry, version, committed, repoVars, remoteVars, histVars>>

\* git commit, which fails with nothing staged, and may fail on a hook or a signature.
Commit(c) ==
  /\ pc[c] = "commit"
  /\ \/ /\ staged[c] # {}
        /\ NewCommit("release", version[c], main[c], staged[c])
        /\ main' = [main EXCEPT ![c] = Append(@, Len(log) + 1)]
        /\ staged' = [staged EXCEPT ![c] = {}]
        /\ committed' = [committed EXCEPT ![c] = TRUE]
        /\ Goto(c, "tag") /\ UNCHANGED <<edited, upsets>>
     \/ /\ Fails(staged[c] = {})
        /\ Stop(c, "uncommitted", edited[c]) /\ UNCHANGED <<main, log, staged, committed>>
  /\ UNCHANGED <<dry, version, tags, remoteVars, histVars>>

Tag(c) ==
  /\ pc[c] = "tag"
  /\ \/ /\ TagsOf(version[c], tags[c]) = {}
        /\ tags' = [tags EXCEPT ![c] = @ \cup {<<version[c], HEAD(c)>>}]
        /\ Goto(c, "push") /\ UNCHANGED <<broken, upsets>>
     \/ /\ Fails(TagsOf(version[c], tags[c]) # {})
        /\ broken' = TRUE /\ Goto(c, "untagged") /\ UNCHANGED tags
  /\ UNCHANGED <<dry, version, committed, treeVars, main, log, remoteVars, meddled, runs>>

(***************************************************************************)
(* git push remote HEAD v<version>.  The remote judges each ref on its     *)
(* own: the branch when it is fast-forwarded, the tag when the name is     *)
(* free or names the same commit.                                          *)
(***************************************************************************)
Taken(c) ==
  {r \in {"main", "tag"} :
     \/ r = "main" /\ IsPrefix(remoteMain, main[c])
     \/ r = "tag" /\ TagsOf(version[c], remoteTags) \subseteq tags[c]}

Receive(c, refs) ==
  /\ remoteMain' = IF "main" \in refs THEN main[c] ELSE remoteMain
  /\ remoteTags' = IF "tag" \in refs
                   THEN (remoteTags \ TagsOf(version[c], remoteTags))
                          \cup TagsOf(version[c], tags[c])
                   ELSE remoteTags
  /\ ci' = IF "main" \in refs /\ ci[HEAD(c)] = "not run" /\ log[HEAD(c)].kind # "docs"
           THEN [ci EXCEPT ![HEAD(c)] = "in_progress"] ELSE ci

(***************************************************************************)
(* The push fails when a ref is refused or the connection breaks, with     *)
(* what the remote took before done.                                       *)
(***************************************************************************)
PushUnchecked(c) ==
  /\ pc[c] = "push"
  /\ Receive(c, Taken(c)) /\ Goto(c, "released")
  /\ UNCHANGED <<dry, version, committed, treeVars, repoVars, histVars, upsets>>

PushForced(c) ==
  /\ pc[c] = "push"
  /\ Receive(c, {"main", "tag"}) /\ Goto(c, "released")
  /\ UNCHANGED <<dry, version, committed, treeVars, repoVars, histVars, upsets>>

Push(c) ==
  /\ pc[c] = "push"
  /\ \/ /\ Taken(c) = {"main", "tag"} /\ Receive(c, Taken(c))
        /\ Goto(c, "released") /\ UNCHANGED <<broken, upsets>>
     \/ /\ \/ Taken(c) # {"main", "tag"} /\ Receive(c, Taken(c)) /\ UNCHANGED upsets
           \/ Upset /\ \E refs \in SUBSET Taken(c) : Receive(c, refs)
        /\ broken' = TRUE /\ Goto(c, "unpushed")
  /\ UNCHANGED <<dry, version, committed, treeVars, repoVars, meddled, runs>>

-----------------------------------------------------------------------------
(* The environment.                                                        *)

(***************************************************************************)
(* HUP, INT, PIPE or TERM.  Before the trap it ends the shell; after, bash *)
(* runs restore and goes on with the next command.                         *)
(***************************************************************************)
Signal(c) ==
  /\ Upset
  /\ \/ pc[c] \in Running \ Trapped /\ Goto(c, "refused") /\ UNCHANGED edited
     \/ pc[c] \in Trapped /\ Stop(c, pc[c], edited[c])
  /\ UNCHANGED <<dry, version, committed, staged, repoVars, remoteVars, histVars>>

Kill(c) ==
  /\ pc[c] \in Running
  /\ Upset
  /\ Goto(c, "killed")
  /\ broken' = (broken \/ pc[c] \in {"tag", "push"})
  /\ UNCHANGED <<dry, version, committed, treeVars, repoVars, remoteVars, meddled, runs>>

\* A developer edits a tracked file of the clone, or commits there what the index holds.
Meddle(c) ==
  /\ pc[c] \in Running
  /\ Upset
  /\ meddled' = TRUE
  /\ \/ \E f \in {"listed", "other"} : edited' = [edited EXCEPT ![c] = @ \cup {f}]
        /\ UNCHANGED <<staged, main, log>>
     \/ /\ NewCommit("code", 0, main[c], {})
        /\ main' = [main EXCEPT ![c] = Append(@, Len(log) + 1)]
        /\ staged' = [staged EXCEPT ![c] = {}] /\ UNCHANGED edited
  /\ UNCHANGED <<pc, dry, version, committed, tags, remoteVars, broken, runs>>

\* The release is over, its shell variables with it; the developer sees to the clone
\* (bound: as long as another release may begin somewhere).
Return(c) ==
  /\ pc[c] \in Ended /\ runs < MaxRuns
  /\ Goto(c, "idle")
  /\ dry' = [dry EXCEPT ![c] = FALSE]
  /\ version' = [version EXCEPT ![c] = 0]
  /\ committed' = [committed EXCEPT ![c] = FALSE]
  /\ UNCHANGED <<treeVars, repoVars, remoteVars, histVars, upsets>>

\* The clone is brought to the remote's main, the tags on it coming along where the name is free.
Sync(c) ==
  /\ pc[c] = "idle" /\ runs < MaxRuns
  /\ edited' = [edited EXCEPT ![c] = {}] /\ staged' = [staged EXCEPT ![c] = {}]
  /\ main' = [main EXCEPT ![c] = remoteMain]
  /\ tags' = [tags EXCEPT ![c] = @ \cup {t \in remoteTags : /\ t[2] \in Range(remoteMain)
                                                          /\ TagsOf(t[1], @) = {}}]
  /\ UNCHANGED <<pc, dry, version, committed, log, remoteVars, histVars, upsets>>

\* Another developer's change reaches the remote's main; the workflow skips documents.
Change ==
  /\ \E kind \in {"code", "docs"} :
       /\ NewCommit(kind, 0, remoteMain, {})
       /\ ci' = IF kind = "code" THEN [ci EXCEPT ![Len(log) + 1] = "in_progress"] ELSE ci
  /\ remoteMain' = Append(remoteMain, Len(log) + 1)
  /\ UNCHANGED <<pc, dry, version, committed, treeVars, main, tags, remoteTags, histVars, upsets>>

CiFinish(i) ==
  /\ ci[i] = "in_progress"
  /\ \E outcome \in {"success", "failure"} : ci' = [ci EXCEPT ![i] = outcome]
  /\ UNCHANGED <<pc, dry, version, committed, treeVars, repoVars, remoteMain, remoteTags, histVars, upsets>>

Script(c) ==
  \/ Begin(c) \/ Fetch(c) \/ Number(c) \/ File(c) \/ Bump(c) \/ Check(c)
  \/ Add(c) \/ Commit(c) \/ Tag(c) \/ Push(c)

Next ==
  \/ \E c \in Clones : Script(c) \/ Signal(c) \/ Kill(c) \/ Meddle(c) \/ Return(c) \/ Sync(c)
  \/ Change
  \/ \E i \in Commits : CiFinish(i)

Spec == Init /\ [][Next]_vars

-----------------------------------------------------------------------------
(* Properties.                                                             *)

Branches == Seq(Commits)
Releases == {i \in DOMAIN log : log[i].kind = "release"}

TypeOK ==
  /\ pc \in [Clones -> {"idle"} \cup Running \cup Ended]
  /\ dry \in [Clones -> BOOLEAN] /\ committed \in [Clones -> BOOLEAN]
  /\ version \in [Clones -> Versions]
  /\ edited \in [Clones -> SUBSET Files] /\ staged \in [Clones -> SUBSET Allowed]
  /\ main \in [Clones -> Branches] /\ remoteMain \in Branches
  /\ tags \in [Clones -> SUBSET (Versions \X Commits)] /\ remoteTags \subseteq Versions \X Commits
  /\ log \in Seq([kind : Kinds, version : Versions, onto : Branches, files : SUBSET Files])
  /\ ci \in [Commits -> CiStates]
  /\ meddled \in BOOLEAN /\ broken \in BOOLEAN
  /\ runs \in 0..MaxRuns /\ upsets \in 0..MaxUpsets

(***************************************************************************)
(* A release commit goes on a branch whose CI is green (lines 74 to 91),   *)
(* whatever ran or was pushed between the check and the commit, unless     *)
(* someone worked in the clone meanwhile.                                  *)
(***************************************************************************)
ReleasedOnGreen ==
  ~meddled => \A i \in Releases : JudgedBy(log[i].onto) = "success"

(***************************************************************************)
(* The remote is a register, whatever two clones that cut one version and  *)
(* the developers push: a tag that is published stays and is its version's *)
(* only one, and main is never rewound (line 173 pushes without force).    *)
(***************************************************************************)
Remote == INSTANCE RemoteRegister WITH history <- remoteMain, tags <- remoteTags

RemoteIsARegister == Remote!Spec

(***************************************************************************)
(* While every release that committed also finished its push, the k-th     *)
(* release on the remote's main is number k - 1 and the remote's tags are  *)
(* those of its releases, however the releases of two clones interleave    *)
(* (lines 105 to 110 and 166 to 173).                                      *)
(***************************************************************************)
ReleasesUpTo(branch, k) == {j \in 1..k : branch[j] \in Releases}

MainNumbersItsReleases ==
  ~broken /\ ~meddled =>
    /\ \A k \in DOMAIN remoteMain : remoteMain[k] \in Releases =>
         log[remoteMain[k]].version = Cardinality(ReleasesUpTo(remoteMain, k - 1))
    /\ remoteTags = {<<log[i].version, i>> : i \in Releases \cap Range(remoteMain)}

\* The release's commit holds its section filed in the notes, and what the bump wrote whole or not at all.
Complete(i) == "notes" \in log[i].files /\ Listed \cap log[i].files \in {{}, Listed}

(***************************************************************************)
(* A release that reports success is whole: the remote has its tag, and    *)
(* the tagged commit, which is named for that version, is on its main.     *)
(* Where the annotation is the notes' section, that commit holds the       *)
(* section and no half of a bump, though a step that fails or a signal may *)
(* have undone them before the commit (lines 115 to 168).  Where a target  *)
(* prints the annotation nothing looks whether the notes were filed (lines *)
(* 125, 126 and 145), against lines 27 and 28.                             *)
(***************************************************************************)
SuccessIsWhole ==
  ~meddled => \A c \in Clones : pc[c] = "released" =>
    \E i \in Releases : /\ <<version[c], i>> \in remoteTags
                        /\ i \in Range(remoteMain) /\ log[i].version = version[c]
                        /\ TagBody \/ Complete(i)

(***************************************************************************)
(* A refusal and a rehearsal leave no change in the tree but new files     *)
(* outside RELEASE_FILES (restore, lines 116 to 122), also when signals    *)
(* restored the tree half way and the script went on.                      *)
(***************************************************************************)
RefusalRestores ==
  ~meddled => \A c \in Clones : pc[c] \in {"refused", "rehearsed"} =>
    staged[c] = {} /\ edited[c] \subseteq New \ Listed
=============================================================================
