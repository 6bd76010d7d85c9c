--------------------------- MODULE ReleaseProofs ---------------------------
(***************************************************************************)
(* What tools/release.sh guarantees for any number of clones, commits,     *)
(* releases and upsets.                                                    *)
(***************************************************************************)
EXTENDS Release, FiniteSetTheorems, TLAPS

-----------------------------------------------------------------------------
(* Typing.  A branch holds commits made so far, and a tag is named by a    *)
(* release commit: without that the count of the tags, which numbers the   *)
(* next release, would not keep its range.                                 *)

Born  == 1..Len(log)
Names == {log[i].version : i \in Releases}
Entry == [kind : Kinds, version : Versions, onto : Branches, files : SUBSET Files]

BranchTypes ==
  /\ Len(log) \in 1..MaxCommits
  /\ \A i \in Born : log[i].onto \in Seq(Born)
  /\ remoteMain \in Seq(Born) /\ remoteMain # <<>>
  /\ \A c \in Clones : main[c] \in Seq(Born) /\ main[c] # <<>>

NameTypes ==
  /\ \A t \in remoteTags : t[1] \in Names
  /\ \A c \in Clones : \A t \in tags[c] : t[1] \in Names
  /\ \A c \in Clones : pc[c] \in {"tag", "push"} => version[c] \in Names

Typed == TypeOK /\ BranchTypes /\ NameTypes

(***************************************************************************)
(* A commit of the log stays as it was made.                               *)
(***************************************************************************)
LogGrows ==
  /\ Len(log') \in Nat /\ Len(log) <= Len(log') /\ Len(log') <= MaxCommits
  /\ \A i \in Born : log'[i] = log[i]

LEMMA LogType ==
  ASSUME Typed
  PROVE  /\ log \in Seq(Entry) /\ Len(log) \in Nat /\ DOMAIN log = Born
         /\ Len(log) >= 1 /\ Len(log) <= MaxCommits
         /\ \A i \in Born : log[i] \in Entry
         /\ Born \subseteq Commits
<1>1. log \in Seq(Entry)
  BY DEF Typed, TypeOK, Entry
<1>2. Len(log) \in 1..MaxCommits
  BY DEF Typed, BranchTypes
<1>3. QED
  BY <1>1, <1>2, CommitsAssumption DEF Born, Commits

LEMMA BranchType ==
  ASSUME NEW n \in Nat, NEW b \in Seq(1..n), b # <<>>
  PROVE  /\ Len(b) \in Nat /\ Len(b) >= 1 /\ DOMAIN b = 1..Len(b)
         /\ \A k \in 1..Len(b) : b[k] \in 1..n
         /\ Last(b) = b[Len(b)] /\ Last(b) \in 1..n
  BY DEF Last

LEMMA NewCommitGrows ==
  ASSUME Typed, NEW kind \in Kinds, NEW v \in Versions, NEW b \in Seq(Born), NEW f \in SUBSET Files,
             NewCommit(kind, v, b, f)
  PROVE  /\ LogGrows
         /\ Len(log') = Len(log) + 1
         /\ log'[Len(log) + 1] = [kind |-> kind, version |-> v, onto |-> b, files |-> f]
         /\ log' \in Seq(Entry)
<1>1. Len(log) < MaxCommits /\ log' = Append(log, [kind |-> kind, version |-> v, onto |-> b, files |-> f])
  BY DEF NewCommit
<1>2. b \in Branches
  BY LogType DEF Branches, Born
<1>3. [kind |-> kind, version |-> v, onto |-> b, files |-> f] \in Entry
  BY <1>2 DEF Entry
<1>4. QED
  BY <1>1, <1>3, LogType, CommitsAssumption DEF LogGrows, Born

LEMMA LogStays ==
  ASSUME Typed, UNCHANGED log
  PROVE  LogGrows
  BY LogType DEF LogGrows

LEMMA CloneType ==
  ASSUME Typed, NEW c \in Clones
  PROVE  /\ main[c] \in Seq(Born) /\ main[c] # <<>>
         /\ HEAD(c) = main[c][Len(main[c])] /\ HEAD(c) \in Born
         /\ version[c] \in Versions
         /\ tags[c] \subseteq Versions \X Commits
         /\ staged[c] \in SUBSET Files
<1>0. staged[c] \in SUBSET Files
  BY DEF Typed, TypeOK, Allowed, Files
<1>1. main[c] \in Seq(Born) /\ main[c] # <<>>
  BY DEF Typed, BranchTypes
<1>2. HEAD(c) = main[c][Len(main[c])] /\ HEAD(c) \in Born
  BY <1>1, LogType, BranchType DEF HEAD, Born
<1>3. QED
  BY <1>0, <1>1, <1>2 DEF Typed, TypeOK

(***************************************************************************)
(* Only a release's commit, a developer's and a change pushed elsewhere    *)
(* make a commit, each on top of the branch it goes on.                    *)
(***************************************************************************)
LEMMA OnlyThreeCommit ==
  ASSUME Typed, Next
  PROVE  /\ LogGrows
         /\ log' \in Seq(Entry)
         /\ \A i \in Len(log) + 1..Len(log') : log'[i].onto \in Seq(Born)
<1> DEFINE New1 == \A i \in Len(log) + 1..Len(log') : log'[i].onto \in Seq(Born)
<1>0. ASSUME NEW kind \in Kinds, NEW v \in Versions, NEW b \in Seq(Born), NEW f \in SUBSET Files,
             NewCommit(kind, v, b, f)
      PROVE  LogGrows /\ log' \in Seq(Entry) /\ New1
  <2>0. /\ log'[Len(log) + 1] = [kind |-> kind, version |-> v, onto |-> b, files |-> f]
        /\ Len(log') = Len(log) + 1
    BY <1>0, NewCommitGrows
  <2>1. log'[Len(log) + 1].onto = b /\ Len(log') = Len(log) + 1
    BY <2>0
  <2>2. New1
    BY <2>1, LogType
  <2>3. QED
    BY <1>0, <2>2, NewCommitGrows
<1>1. CASE UNCHANGED log
  BY <1>1, LogStays, LogType
<1>2. "release" \in Kinds /\ "code" \in Kinds /\ "docs" \in Kinds /\ 0 \in Versions
      /\ {} \in SUBSET Files
  BY CommitsAssumption DEF Kinds, Versions
<1>3. ASSUME NEW c \in Clones, Commit(c) PROVE LogGrows /\ log' \in Seq(Entry) /\ New1
  <2>1. UNCHANGED log \/ NewCommit("release", version[c], main[c], staged[c])
    BY <1>3 DEF Commit
  <2>2. QED
    BY <2>1, <1>0, <1>1, <1>2, CloneType
<1>4. ASSUME NEW c \in Clones, Meddle(c) PROVE LogGrows /\ log' \in Seq(Entry) /\ New1
  <2>1. UNCHANGED log \/ NewCommit("code", 0, main[c], {})
    BY <1>4 DEF Meddle
  <2>2. QED
    BY <2>1, <1>0, <1>1, <1>2, CloneType
<1>5. CASE Change
  <2>1. remoteMain \in Seq(Born)
    BY DEF Typed, BranchTypes
  <2>2. \E kind \in {"code", "docs"} : NewCommit(kind, 0, remoteMain, {})
    BY <1>5 DEF Change
  <2>3. QED
    BY <2>1, <2>2, <1>0, <1>2
<1>6. ASSUME NEW c \in Clones,
             Begin(c) \/ Fetch(c) \/ Number(c) \/ File(c) \/ Bump(c) \/ Check(c) \/ Add(c)
             \/ Tag(c) \/ Push(c) \/ Signal(c) \/ Kill(c) \/ Return(c) \/ Sync(c)
      PROVE  UNCHANGED log
  BY <1>6 DEF Begin, Fetch, Number, File, Bump, Check, Add, Tag, Push, Signal, Kill, Return, Sync,
              repoVars
<1>7. ASSUME NEW i \in Commits, CiFinish(i) PROVE UNCHANGED log
  BY <1>7 DEF CiFinish, repoVars
<1>8. QED
  BY <1>1, <1>3, <1>4, <1>5, <1>6, <1>7 DEF Next, Script

LEMMA BranchLasts ==
  ASSUME Typed, LogGrows, NEW b \in Seq(Born)
  PROVE  b \in Seq(Born')
  BY LogType DEF LogGrows, Born

(***************************************************************************)
(* A clone under another's step.                                           *)
(***************************************************************************)
local(c) == <<pc[c], dry[c], version[c], committed[c], edited[c], staged[c], main[c], tags[c]>>

StepOf(c) == Script(c) \/ Signal(c) \/ Kill(c) \/ Meddle(c) \/ Return(c) \/ Sync(c)

LEMMA OthersStand ==
  ASSUME Typed, NEW c \in Clones, NEW d \in Clones, d # c, StepOf(c)
  PROVE  UNCHANGED local(d)
<1> USE DEF Typed, TypeOK, local
<1>1. CASE Begin(c) \/ Fetch(c) \/ Number(c)
  BY <1>1 DEF Begin, Fetch, Number, Goto, treeVars, repoVars
<1>2. CASE File(c) \/ Bump(c) \/ Check(c) \/ Add(c)
  BY <1>2 DEF File, Bump, Check, Add, Goto, Stop, treeVars, repoVars
<1>3. CASE Commit(c)
  BY <1>3 DEF Commit, Goto, Stop
<1>4. CASE Tag(c) \/ Push(c)
  BY <1>4 DEF Tag, Push, Goto, treeVars, repoVars
<1>5. CASE Signal(c) \/ Kill(c) \/ Return(c)
  BY <1>5 DEF Signal, Kill, Return, Goto, Stop, treeVars, repoVars
<1>6. CASE Meddle(c) \/ Sync(c)
  BY <1>6 DEF Meddle, Sync
<1>7. QED
  BY <1>1, <1>2, <1>3, <1>4, <1>5, <1>6 DEF StepOf, Script

(***************************************************************************)
(* What a push does to the remote, whichever refs it took.                 *)
(***************************************************************************)
LEMMA PushReceives ==
  ASSUME NEW c \in Clones, Push(c)
  PROVE  \E refs \in SUBSET Taken(c) :
           /\ Receive(c, refs)
           /\ \/ refs = {"main", "tag"} /\ Goto(c, "released") /\ UNCHANGED broken
              \/ broken' = TRUE /\ Goto(c, "unpushed")
<1>1. CASE /\ Taken(c) = {"main", "tag"} /\ Receive(c, Taken(c))
           /\ Goto(c, "released") /\ UNCHANGED broken
  BY <1>1
<1>2. CASE Receive(c, Taken(c)) /\ broken' = TRUE /\ Goto(c, "unpushed")
  BY <1>2
<1>3. CASE (\E refs \in SUBSET Taken(c) : Receive(c, refs)) /\ broken' = TRUE /\ Goto(c, "unpushed")
  BY <1>3
<1>4. QED
  BY <1>1, <1>2, <1>3 DEF Push

LEMMA ReceiveTakes ==
  ASSUME NEW c \in Clones, NEW refs \in SUBSET Taken(c), Receive(c, refs)
  PROVE  /\ remoteMain' = IF "main" \in refs THEN main[c] ELSE remoteMain
         /\ "main" \in refs => IsPrefix(remoteMain, main[c])
         /\ remoteTags' = IF "tag" \in refs
                          THEN remoteTags \cup TagsOf(version[c], tags[c]) ELSE remoteTags
         /\ "tag" \in refs => TagsOf(version[c], remoteTags) \subseteq TagsOf(version[c], tags[c])
<1>1. "main" \in refs => IsPrefix(remoteMain, main[c])
  BY DEF Taken
<1>2. "tag" \in refs => TagsOf(version[c], remoteTags) \subseteq tags[c]
  BY DEF Taken
<1>3. "tag" \in refs => TagsOf(version[c], remoteTags) \subseteq TagsOf(version[c], tags[c])
  BY <1>2 DEF TagsOf
<1>4. "tag" \in refs => remoteTags' = remoteTags \cup TagsOf(version[c], tags[c])
  BY <1>3 DEF Receive, TagsOf
<1>5. QED
  BY <1>1, <1>3, <1>4 DEF Receive

LEMMA PrefixOfItself ==
  ASSUME NEW S, NEW b \in Seq(S)
  PROVE  IsPrefix(b, b) /\ \A x : IsPrefix(b, Append(b, x))
  BY DEF IsPrefix

RemoteGrows == IsPrefix(remoteMain, remoteMain') /\ remoteTags \subseteq remoteTags'

LEMMA RemoteAlwaysGrows ==
  ASSUME Typed, Next
  PROVE  RemoteGrows
<1>0. remoteMain \in Seq(Born)
  BY DEF Typed, BranchTypes
<1>1. CASE UNCHANGED <<remoteMain, remoteTags>>
  BY <1>0, <1>1, PrefixOfItself DEF RemoteGrows
<1>2. ASSUME NEW c \in Clones, Push(c) PROVE RemoteGrows
  <2>1. PICK refs \in SUBSET Taken(c) : Receive(c, refs)
    BY <1>2, PushReceives
  <2>2. QED
    BY <2>1, <1>0, ReceiveTakes, PrefixOfItself DEF RemoteGrows
<1>3. CASE Change
  BY <1>0, <1>3, PrefixOfItself DEF Change, RemoteGrows
<1>4. ASSUME NEW c \in Clones, StepOf(c), ~Push(c) PROVE UNCHANGED <<remoteMain, remoteTags>>
  BY <1>4 DEF StepOf, Script, Begin, Fetch, Number, File, Bump, Check, Add, Commit, Tag, Signal,
              Kill, Meddle, Return, Sync, remoteVars
<1>5. ASSUME NEW i \in Commits, CiFinish(i) PROVE UNCHANGED <<remoteMain, remoteTags>>
  BY <1>5 DEF CiFinish
<1>6. QED
  BY <1>1, <1>2, <1>3, <1>4, <1>5 DEF Next, StepOf

(***************************************************************************)
(* The workflow runs on a new commit, on the head of a push where it never *)
(* ran and that is no document, and ends once.                             *)
(***************************************************************************)
CiMoves ==
  \A i \in Born : ci'[i] # ci[i] =>
    ci[i] = "in_progress" \/ (ci[i] = "not run" /\ log[i].kind # "docs")

LEMMA CiAlwaysMoves ==
  ASSUME Typed, Next
  PROVE  CiMoves /\ ci' \in [Commits -> CiStates]
<1>0. ci \in [Commits -> CiStates] /\ Len(log) \in Nat /\ Born \subseteq Commits
  BY LogType DEF Typed, TypeOK
<1>1. CASE UNCHANGED ci
  BY <1>0, <1>1 DEF CiMoves
<1>2. ASSUME NEW c \in Clones, Push(c) PROVE CiMoves /\ ci' \in [Commits -> CiStates]
  <2>1. PICK refs \in SUBSET Taken(c) : Receive(c, refs)
    BY <1>2, PushReceives
  <2>2. ci' = ci \/ /\ ci[HEAD(c)] = "not run" /\ log[HEAD(c)].kind # "docs"
                    /\ ci' = [ci EXCEPT ![HEAD(c)] = "in_progress"]
    BY <2>1 DEF Receive
  <2>3. ASSUME /\ ci[HEAD(c)] = "not run" /\ log[HEAD(c)].kind # "docs"
               /\ ci' = [ci EXCEPT ![HEAD(c)] = "in_progress"]
        PROVE  CiMoves
    BY <1>0, <2>3 DEF CiMoves
  <2>4. ci' \in [Commits -> CiStates]
    BY <1>0, <2>2 DEF CiStates
  <2>5. QED
    BY <1>1, <2>2, <2>3, <2>4
<1>3. CASE Change
  <2>1. ci' = ci \/ ci' = [ci EXCEPT ![Len(log) + 1] = "in_progress"]
    BY <1>3 DEF Change
  <2>2. ci' \in [Commits -> CiStates]
    BY <1>0, <2>1 DEF CiStates
  <2>3. \A i \in Born : i # Len(log) + 1
    BY <1>0 DEF Born
  <2>4. CiMoves
    BY <1>0, <2>1, <2>3 DEF CiMoves
  <2>5. QED
    BY <2>2, <2>4
<1>4. ASSUME NEW i \in Commits, CiFinish(i) PROVE CiMoves /\ ci' \in [Commits -> CiStates]
  <2>1. ci[i] = "in_progress" /\ \E outcome \in CiStates : ci' = [ci EXCEPT ![i] = outcome]
    BY <1>4 DEF CiFinish, CiStates
  <2>2. QED
    BY <1>0, <2>1 DEF CiMoves
<1>5. ASSUME NEW c \in Clones, StepOf(c), ~Push(c) PROVE UNCHANGED ci
  BY <1>5 DEF StepOf, Script, Begin, Fetch, Number, File, Bump, Check, Add, Commit, Tag, Signal,
              Kill, Meddle, Return, Sync, remoteVars
<1>6. QED
  BY <1>1, <1>2, <1>3, <1>4, <1>5 DEF Next, StepOf

(***************************************************************************)
(* The typing is inductive, a group of variables at a time.                *)
(***************************************************************************)
ControlTypes ==
  /\ pc \in [Clones -> {"idle"} \cup Running \cup Ended]
  /\ dry \in [Clones -> BOOLEAN] /\ committed \in [Clones -> BOOLEAN]
  /\ meddled \in BOOLEAN /\ broken \in BOOLEAN
  /\ runs \in 0..MaxRuns /\ upsets \in 0..MaxUpsets

LEMMA UpsetCounts ==
  ASSUME upsets \in 0..MaxUpsets, UNCHANGED upsets \/ Upset
  PROVE  upsets' \in 0..MaxUpsets
  BY UpsetsAssumption DEF Upset

LEMMA GotoTypes ==
  ASSUME pc \in [Clones -> {"idle"} \cup Running \cup Ended],
         NEW c \in Clones, NEW label \in {"idle"} \cup Running \cup Ended, Goto(c, label)
  PROVE  pc' \in [Clones -> {"idle"} \cup Running \cup Ended]
  BY DEF Goto

LEMMA ControlStep ==
  ASSUME Typed, Next
  PROVE  ControlTypes'
<1> DEFINE Pcs == {"idle"} \cup Running \cup Ended
<1>0. ControlTypes
  BY DEF Typed, TypeOK, ControlTypes
<1>1. upsets' \in 0..MaxUpsets
  <2>1. UNCHANGED upsets \/ Upset
    BY DEF Next, Script, Begin, Fetch, Number, File, Bump, Check, Add, Commit, Tag, Push, Signal,
           Kill, Meddle, Return, Sync, Change, CiFinish, Fails
  <2>2. QED
    BY <1>0, <2>1, UpsetCounts DEF ControlTypes
<1>2. runs' \in 0..MaxRuns
  <2>1. UNCHANGED runs \/ (runs < MaxRuns /\ runs' = runs + 1)
    BY DEF Next, Script, Begin, Fetch, Number, File, Bump, Check, Add, Commit, Tag, Push, Signal,
           Kill, Meddle, Return, Sync, Change, CiFinish, histVars
  <2>2. QED
    BY <1>0, <2>1, RunsAssumption DEF ControlTypes
<1>3. meddled' \in BOOLEAN /\ broken' \in BOOLEAN
  <2>1. meddled' \in {meddled, TRUE} /\ broken' \in BOOLEAN
    BY <1>0 DEF ControlTypes, Next, Script, Begin, Fetch, Number, File, Bump, Check, Add, Commit,
           Tag, Push, Signal, Kill, Meddle, Return, Sync, Change, CiFinish, histVars
  <2>2. QED
    BY <1>0, <2>1 DEF ControlTypes
<1>4. dry' \in [Clones -> BOOLEAN] /\ committed' \in [Clones -> BOOLEAN]
  BY <1>0 DEF ControlTypes, Next, Script, Begin, Fetch, Number, File, Bump, Check, Add, Commit,
         Tag, Push, Signal, Kill, Meddle, Return, Sync, Change, CiFinish
<1>5. pc' \in [Clones -> Pcs]
  <2>1. UNCHANGED pc \/ \E c \in Clones, label \in Pcs : Goto(c, label)
    <3> USE DEF Running, Trapped, Ended
    <3>1. ASSUME NEW c \in Clones, Begin(c) \/ Fetch(c) \/ Number(c) \/ File(c) \/ Bump(c)
          PROVE  \E label \in Pcs : Goto(c, label)
      BY <3>1 DEF Begin, Fetch, Number, File, Bump, Stop
    <3>2. ASSUME NEW c \in Clones, Check(c) \/ Add(c) \/ Commit(c) \/ Tag(c) \/ Push(c)
          PROVE  \E label \in Pcs : Goto(c, label)
      BY <3>2 DEF Check, Add, Commit, Tag, Push, Stop
    <3>3. ASSUME NEW c \in Clones, Signal(c) \/ Kill(c) \/ Return(c)
          PROVE  \E label \in Pcs : Goto(c, label)
      BY <3>3 DEF Signal, Kill, Return, Stop
    <3>4. ASSUME NEW c \in Clones, Meddle(c) \/ Sync(c) PROVE UNCHANGED pc
      BY <3>4 DEF Meddle, Sync
    <3>5. Change \/ (\E i \in Commits : CiFinish(i)) => UNCHANGED pc
      BY DEF Change, CiFinish
    <3>6. QED
      BY <3>1, <3>2, <3>3, <3>4, <3>5 DEF Next, Script
  <2>2. QED
    BY <1>0, <2>1, GotoTypes DEF ControlTypes
<1>6. QED
  BY <1>1, <1>2, <1>3, <1>4, <1>5 DEF ControlTypes

LEMMA TreeStep ==
  ASSUME Typed, Next
  PROVE  edited' \in [Clones -> SUBSET Files] /\ staged' \in [Clones -> SUBSET Allowed]
<1>0. edited \in [Clones -> SUBSET Files] /\ staged \in [Clones -> SUBSET Allowed]
  BY DEF Typed, TypeOK
<1>1. edited' \in [Clones -> SUBSET Files]
  <2>1. UNCHANGED edited
        \/ \E c \in Clones, files \in SUBSET Files : edited' = [edited EXCEPT ![c] = files]
    <3>0. ASSUME NEW c \in Clones, NEW label, NEW files \in SUBSET Files, Stop(c, label, files)
          PROVE  \E fs \in SUBSET Files : edited' = [edited EXCEPT ![c] = fs]
      <4>1. Restored(c, files) \in SUBSET Files
        BY DEF Restored
      <4>2. QED
        BY <3>0, <4>1 DEF Stop
    <3>1. ASSUME NEW c \in Clones, File(c) \/ Bump(c)
          PROVE  UNCHANGED edited \/ \E fs \in SUBSET Files : edited' = [edited EXCEPT ![c] = fs]
      <4>0. edited[c] \in SUBSET Files
        BY <1>0
      <4>1. CASE File(c)
        BY <4>0, <4>1 DEF File, Files
      <4>2. CASE Bump(c)
        <5>1. PICK touched \in {{}, Listed, Files \ {"notes"}} :
                \/ edited' = [edited EXCEPT ![c] = @ \cup touched]
                \/ Stop(c, "refused", edited[c] \cup touched)
          BY <4>2 DEF Bump
        <5>2. edited[c] \cup touched \in SUBSET Files
          BY <4>0 DEF Files
        <5>3. QED
          BY <1>0, <3>0, <5>1, <5>2
      <4>3. QED
        BY <3>1, <4>1, <4>2
    <3>2. ASSUME NEW c \in Clones, Check(c) \/ Add(c) \/ Commit(c) \/ Signal(c)
          PROVE  UNCHANGED edited \/ \E fs \in SUBSET Files : edited' = [edited EXCEPT ![c] = fs]
      <4>0. edited[c] \in SUBSET Files /\ edited[c] \ Allowed \in SUBSET Files
        BY <1>0
      <4>1. UNCHANGED edited \/ (\E label : Stop(c, label, edited[c]))
            \/ edited' = [edited EXCEPT ![c] = edited[c] \ Allowed]
        BY <3>2, <1>0 DEF Check, Add, Commit, Signal
      <4>2. QED
        BY <3>0, <4>0, <4>1
    <3>3. ASSUME NEW c \in Clones, Meddle(c) \/ Sync(c)
          PROVE  UNCHANGED edited \/ \E fs \in SUBSET Files : edited' = [edited EXCEPT ![c] = fs]
      <4>0. edited[c] \in SUBSET Files
        BY <1>0
      <4>1. \A f \in {"listed", "other"} : edited[c] \cup {f} \in SUBSET Files
        BY <4>0 DEF Files, Listed
      <4>2. QED
        BY <3>3, <1>0, <4>1 DEF Meddle, Sync
    <3>4. ASSUME NEW c \in Clones, Begin(c) \/ Fetch(c) \/ Number(c) \/ Tag(c) \/ Push(c) \/ Kill(c)
                 \/ Return(c)
          PROVE  UNCHANGED edited
      BY <3>4 DEF Begin, Fetch, Number, Tag, Push, Kill, Return, treeVars
    <3>5. Change \/ (\E i \in Commits : CiFinish(i)) => UNCHANGED edited
      BY DEF Change, CiFinish, treeVars
    <3>6. QED
      BY <3>1, <3>2, <3>3, <3>4, <3>5 DEF Next, Script
  <2>2. QED
    BY <1>0, <2>1
<1>2. staged' \in [Clones -> SUBSET Allowed]
  <2>1. UNCHANGED staged
        \/ \E c \in Clones : \/ staged' = [staged EXCEPT ![c] = {}]
                            \/ staged' = [staged EXCEPT ![c] = @ \cup (edited[c] \cap Allowed)]
    BY DEF Next, Script, Begin, Fetch, Number, File, Bump, Check, Add, Commit, Tag, Push, Signal,
           Kill, Meddle, Return, Sync, Change, CiFinish, treeVars
  <2>2. QED
    BY <1>0, <2>1
<1>3. QED
  BY <1>1, <1>2

(***************************************************************************)
(* The month has no more names than release commits.                       *)
(***************************************************************************)
LEMMA NamesAreFew ==
  ASSUME Typed, NEW c \in Clones
  PROVE  Cardinality({t[1] : t \in tags[c]}) \in Versions
<1> DEFINE taken == {t[1] : t \in tags[c]}
           named == [i \in Releases |-> log[i].version]
<1>1. Len(log) \in Nat /\ Len(log) <= MaxCommits /\ Releases \subseteq Born
  BY LogType DEF Releases
<1>2. IsFiniteSet(Born) /\ Cardinality(Born) = Len(log)
  BY <1>1, FS_Interval DEF Born
<1>3. IsFiniteSet(Releases) /\ Cardinality(Releases) <= Len(log)
  BY <1>1, <1>2, FS_Subset
<1>4. named \in Surjection(Releases, Names)
  BY DEF Names, Surjection
<1>5. IsFiniteSet(Names) /\ Cardinality(Names) <= Cardinality(Releases)
  BY <1>3, <1>4, FS_Surjection
<1>6. taken \subseteq Names
  BY DEF Typed, NameTypes
<1>7. IsFiniteSet(taken) /\ Cardinality(taken) <= Cardinality(Names)
  BY <1>5, <1>6, FS_Subset
<1>8. Cardinality(taken) \in Nat /\ Cardinality(Names) \in Nat /\ Cardinality(Releases) \in Nat
  BY <1>3, <1>5, <1>7, FS_CardinalityType
<1>9. QED
  BY <1>1, <1>3, <1>5, <1>7, <1>8, CommitsAssumption DEF Versions

LEMMA ReleasesGrow ==
  ASSUME Typed, Next
  PROVE  /\ Releases \subseteq Releases' /\ Names \subseteq Names'
         /\ Releases \subseteq Born /\ Born \subseteq Born'
         /\ \A i \in Releases' : i \in Born => i \in Releases
         /\ \A i \in Born : log'[i] = log[i]
<1>1. LogGrows /\ log' \in Seq(Entry)
  BY OnlyThreeCommit
<1>2. DOMAIN log' = Born' /\ Born \subseteq Born' /\ DOMAIN log = Born
  BY <1>1, LogType DEF LogGrows, Born
<1>3. \A i \in Born : log'[i] = log[i]
  BY <1>1 DEF LogGrows
<1>4. Releases \subseteq Releases' /\ Releases \subseteq Born /\ \A i \in Releases' : i \in Born => i \in Releases
  BY <1>2, <1>3 DEF Releases
<1>5. Names \subseteq Names'
  BY <1>3, <1>4 DEF Names
<1>6. QED
  BY <1>2, <1>3, <1>4, <1>5

(***************************************************************************)
(* Where the tags of a clone and of the remote come from.                  *)
(***************************************************************************)
LEMMA TagsComeFrom ==
  ASSUME Typed, Next
  PROVE  /\ UNCHANGED tags \/ \E c \in Clones : \E ts : tags' = [tags EXCEPT ![c] = ts]
         /\ \A c \in Clones : \A t \in tags'[c] :
              \/ t \in tags[c] \/ t \in remoteTags
              \/ pc[c] = "tag" /\ t = <<version[c], HEAD(c)>>
         /\ \A t \in remoteTags' : t \in remoteTags \/ \E c \in Clones : t \in tags[c]
<1> DEFINE Own(c) ==
             \A t \in tags'[c] : \/ t \in tags[c] \/ t \in remoteTags
                                 \/ pc[c] = "tag" /\ t = <<version[c], HEAD(c)>>
<1>0. tags \in [Clones -> SUBSET (Versions \X Commits)]
  BY DEF Typed, TypeOK
<1>1. CASE UNCHANGED <<tags, remoteTags>>
  BY <1>0, <1>1
<1>2. ASSUME NEW c \in Clones, Push(c)
      PROVE  UNCHANGED tags /\ \A t \in remoteTags' : t \in remoteTags \/ t \in tags[c]
  <2>1. PICK refs \in SUBSET Taken(c) : Receive(c, refs)
    BY <1>2, PushReceives
  <2>2. QED
    BY <1>2, <2>1, ReceiveTakes DEF Push, repoVars, TagsOf
<1>3. ASSUME NEW c \in Clones, Fetch(c) \/ Sync(c) \/ Tag(c)
      PROVE  /\ UNCHANGED tags \/ \E ts : tags' = [tags EXCEPT ![c] = ts]
             /\ \A d \in Clones : Own(d)
             /\ UNCHANGED remoteTags
  <2>1. UNCHANGED remoteTags
    BY <1>3 DEF Fetch, Sync, Tag, remoteVars
  <2>2. UNCHANGED tags \/ \E ts : tags' = [tags EXCEPT ![c] = ts]
    BY <1>3 DEF Fetch, Sync, Tag
  <2>3. \A d \in Clones : d # c => Own(d)
    BY <1>0, <2>2
  <2>4. CASE Fetch(c)
    <3>1. UNCHANGED tags \/ \E ts \in SUBSET remoteTags : tags' = [tags EXCEPT ![c] = @ \cup ts]
      BY <2>4 DEF Fetch
    <3>2. Own(c)
      BY <1>0, <3>1
    <3>3. QED
      BY <2>1, <2>2, <2>3, <3>2
  <2>5. CASE Sync(c)
    <3>1. \E ts \in SUBSET remoteTags : tags' = [tags EXCEPT ![c] = @ \cup ts]
      BY <2>5 DEF Sync
    <3>2. Own(c)
      BY <1>0, <3>1
    <3>3. QED
      BY <2>1, <2>2, <2>3, <3>2
  <2>6. CASE Tag(c)
    <3>1. pc[c] = "tag" /\ (UNCHANGED tags \/ tags' = [tags EXCEPT ![c] = @ \cup {<<version[c], HEAD(c)>>}])
      BY <2>6 DEF Tag
    <3>2. Own(c)
      BY <1>0, <3>1
    <3>3. QED
      BY <2>1, <2>2, <2>3, <3>2
  <2>7. QED
    BY <1>3, <2>4, <2>5, <2>6
<1>4. ASSUME NEW c \in Clones, Begin(c) \/ Number(c) \/ File(c) \/ Bump(c) \/ Check(c) \/ Add(c)
             \/ Commit(c) \/ Signal(c) \/ Kill(c) \/ Meddle(c) \/ Return(c)
      PROVE  UNCHANGED <<tags, remoteTags>>
  BY <1>4 DEF Begin, Number, File, Bump, Check, Add, Commit, Signal, Kill, Meddle, Return,
              repoVars, remoteVars
<1>5. Change \/ (\E i \in Commits : CiFinish(i)) => UNCHANGED <<tags, remoteTags>>
  BY DEF Change, CiFinish, repoVars
<1>6. QED
  BY <1>0, <1>1, <1>2, <1>3, <1>4, <1>5 DEF Next, Script

LEMMA TagStep ==
  ASSUME Typed, Next
  PROVE  /\ tags' \in [Clones -> SUBSET (Versions \X Commits)]
         /\ remoteTags' \subseteq Versions \X Commits
         /\ \A t \in remoteTags' : t[1] \in Names'
         /\ \A c \in Clones : \A t \in tags'[c] : t[1] \in Names'
<1>1. /\ tags \in [Clones -> SUBSET (Versions \X Commits)]
      /\ remoteTags \subseteq Versions \X Commits
      /\ \A t \in remoteTags : t[1] \in Names
      /\ \A c \in Clones : \A t \in tags[c] : t[1] \in Names
  BY DEF Typed, TypeOK, NameTypes
<1>2. ASSUME NEW c \in Clones, pc[c] = "tag"
      PROVE  /\ <<version[c], HEAD(c)>> \in Versions \X Commits
             /\ version[c] \in Names
  <2>1. version[c] \in Versions /\ HEAD(c) \in Commits
    BY CloneType, LogType
  <2>2. version[c] \in Names
    BY <1>2 DEF Typed, NameTypes
  <2>3. QED
    BY <2>1, <2>2
<1>3. Names \subseteq Names'
  BY ReleasesGrow
<1>4. ASSUME NEW c \in Clones
      PROVE  tags'[c] \in SUBSET (Versions \X Commits) /\ \A t \in tags'[c] : t[1] \in Names'
  <2>1. ASSUME NEW t \in tags'[c] PROVE t \in Versions \X Commits /\ t[1] \in Names'
    <3>1. t \in tags[c] \/ t \in remoteTags \/ (pc[c] = "tag" /\ t = <<version[c], HEAD(c)>>)
      BY TagsComeFrom
    <3>2. QED
      BY <1>1, <1>2, <1>3, <3>1
  <2>2. QED
    BY <2>1
<1>5. tags' \in [Clones -> SUBSET (Versions \X Commits)]
  <2>1. CASE UNCHANGED tags
    BY <1>1, <2>1
  <2>2. CASE \E c \in Clones : \E ts : tags' = [tags EXCEPT ![c] = ts]
    <3>1. PICK c \in Clones : \E ts : tags' = [tags EXCEPT ![c] = ts]
      BY <2>2
    <3>2. tags' = [tags EXCEPT ![c] = tags'[c]]
      BY <1>1, <3>1
    <3>3. QED
      BY <1>1, <1>4, <3>2
  <2>3. QED
    BY <2>1, <2>2, TagsComeFrom
<1>6. ASSUME NEW t \in remoteTags' PROVE t \in Versions \X Commits /\ t[1] \in Names'
  <2>1. t \in remoteTags \/ \E c \in Clones : t \in tags[c]
    BY TagsComeFrom
  <2>2. QED
    BY <1>1, <1>3, <2>1
<1>7. QED
  BY <1>4, <1>5, <1>6

(***************************************************************************)
(* A branch changes by a commit on top of it, by a push, and by bringing a *)
(* clone to the remote's main.                                             *)
(***************************************************************************)
LEMMA MainComesFrom ==
  ASSUME Typed, NEW c \in Clones, StepOf(c)
  PROVE  \/ UNCHANGED main
         \/ main' = [main EXCEPT ![c] = remoteMain] /\ Sync(c)
         \/ /\ main' = [main EXCEPT ![c] = Append(main[c], Len(log) + 1)]
            /\ \/ Commit(c) /\ NewCommit("release", version[c], main[c], staged[c])
               \/ Meddle(c) /\ NewCommit("code", 0, main[c], {})
<1>1. CASE Commit(c) \/ Meddle(c)
  BY <1>1 DEF Commit, Meddle, Typed, TypeOK
<1>2. CASE Sync(c)
  BY <1>2 DEF Sync
<1>3. CASE ~Commit(c) /\ ~Meddle(c) /\ ~Sync(c)
  BY <1>3 DEF StepOf, Script, Begin, Fetch, Number, File, Bump, Check, Add, Tag, Push, Signal, Kill,
              Return, repoVars
<1>4. QED
  BY <1>1, <1>2, <1>3

LEMMA Grafted ==
  ASSUME Typed, NEW b \in Seq(Born), NEW n \in Nat, n = Len(log) + 1
  PROVE  Append(b, n) \in Seq(1..n) /\ Append(b, n) # <<>>
<1>1. b \in Seq(1..n)
  BY LogType DEF Born
<1>2. n \in 1..n
  BY LogType
<1>3. QED
  BY <1>1, <1>2

LEMMA BranchStep ==
  ASSUME Typed, Next
  PROVE  BranchTypes' /\ main' \in [Clones -> Branches] /\ remoteMain' \in Branches
         /\ log' \in Seq(Entry)
<1>0. /\ main \in [Clones -> Branches]
      /\ \A c \in Clones : main[c] \in Seq(Born) /\ main[c] # <<>>
      /\ remoteMain \in Seq(Born) /\ remoteMain # <<>>
      /\ \A i \in Born : log[i].onto \in Seq(Born)
      /\ Len(log) \in Nat /\ Len(log) >= 1
  BY LogType DEF Typed, TypeOK, BranchTypes
<1>1. LogGrows /\ log' \in Seq(Entry) /\ \A i \in Len(log) + 1..Len(log') : log'[i].onto \in Seq(Born)
  BY OnlyThreeCommit
<1>2. Len(log') \in 1..MaxCommits /\ Len(log') \in Nat
  BY <1>0, <1>1, CommitsAssumption DEF LogGrows
<1>3. Born' \subseteq Commits
  BY <1>2, CommitsAssumption DEF Born, Commits
<1>4. ASSUME NEW i \in Born' PROVE log'[i].onto \in Seq(Born')
  <2>1. i \in Born \/ i \in Len(log) + 1..Len(log')
    BY <1>0, <1>1 DEF Born, LogGrows
  <2>2. log'[i].onto \in Seq(Born)
    BY <1>0, <1>1, <2>1 DEF LogGrows
  <2>3. QED
    BY <1>1, <2>2, BranchLasts
<1>5. /\ \A c \in Clones : main[c] \in Seq(Born')
      /\ remoteMain \in Seq(Born')
  BY <1>0, <1>1, BranchLasts
<1>6. ASSUME NEW kind \in Kinds, NEW v \in Versions, NEW b \in Seq(Born), NEW f \in SUBSET Files,
             NewCommit(kind, v, b, f),
             NEW a \in Seq(Born)
      PROVE  Append(a, Len(log) + 1) \in Seq(Born') /\ Append(a, Len(log) + 1) # <<>>
  <2>1. Len(log') = Len(log) + 1
    BY <1>6, NewCommitGrows
  <2>2. Born' = 1..Len(log) + 1 /\ Len(log) + 1 \in Nat
    BY <1>0, <2>1 DEF Born
  <2>3. QED
    BY <2>2, Grafted
<1>7. "release" \in Kinds /\ "code" \in Kinds /\ "docs" \in Kinds /\ 0 \in Versions
      /\ {} \in SUBSET Files
  BY CommitsAssumption DEF Kinds, Versions
<1>8. remoteMain' \in Seq(Born') /\ remoteMain' # <<>>
  <2>1. CASE UNCHANGED remoteMain
    BY <1>0, <1>5, <2>1
  <2>2. ASSUME NEW c \in Clones, Push(c) PROVE UNCHANGED remoteMain \/ remoteMain' = main[c]
    BY <2>2, PushReceives DEF Receive
  <2>3. CASE Change
    <3>1. PICK kind \in {"code", "docs"} : NewCommit(kind, 0, remoteMain, {})
      BY <2>3 DEF Change
    <3>2. remoteMain' = Append(remoteMain, Len(log) + 1)
      BY <2>3 DEF Change
    <3>3. QED
      BY <1>0, <1>6, <1>7, <3>1, <3>2
  <2>4. ASSUME NEW c \in Clones, StepOf(c), ~Push(c) PROVE UNCHANGED remoteMain
    BY <2>4 DEF StepOf, Script, Begin, Fetch, Number, File, Bump, Check, Add, Commit, Tag, Signal,
                Kill, Meddle, Return, Sync, remoteVars
  <2>5. (\E i \in Commits : CiFinish(i)) => UNCHANGED remoteMain
    BY DEF CiFinish
  <2>6. QED
    BY <1>0, <1>5, <2>1, <2>2, <2>3, <2>4, <2>5 DEF Next, StepOf
<1>9. \/ UNCHANGED main
      \/ \E c \in Clones : \E b \in Seq(Born') : b # <<>> /\ main' = [main EXCEPT ![c] = b]
  <2>1. ASSUME NEW c \in Clones, StepOf(c)
        PROVE  UNCHANGED main \/ \E b \in Seq(Born') : b # <<>> /\ main' = [main EXCEPT ![c] = b]
    <3>1. CASE main' = [main EXCEPT ![c] = remoteMain]
      BY <1>0, <1>5, <3>1
    <3>2. CASE /\ main' = [main EXCEPT ![c] = Append(main[c], Len(log) + 1)]
               /\ NewCommit("release", version[c], main[c], staged[c]) \/ NewCommit("code", 0, main[c], {})
      <4>1. Append(main[c], Len(log) + 1) \in Seq(Born') /\ Append(main[c], Len(log) + 1) # <<>>
        BY <1>0, <1>6, <1>7, <3>2, CloneType
      <4>2. QED
        BY <3>2, <4>1
    <3>3. QED
      BY <2>1, <3>1, <3>2, MainComesFrom
  <2>2. Change \/ (\E i \in Commits : CiFinish(i)) => UNCHANGED main
    BY DEF Change, CiFinish, repoVars
  <2>3. QED
    BY <2>1, <2>2 DEF Next, StepOf
<1>10. \A c \in Clones : main'[c] \in Seq(Born') /\ main'[c] # <<>>
  BY <1>0, <1>5, <1>9
<1>11. main' \in [Clones -> Branches] /\ remoteMain' \in Branches
  <2>1. \A b \in Seq(Born') : b \in Branches
    BY <1>3 DEF Branches
  <2>2. QED
    BY <1>0, <1>8, <1>9, <2>1
<1>12. QED
  BY <1>1, <1>2, <1>4, <1>8, <1>10, <1>11 DEF BranchTypes

(***************************************************************************)
(* How a clone comes to the tag, and keeps its version there.              *)
(***************************************************************************)
LEMMA WorldStands ==
  ASSUME Change \/ \E i \in Commits : CiFinish(i), NEW c \in Clones
  PROVE  UNCHANGED local(c)
  BY DEF Change, CiFinish, local, treeVars, repoVars

LEMMA ReachTag ==
  ASSUME Typed, NEW c \in Clones, StepOf(c), pc'[c] \in {"tag", "push"}
  PROVE  /\ version'[c] = version[c]
         /\ \/ pc[c] = "commit" /\ Commit(c) /\ NewCommit("release", version[c], main[c], staged[c])
            \/ pc[c] \in {"tag", "push"} /\ ~Commit(c) /\ ~Sync(c) /\ ~Push(c)
<1> USE DEF Typed, TypeOK
<1>1. CASE Commit(c)
  BY <1>1 DEF Commit, Goto, Stop
<1>2. CASE Tag(c) \/ Meddle(c)
  BY <1>2 DEF Tag, Meddle, Goto, Commit, Sync, Push, Running, Trapped
<1>3. CASE Signal(c)
  BY <1>3 DEF Signal, Goto, Stop, Running, Trapped, Commit, Sync, Push
<1>4. CASE Begin(c) \/ Fetch(c) \/ Number(c) \/ File(c) \/ Bump(c) \/ Check(c) \/ Add(c)
  BY <1>4 DEF Begin, Fetch, Number, File, Bump, Check, Add, Goto, Stop
<1>5. CASE Push(c)
  BY <1>5 DEF Push, Goto
<1>6. CASE Kill(c) \/ Return(c) \/ Sync(c)
  BY <1>6 DEF Kill, Return, Sync, Goto
<1>7. QED
  BY <1>1, <1>2, <1>3, <1>4, <1>5, <1>6 DEF StepOf, Script

LEMMA VersionStep ==
  ASSUME Typed, Next
  PROVE  /\ version' \in [Clones -> Versions]
         /\ \A c \in Clones : pc'[c] \in {"tag", "push"} => version'[c] \in Names'
<1>1. version' \in [Clones -> Versions]
  <2>0. version \in [Clones -> Versions] /\ 0 \in Versions
    BY CommitsAssumption DEF Typed, TypeOK, Versions
  <2>1. ASSUME NEW c \in Clones, Number(c) PROVE version' \in [Clones -> Versions]
    BY <2>0, <2>1, NamesAreFew DEF Number
  <2>2. ASSUME NEW c \in Clones, Return(c) PROVE version' \in [Clones -> Versions]
    BY <2>0, <2>2 DEF Return
  <2>3. ASSUME NEW c \in Clones, StepOf(c), ~Number(c), ~Return(c) PROVE UNCHANGED version
    BY <2>3 DEF StepOf, Script, Begin, Fetch, File, Bump, Check, Add, Commit, Tag, Push, Signal,
                Kill, Meddle, Sync
  <2>4. Change \/ (\E i \in Commits : CiFinish(i)) => UNCHANGED version
    BY DEF Change, CiFinish
  <2>5. QED
    BY <2>0, <2>1, <2>2, <2>3, <2>4 DEF Next, StepOf
<1>2. ASSUME NEW c \in Clones, pc'[c] \in {"tag", "push"} PROVE version'[c] \in Names'
  <2>1. CASE UNCHANGED local(c)
    <3>1. version[c] \in Names
      BY <1>2, <2>1 DEF local, Typed, NameTypes
    <3>2. QED
      BY <2>1, <3>1, ReleasesGrow DEF local
  <2>2. CASE StepOf(c)
    <3>1. CASE NewCommit("release", version[c], main[c], staged[c])
      <4>1. /\ Len(log') = Len(log) + 1 /\ log' \in Seq(Entry)
            /\ log'[Len(log) + 1] = [kind |-> "release", version |-> version[c], onto |-> main[c], files |-> staged[c]]
        BY <3>1, NewCommitGrows, CloneType DEF Kinds
      <4>2. Len(log) + 1 \in DOMAIN log'
        BY <4>1, LogType
      <4>3. Len(log) + 1 \in Releases' /\ log'[Len(log) + 1].version = version[c]
        BY <4>1, <4>2 DEF Releases
      <4>4. version[c] \in Names'
        BY <4>3 DEF Names
      <4>5. QED
        BY <1>2, <2>2, <4>4, ReachTag
    <3>2. CASE pc[c] \in {"tag", "push"}
      <4>1. version[c] \in Names
        BY <3>2 DEF Typed, NameTypes
      <4>2. QED
        BY <1>2, <2>2, <4>1, ReachTag, ReleasesGrow
    <3>3. QED
      BY <1>2, <2>2, <3>1, <3>2, ReachTag
  <2>3. QED
    BY <2>1, <2>2, OthersStand, WorldStands DEF Next, StepOf
<1>3. QED
  BY <1>1, <1>2

LEMMA TypedInit == Init => Typed
<1> SUFFICES ASSUME Init PROVE Typed
  OBVIOUS
<1>0. /\ log = <<[kind |-> "code", version |-> 0, onto |-> <<>>, files |-> {}]>>
      /\ runs = 0 /\ upsets = 0
      /\ remoteMain = <<1>> /\ main = [c \in Clones |-> <<1>>]
  BY DEF Init
<1>1. /\ Len(log) = 1 /\ log[1] = [kind |-> "code", version |-> 0, onto |-> <<>>, files |-> {}]
      /\ 1 \in Commits /\ 0 \in Versions
  BY <1>0, CommitsAssumption DEF Commits, Versions
<1>2. TypeOK
  <2>1. <<>> \in Branches /\ <<1>> \in Branches
    BY <1>1 DEF Branches
  <2>2. [kind |-> "code", version |-> 0, onto |-> <<>>, files |-> {}] \in [kind : Kinds, version : Versions, onto : Branches, files : SUBSET Files]
    BY <1>1, <2>1 DEF Kinds
  <2>3. log \in Seq([kind : Kinds, version : Versions, onto : Branches, files : SUBSET Files])
    BY <1>0, <2>2
  <2>4. runs \in 0..MaxRuns /\ upsets \in 0..MaxUpsets
    BY <1>0, RunsAssumption, UpsetsAssumption
  <2>5. ci \in [Commits -> CiStates]
    BY DEF Init, CiStates
  <2>6. QED
    BY <1>1, <2>1, <2>3, <2>4, <2>5 DEF Init, TypeOK
<1>3. BranchTypes
  <2>1. Born = {1}
    BY <1>1 DEF Born
  <2>2. <<>> \in Seq(Born) /\ <<1>> \in Seq(Born) /\ <<1>> # <<>>
    BY <2>1
  <2>3. log[1].onto = <<>>
    BY <1>1
  <2>4. Len(log) \in 1..MaxCommits
    BY <1>1, CommitsAssumption
  <2>5. /\ remoteMain \in Seq(Born) /\ remoteMain # <<>>
        /\ \A c \in Clones : main[c] \in Seq(Born) /\ main[c] # <<>>
    BY <1>0, <2>2
  <2>6. QED
    BY <2>1, <2>2, <2>3, <2>4, <2>5 DEF BranchTypes
<1>4. NameTypes
  BY DEF Init, NameTypes
<1>5. QED
  BY <1>2, <1>3, <1>4 DEF Typed

LEMMA TypedStep ==
  ASSUME Typed, [Next]_vars
  PROVE  Typed'
<1>1. CASE Next
  <2>1. TypeOK'
    BY <1>1, ControlStep, TreeStep, BranchStep, TagStep, VersionStep, CiAlwaysMoves
       DEF TypeOK, ControlTypes, Entry
  <2>2. NameTypes'
    BY <1>1, TagStep, VersionStep DEF NameTypes
  <2>3. QED
    BY <1>1, <2>1, <2>2, BranchStep DEF Typed
<1>2. CASE UNCHANGED vars
  BY <1>2 DEF vars, treeVars, repoVars, remoteVars, histVars, Typed, TypeOK, BranchTypes, NameTypes,
              Names, Releases, Born
<1>3. QED
  BY <1>1, <1>2

(***************************************************************************)
(* Whatever the clones, CI and the upsets do, the branches hold commits of *)
(* the log and a tag is the name of a release that was cut.                *)
(***************************************************************************)
THEOREM TypedAlways == Spec => []Typed
  BY TypedInit, TypedStep, PTL DEF Spec

(***************************************************************************)
(* Every variable of a release keeps its range.  That the version does is  *)
(* the claim that there are no more names than release commits.            *)
(***************************************************************************)
THEOREM TypeCorrect == Spec => []TypeOK
<1>1. Typed => TypeOK
  BY DEF Typed
<1>2. QED
  BY <1>1, TypedAlways, PTL

-----------------------------------------------------------------------------
(* The tree under a release: what is staged and edited before each command,*)
(* and that $committed is set by the commit alone.                         *)

Unstaged(c) == pc[c] \in {"fetch", "number", "file", "bump", "check", "add"} => staged[c] = {}
Unedited(c) == pc[c] \in {"fetch", "number"} => edited[c] = {}
Restores(c) == pc[c] \in {"refused", "rehearsed"} =>
                 staged[c] = {} /\ edited[c] \subseteq New \ Listed
Uncommitted(c) == pc[c] \in {"idle", "fetch", "number", "file", "bump", "check", "add", "commit"} =>
                    ~committed[c]

Tidy(c) == Uncommitted(c) /\ (~meddled => Unstaged(c) /\ Unedited(c) /\ Restores(c))

Tree == \A c \in Clones : Tidy(c)

LEMMA MeddledStays ==
  ASSUME Typed, Next
  PROVE  (meddled => meddled') /\ (broken => broken')
<1>1. meddled' = meddled \/ meddled' = TRUE
  BY DEF Next, Script, Begin, Fetch, Number, File, Bump, Check, Add, Commit, Tag, Push, Signal, Kill,
         Meddle, Return, Sync, Change, CiFinish, histVars
<1>2. ASSUME NEW c \in Clones, Kill(c) PROVE broken => broken'
  <2>1. broken' = (broken \/ pc[c] \in {"tag", "push"})
    BY <1>2 DEF Kill
  <2>2. QED
    BY <2>1
<1>3. ASSUME NEW c \in Clones, StepOf(c), ~Kill(c) PROVE broken' = broken \/ broken' = TRUE
  BY <1>3 DEF StepOf, Script, Begin, Fetch, Number, File, Bump, Check, Add, Commit, Tag, Push, Signal,
              Meddle, Return, Sync, histVars
<1>4. Change \/ (\E i \in Commits : CiFinish(i)) => broken' = broken
  BY DEF Change, CiFinish, histVars
<1>5. meddled => meddled'
  BY <1>1
<1>6. ASSUME NEW c \in Clones, StepOf(c) PROVE broken => broken'
  <2>1. CASE Kill(c)
    BY <1>2, <2>1
  <2>2. CASE ~Kill(c)
    BY <1>3, <1>6, <2>2
  <2>3. QED
    BY <2>1, <2>2
<1>7. Change \/ (\E i \in Commits : CiFinish(i)) => (broken => broken')
  BY <1>4
<1>8. QED
  BY <1>5, <1>6, <1>7 DEF Next, StepOf

LEMMA TreeInit == Init => Tree
  BY DEF Init, Tree, Tidy, Uncommitted, Unstaged, Unedited, Restores

LEMMA TidyKept ==
  ASSUME Typed, Tree, NEW c \in Clones, StepOf(c), meddled => meddled'
  PROVE  Tidy(c)'
<1> USE DEF Typed, TypeOK, Goto, Uncommitted, Unstaged, Unedited, Restores
<1>0. Tidy(c)
  BY DEF Tree
<1>1. CASE Begin(c)
  BY <1>0, <1>1 DEF Tidy, Begin, Clean, treeVars
<1>2. CASE Fetch(c) \/ Number(c)
  BY <1>0, <1>2 DEF Tidy, Fetch, Number, treeVars, histVars
<1>3. CASE File(c)
  BY <1>0, <1>3 DEF Tidy, File, histVars
<1>4. CASE Bump(c)
  <2>1. ~committed[c] /\ ~committed'[c] /\ UNCHANGED <<meddled, staged>>
    BY <1>0, <1>4 DEF Tidy, Bump, histVars
  <2>2. \/ pc'[c] = "check"
        \/ pc'[c] = "refused" /\ edited'[c] \subseteq New \ Listed
    BY <1>4, <2>1 DEF Bump, Stop, Restored
  <2>3. ~meddled => staged[c] = {}
    BY <1>0, <1>4 DEF Tidy, Bump
  <2>4. QED
    BY <2>1, <2>2, <2>3 DEF Tidy
<1>5. CASE Check(c)
  <2>1. ~committed[c] /\ ~committed'[c] /\ UNCHANGED <<meddled, staged>>
    BY <1>0, <1>5 DEF Tidy, Check, histVars
  <2>2. \/ pc'[c] = "add"
        \/ pc'[c] \in {"refused", "rehearsed"} /\ edited'[c] \subseteq New \ Listed
    BY <1>5, <2>1 DEF Check, Stop, Restored
  <2>3. ~meddled => staged[c] = {}
    BY <1>0, <1>5 DEF Tidy, Check
  <2>4. QED
    BY <2>1, <2>2, <2>3 DEF Tidy
<1>6. CASE Add(c)
  <2>1. ~committed[c] /\ ~committed'[c] /\ UNCHANGED meddled
    BY <1>0, <1>6 DEF Tidy, Add, histVars
  <2>2. \/ pc'[c] = "commit"
        \/ pc'[c] = "refused" /\ edited'[c] \subseteq New \ Listed /\ UNCHANGED staged
    BY <1>6, <2>1 DEF Add, Stop, Restored
  <2>3. ~meddled => staged[c] = {}
    BY <1>0, <1>6 DEF Tidy, Add
  <2>4. QED
    BY <2>1, <2>2, <2>3 DEF Tidy
<1>7. CASE Commit(c) \/ Tag(c) \/ Push(c)
  <2>1. pc'[c] \in {"tag", "uncommitted", "push", "untagged", "released", "unpushed"}
    BY <1>7 DEF Commit, Tag, Push, Stop
  <2>2. QED
    BY <2>1 DEF Tidy
<1>8. CASE Signal(c)
  <2>1. CASE pc[c] \in Running \ Trapped /\ Goto(c, "refused") /\ UNCHANGED edited
    <3>1. pc[c] \in {"fetch", "number"}
      BY <2>1 DEF Running
    <3>2. QED
      BY <1>0, <1>8, <2>1, <3>1 DEF Tidy, Signal, histVars
  <2>2. CASE pc[c] \in Trapped /\ Stop(c, pc[c], edited[c])
    <3>1. pc'[c] = pc[c] /\ pc[c] \notin {"fetch", "number", "refused", "rehearsed"}
      BY <2>2 DEF Stop, Trapped
    <3>2. UNCHANGED <<meddled, staged, committed>>
      BY <1>8 DEF Signal, histVars
    <3>3. QED
      BY <1>0, <3>1, <3>2 DEF Tidy
  <2>3. QED
    BY <1>8, <2>1, <2>2 DEF Signal
<1>9. CASE Meddle(c)
  <2>1. UNCHANGED <<pc, committed>> /\ meddled'
    BY <1>9 DEF Meddle
  <2>2. QED
    BY <1>0, <2>1 DEF Tidy
<1>10. CASE Kill(c) \/ Return(c) \/ Sync(c)
  BY <1>0, <1>10 DEF Tidy, Kill, Return, Sync
<1>11. QED
  BY <1>1, <1>2, <1>3, <1>4, <1>5, <1>6, <1>7, <1>8, <1>9, <1>10 DEF StepOf, Script

LEMMA TreeInvStep ==
  ASSUME Typed, Tree, [Next]_vars
  PROVE  Tree'
<1>1. CASE Next
  <2>1. ASSUME NEW d \in Clones PROVE Tidy(d)'
    <3>1. CASE UNCHANGED local(d)
      BY <1>1, <3>1, MeddledStays DEF local, Tree, Tidy, Uncommitted, Unstaged, Unedited, Restores
    <3>2. QED
      BY <1>1, <3>1, TidyKept, MeddledStays, OthersStand, WorldStands DEF Next, StepOf
  <2>2. QED
    BY <2>1 DEF Tree
<1>2. CASE UNCHANGED vars
  BY <1>2 DEF vars, treeVars, histVars, Tree, Tidy, Uncommitted, Unstaged, Unedited, Restores
<1>3. QED
  BY <1>1, <1>2

(***************************************************************************)
(* A refusal and a rehearsal leave no change in the tree but new files     *)
(* outside RELEASE_FILES (restore, lines 116 to 122).                      *)
(***************************************************************************)
THEOREM RefusalsRestore == Spec => []RefusalRestores
<1>1. Spec => []Tree
  BY TreeInit, TreeInvStep, TypedAlways, PTL DEF Spec
<1>2. Tree => RefusalRestores
  BY DEF Tree, Tidy, Restores, RefusalRestores
<1>3. QED
  BY <1>1, <1>2, PTL

-----------------------------------------------------------------------------
(* What a release is about to commit: nothing, or its section filed in the *)
(* notes together with the whole of what the bump wrote, or none of that.  *)

Sound(files) == files = {} \/ ("notes" \in files /\ Listed \cap files \in {{}, Listed})

Intact(c) ==
  /\ pc[c] = "file" => edited[c] = {}
  /\ pc[c] = "bump" => edited[c] \subseteq {"notes"}
  /\ pc[c] = "check" => Listed \cap edited[c] \in {{}, Listed}
  /\ pc[c] = "add" => edited[c] \subseteq Allowed /\ (TagBody \/ Sound(edited[c]))
  /\ pc[c] = "commit" => TagBody \/ Sound(staged[c])

Bumped == ~meddled => \A c \in Clones : Intact(c)

LEMMA BumpedInit == Init => Bumped
  BY DEF Init, Bumped, Intact

LEMMA IntactKept ==
  ASSUME Typed, NEW c \in Clones, Tidy(c), Intact(c), StepOf(c), ~meddled, ~meddled'
  PROVE  Intact(c)'
<1> USE DEF Typed, TypeOK, Goto
<1>0. Uncommitted(c) /\ Unstaged(c) /\ Unedited(c)
  BY DEF Tidy
<1>1. CASE Number(c)
  BY <1>0, <1>1 DEF Number, Intact, Unedited, treeVars
<1>2. CASE File(c)
  BY <1>2 DEF File, Intact
<1>3. CASE Bump(c)
  <2>1. PICK touched \in {{}, Listed, Files \ {"notes"}} :
          \/ edited' = [edited EXCEPT ![c] = @ \cup touched] /\ Goto(c, "check")
          \/ Goto(c, "refused")
    BY <1>3 DEF Bump, Stop
  <2>2. edited[c] \subseteq {"notes"}
    BY <1>3 DEF Bump, Intact
  <2>3. Listed \cap (edited[c] \cup touched) \in {{}, Listed}
    <3>1. Listed \cap edited[c] = {}
      BY <2>2 DEF Listed
    <3>2. Listed \cap touched \in {{}, Listed}
      BY DEF Files, Listed
    <3>3. QED
      BY <3>1, <3>2
  <2>4. CASE edited' = [edited EXCEPT ![c] = @ \cup touched] /\ Goto(c, "check")
    <3>1. edited'[c] = edited[c] \cup touched /\ pc'[c] = "check"
      BY <2>4
    <3>2. QED
      BY <2>3, <3>1 DEF Intact
  <2>5. QED
    BY <2>1, <2>4 DEF Intact
<1>4. CASE Check(c)
  <2>1. CASE pc'[c] = "add"
    <3>1. /\ UNCHANGED edited /\ edited[c] \subseteq Allowed
          /\ TagBody \/ "notes" \in edited[c]
      BY <1>4, <2>1 DEF Check, Stop
    <3>2. Listed \cap edited[c] \in {{}, Listed}
      BY <1>4 DEF Check, Intact
    <3>3. QED
      BY <2>1, <3>1, <3>2 DEF Intact, Sound
  <2>2. CASE pc'[c] # "add"
    <3>1. pc'[c] \in {"refused", "rehearsed"}
      BY <1>4, <2>2 DEF Check, Stop
    <3>2. QED
      BY <3>1 DEF Intact
  <2>3. QED
    BY <2>1, <2>2
<1>5. CASE Add(c)
  <2>1. CASE pc'[c] = "commit"
    <3>1. staged'[c] = staged[c] \cup (edited[c] \cap Allowed)
      BY <1>5, <2>1 DEF Add, Stop
    <3>2. staged[c] = {} /\ edited[c] \subseteq Allowed /\ (TagBody \/ Sound(edited[c]))
      BY <1>0, <1>5 DEF Add, Intact, Unstaged
    <3>3. staged'[c] = edited[c]
      BY <3>1, <3>2
    <3>4. QED
      BY <2>1, <3>2, <3>3 DEF Intact, Sound
  <2>2. CASE pc'[c] # "commit"
    <3>1. pc'[c] = "refused"
      BY <1>5, <2>2 DEF Add, Stop
    <3>2. QED
      BY <3>1 DEF Intact
  <2>3. QED
    BY <2>1, <2>2
<1>6. CASE Signal(c)
  <2>1. CASE pc[c] \in Trapped /\ Stop(c, pc[c], edited[c])
    <3>1. pc'[c] = pc[c] /\ UNCHANGED staged /\ edited'[c] = Restored(c, edited[c])
      BY <1>6, <2>1 DEF Signal, Stop
    <3>2. pc[c] \in {"file", "bump", "check", "add"} => edited'[c] = edited[c] \cap (New \ Listed)
      BY <1>0, <3>1 DEF Uncommitted, Restored
    <3>3. Listed \cap (edited[c] \cap (New \ Listed)) = {}
      OBVIOUS
    <3>4. edited[c] \subseteq {"notes"} \/ edited[c] \subseteq Allowed => edited[c] \cap (New \ Listed) = {}
      BY DEF Allowed, New, Listed
    <3>5. QED
      BY <3>1, <3>2, <3>3, <3>4 DEF Intact, Sound
  <2>2. CASE Goto(c, "refused")
    BY <2>2 DEF Intact
  <2>3. QED
    BY <1>6, <2>1, <2>2 DEF Signal
<1>7. CASE Begin(c) \/ Fetch(c)
  <2>1. pc'[c] \in {"fetch", "declined", "number", "refused"}
    BY <1>7 DEF Begin, Fetch
  <2>2. QED
    BY <2>1 DEF Intact
<1>8. CASE Commit(c) \/ Tag(c) \/ Push(c)
  <2>1. pc'[c] \in {"tag", "uncommitted", "push", "untagged", "released", "unpushed"}
    BY <1>8 DEF Commit, Tag, Push, Stop
  <2>2. QED
    BY <2>1 DEF Intact
<1>9. CASE Kill(c) \/ Return(c) \/ Sync(c)
  <2>1. pc'[c] \in {"killed", "idle"}
    BY <1>9 DEF Kill, Return, Sync
  <2>2. QED
    BY <2>1 DEF Intact
<1>10. ~Meddle(c)
  BY DEF Meddle
<1>11. QED
  BY <1>1, <1>2, <1>3, <1>4, <1>5, <1>6, <1>7, <1>8, <1>9, <1>10 DEF StepOf, Script

LEMMA BumpedStep ==
  ASSUME Typed, Tree, Bumped, [Next]_vars
  PROVE  Bumped'
<1>1. CASE Next
  <2> SUFFICES ASSUME ~meddled', NEW c \in Clones PROVE Intact(c)'
    BY DEF Bumped
  <2>1. ~meddled /\ Intact(c) /\ Tidy(c)
    BY <1>1, MeddledStays DEF Bumped, Tree
  <2>2. CASE UNCHANGED local(c)
    BY <2>1, <2>2 DEF local, Intact
  <2>3. QED
    BY <1>1, <2>1, <2>2, IntactKept, OthersStand, WorldStands DEF Next, StepOf
<1>2. CASE UNCHANGED vars
  BY <1>2 DEF vars, treeVars, histVars, Bumped, Intact
<1>3. QED
  BY <1>1, <1>2

-----------------------------------------------------------------------------
(* The CI of a branch stays green: a run that ended is not run again, and  *)
(* the workflow skips documents.                                           *)

GreenIn(branch, outcome, commits) ==
  \E k \in DOMAIN branch :
    /\ outcome[branch[k]] = "success"
    /\ \A j \in DOMAIN branch : j > k => /\ outcome[branch[j]] = "not run"
                                         /\ commits[branch[j]].kind = "docs"

Green(branch) == GreenIn(branch, ci, log)

Unreleased == {"fetch", "number", "file", "bump", "check", "add", "commit"}

Judged ==
  ~meddled => /\ \A c \in Clones : pc[c] \in Unreleased => Green(main[c])
              /\ \A i \in Releases : Green(log[i].onto)

(***************************************************************************)
(* A set of positions that is not empty has a last one: among its parts    *)
(* from each of its members on, the smallest.                              *)
(***************************************************************************)
LEMMA HasMaximum ==
  ASSUME NEW n \in Nat, NEW S \in SUBSET (1..n), S # {}
  PROVE  Max(S) \in S /\ \A y \in S : Max(S) >= y
<1> DEFINE From(x) == {y \in S : y >= x}
           tails == {From(x) : x \in S}
<1>1. IsFiniteSet(1..n)
  BY FS_Interval
<1>2. IsFiniteSet(S)
  BY <1>1, FS_Subset
<1>3. IsWellFoundedOn(StrictSubsetOrdering(S), FiniteSubsetsOf(S))
  BY FS_StrictSubsetOrderingWellFounded
<1>4. tails \subseteq FiniteSubsetsOf(S)
  <2>1. ASSUME NEW x \in S PROVE From(x) \in SUBSET S /\ IsFiniteSet(From(x))
    BY <1>2, FS_Subset
  <2>2. QED
    BY <2>1 DEF FiniteSubsetsOf
<1>5. tails # {}
  OBVIOUS
<1>6. PICK t \in tails : \A u \in tails : ~(<<u, t>> \in StrictSubsetOrdering(S))
  <2> HIDE DEF tails
  <2>1. QED
    BY <1>3, <1>4, <1>5, WFMin
<1>7. PICK x \in S : t = From(x)
  BY <1>6
<1>8. ASSUME NEW y \in S, ~(x >= y) PROVE FALSE
  <2>1. S \subseteq Nat /\ x \in Nat /\ y \in Nat /\ y > x
    BY <1>8
  <2>2. From(y) \subseteq From(x) /\ From(y) # From(x)
    <3>1. \A z \in S : z >= y => z >= x
      BY <2>1
    <3>2. x \in From(x) /\ x \notin From(y)
      BY <2>1
    <3>3. QED
      BY <3>1, <3>2
  <2>3. <<From(y), From(x)>> \in StrictSubsetOrdering(S)
    BY <2>2 DEF StrictSubsetOrdering
  <2>4. QED
    BY <1>6, <1>7, <2>3
<1>9. QED
  BY <1>7, <1>8 DEF Max

(***************************************************************************)
(* What the guards of the release establish (JudgedBy), in the terms of    *)
(* the invariant.                                                          *)
(***************************************************************************)
LEMMA JudgedIsGreen ==
  ASSUME Typed, NEW b \in Seq(Born)
  PROVE  JudgedBy(b) = "success" <=> Green(b)
<1> DEFINE ran == {k \in DOMAIN b : ci[b[k]] # "not run"}
<1>0. Len(b) \in Nat /\ DOMAIN b = 1..Len(b)
  OBVIOUS
<1>a. \A k : k \in ran <=> (k \in 1..Len(b) /\ ci[b[k]] # "not run")
  BY <1>0
<1>b. ran \in SUBSET (1..Len(b))
  BY <1>a
<1> HIDE DEF ran
<1>c. ran \subseteq Nat
  BY <1>0, <1>b
<1>1. ASSUME JudgedBy(b) = "success" PROVE Green(b)
  <2>1. /\ ran # {} /\ ci[b[Max(ran)]] = "success"
        /\ \A k \in DOMAIN b : k > Max(ran) => log[b[k]].kind = "docs"
    BY <1>1 DEF JudgedBy, ran
  <2>2. Max(ran) \in ran /\ \A k \in ran : Max(ran) >= k
    BY <1>0, <1>a, <1>b, <1>c, <2>1, HasMaximum
  <2>3. ASSUME NEW j \in DOMAIN b, j > Max(ran) PROVE ci[b[j]] = "not run"
    <3>0. j \in Nat
      BY <1>0
    <3>1. j \in Nat /\ Max(ran) \in Nat
      BY <1>c, <2>2, <3>0
    <3>2. j \notin ran
      BY <2>2, <2>3, <3>1
    <3>3. QED
      BY <1>0, <1>a, <1>b, <1>c, <3>2
  <2>4. QED
    BY <1>0, <1>a, <1>b, <1>c, <2>1, <2>2, <2>3 DEF Green, GreenIn
<1>2. ASSUME Green(b) PROVE JudgedBy(b) = "success"
  <2>1. PICK k \in DOMAIN b :
          /\ ci[b[k]] = "success"
          /\ \A j \in DOMAIN b : j > k => ci[b[j]] = "not run" /\ log[b[j]].kind = "docs"
    BY <1>2 DEF Green, GreenIn
  <2>2. k \in ran /\ \A j \in ran : k >= j
    <3>1. k \in ran /\ k \in Nat
      BY <1>0, <1>a, <1>b, <1>c, <2>1
    <3>2. ASSUME NEW j \in ran, ~(k >= j) PROVE FALSE
      <4>1. j \in Nat
        BY <1>c
      <4>2. j \in DOMAIN b /\ ci[b[j]] # "not run"
        BY <1>0, <1>a
      <4>3. j > k
        BY <3>1, <3>2, <4>1
      <4>4. QED
        BY <2>1, <4>2, <4>3
    <3>3. QED
      BY <3>1, <3>2
  <2>3. Max(ran) \in ran /\ \A j \in ran : Max(ran) >= j
    BY <1>0, <1>b, <2>2, HasMaximum
  <2>4. Max(ran) = k
    <3>1. k >= Max(ran) /\ Max(ran) >= k /\ k \in Nat /\ Max(ran) \in Nat
      BY <1>a, <1>b, <1>c, <2>2, <2>3
    <3>2. QED
      BY <3>1
  <2>5. ran # {} /\ \A j \in DOMAIN b : j > Max(ran) => log[b[j]].kind = "docs"
    BY <2>1, <2>2, <2>4
  <2>6. QED
    BY <2>1, <2>4, <2>5 DEF JudgedBy, ran
<1>3. QED
  BY <1>1, <1>2

LEMMA GreenStays ==
  ASSUME Typed, Next, NEW b \in Seq(Born), GreenIn(b, ci, log)
  PROVE  GreenIn(b, ci', log')
<1>1. PICK k \in DOMAIN b :
        /\ ci[b[k]] = "success"
        /\ \A j \in DOMAIN b : j > k => ci[b[j]] = "not run" /\ log[b[j]].kind = "docs"
  BY DEF GreenIn
<1>2. \A j \in DOMAIN b : b[j] \in Born /\ log'[b[j]] = log[b[j]]
  BY ReleasesGrow
<1>3. ci'[b[k]] = "success"
  BY <1>1, <1>2, CiAlwaysMoves DEF CiMoves
<1>4. ASSUME NEW j \in DOMAIN b, j > k PROVE ci'[b[j]] = "not run" /\ log'[b[j]].kind = "docs"
  BY <1>1, <1>2, <1>4, CiAlwaysMoves DEF CiMoves
<1>5. QED
  BY <1>1, <1>3, <1>4 DEF GreenIn

LEMMA JudgedInit == Init => Judged
<1> SUFFICES ASSUME Init PROVE Judged
  OBVIOUS
<1>0. log = <<[kind |-> "code", version |-> 0, onto |-> <<>>, files |-> {}]>> /\ pc = [c \in Clones |-> "idle"]
  BY DEF Init
<1>1. \A i \in DOMAIN log : log[i].kind = "code"
  BY <1>0
<1>2. Releases = {}
  BY <1>1 DEF Releases
<1>3. QED
  BY <1>0, <1>2 DEF Judged, Unreleased

(***************************************************************************)
(* A release is made by the commit of a clone, on the branch it judged.    *)
(***************************************************************************)
LEMMA NewRelease ==
  ASSUME Typed, Next, NEW i \in Releases', i \notin Releases
  PROVE  /\ i = Len(log) + 1 /\ Len(log') = i
         /\ \E c \in Clones : /\ Commit(c) /\ pc[c] = "commit" /\ pc'[c] = "tag"
                             /\ log'[i] = [kind |-> "release", version |-> version[c], onto |-> main[c], files |-> staged[c]]
                             /\ main' = [main EXCEPT ![c] = Append(main[c], i)]
                             /\ UNCHANGED version
<1>0. LogGrows /\ log' \in Seq(Entry) /\ Len(log) \in Nat /\ i \in 1..Len(log') /\ i \notin Born
  BY OnlyThreeCommit, LogType, ReleasesGrow DEF Releases
<1>1. ASSUME NEW kind \in Kinds, NEW v \in Versions, NEW b \in Seq(Born), NEW f \in SUBSET Files,
             NewCommit(kind, v, b, f)
      PROVE  /\ i = Len(log) + 1 /\ Len(log') = i
             /\ log'[i] = [kind |-> kind, version |-> v, onto |-> b, files |-> f] /\ kind = "release"
  <2>1. /\ Len(log') = Len(log) + 1
        /\ log'[Len(log) + 1] = [kind |-> kind, version |-> v, onto |-> b, files |-> f]
    BY <1>1, NewCommitGrows
  <2>2. i = Len(log) + 1
    BY <1>0, <2>1 DEF Born
  <2>3. log'[i].kind = "release"
    BY DEF Releases
  <2>4. QED
    BY <2>1, <2>2, <2>3
<1>2. "release" \in Kinds /\ "code" \in Kinds /\ "docs" \in Kinds /\ 0 \in Versions
      /\ {} \in SUBSET Files
  BY CommitsAssumption DEF Kinds, Versions
<1>3. ~UNCHANGED log
  BY <1>0 DEF Born
<1>4. ASSUME NEW c \in Clones, Commit(c)
      PROVE  /\ NewCommit("release", version[c], main[c], staged[c]) /\ pc[c] = "commit" /\ pc'[c] = "tag"
             /\ main' = [main EXCEPT ![c] = Append(main[c], Len(log) + 1)] /\ UNCHANGED version
  BY <1>3, <1>4 DEF Commit, Goto, Typed, TypeOK
<1>5. ASSUME NEW c \in Clones, Meddle(c) PROVE FALSE
  <2>1. NewCommit("code", 0, main[c], {})
    BY <1>3, <1>5 DEF Meddle
  <2>2. QED
    BY <2>1, <1>1, <1>2, CloneType
<1>6. ~Change
  <2>1. remoteMain \in Seq(Born)
    BY DEF Typed, BranchTypes
  <2>2. Change => \E kind \in {"code", "docs"} : NewCommit(kind, 0, remoteMain, {})
    BY DEF Change
  <2>3. QED
    BY <2>1, <2>2, <1>1, <1>2
<1>7. ASSUME NEW c \in Clones, StepOf(c), ~Commit(c), ~Meddle(c) PROVE FALSE
  BY <1>3, <1>7 DEF StepOf, Script, Begin, Fetch, Number, File, Bump, Check, Add, Tag, Push, Signal,
              Kill, Return, Sync, repoVars
<1>8. ~\E k \in Commits : CiFinish(k)
  BY <1>3 DEF CiFinish, repoVars
<1>9. PICK c \in Clones : Commit(c)
  BY <1>5, <1>6, <1>7, <1>8 DEF Next, StepOf
<1>10. NewCommit("release", version[c], main[c], staged[c])
  BY <1>4, <1>9
<1>11. i = Len(log) + 1 /\ Len(log') = i
       /\ log'[i] = [kind |-> "release", version |-> version[c], onto |-> main[c], files |-> staged[c]]
  BY <1>1, <1>2, <1>10, CloneType
<1>12. QED
  BY <1>4, <1>9, <1>11

LEMMA ReachUnreleased ==
  ASSUME Typed, NEW c \in Clones, StepOf(c), pc'[c] \in Unreleased, ~meddled'
  PROVE  /\ main'[c] = main[c]
         /\ pc[c] \in Unreleased \/ JudgedBy(main[c]) = "success"
<1> USE DEF Typed, TypeOK, Unreleased
<1>1. CASE Begin(c)
  BY <1>1 DEF Begin, Goto, repoVars
<1>2. CASE Fetch(c) \/ Number(c) \/ File(c)
  BY <1>2 DEF Fetch, Number, File, repoVars
<1>3. CASE Bump(c) \/ Check(c) \/ Add(c)
  BY <1>3 DEF Bump, Check, Add, repoVars
<1>4. CASE Commit(c)
  BY <1>4 DEF Commit, Goto, Stop
<1>5. CASE Tag(c) \/ Push(c)
  BY <1>5 DEF Tag, Push, Goto
<1>6. CASE Signal(c)
  BY <1>6 DEF Signal, Goto, Stop, repoVars
<1>7. CASE Meddle(c)
  BY <1>7 DEF Meddle
<1>8. CASE Kill(c) \/ Return(c) \/ Sync(c)
  BY <1>8 DEF Kill, Return, Sync, Goto
<1>9. QED
  BY <1>1, <1>2, <1>3, <1>4, <1>5, <1>6, <1>7, <1>8 DEF StepOf, Script

LEMMA JudgedStep ==
  ASSUME Typed, Judged, [Next]_vars
  PROVE  Judged'
<1>1. CASE Next
  <2> SUFFICES ASSUME ~meddled'
               PROVE  /\ \A c \in Clones : pc'[c] \in Unreleased => GreenIn(main'[c], ci', log')
                      /\ \A i \in Releases' : GreenIn(log'[i].onto, ci', log')
    BY DEF Judged, Green
  <2>0. /\ \A c \in Clones : pc[c] \in Unreleased => GreenIn(main[c], ci, log)
        /\ \A i \in Releases : GreenIn(log[i].onto, ci, log)
    BY <1>1, MeddledStays DEF Judged, Green
  <2>1. ASSUME NEW c \in Clones, pc[c] \in Unreleased
        PROVE  GreenIn(main[c], ci', log')
    BY <1>1, <2>0, <2>1, CloneType, GreenStays
  <2>2. ASSUME NEW c \in Clones, pc'[c] \in Unreleased
        PROVE  GreenIn(main'[c], ci', log')
    <3>1. CASE UNCHANGED local(c)
      BY <2>1, <2>2, <3>1 DEF local
    <3>2. CASE StepOf(c)
      <4>1. main'[c] = main[c] /\ (pc[c] \in Unreleased \/ GreenIn(main[c], ci, log))
        BY <2>2, <3>2, ReachUnreleased, JudgedIsGreen, CloneType DEF Green
      <4>2. GreenIn(main[c], ci', log')
        BY <1>1, <2>1, <4>1, CloneType, GreenStays
      <4>3. QED
        BY <4>1, <4>2
    <3>3. QED
      BY <1>1, <3>1, <3>2, OthersStand, WorldStands DEF Next, StepOf
  <2>3. ASSUME NEW i \in Releases' PROVE GreenIn(log'[i].onto, ci', log')
    <3>1. CASE i \in Releases
      <4>1. log'[i] = log[i] /\ log[i].onto \in Seq(Born)
        BY <1>1, <3>1, ReleasesGrow DEF Typed, BranchTypes
      <4>2. QED
        BY <1>1, <2>0, <3>1, <4>1, GreenStays
    <3>2. CASE i \notin Releases
      <4>1. PICK c \in Clones : /\ pc[c] = "commit"
                               /\ log'[i] = [kind |-> "release", version |-> version[c], onto |-> main[c], files |-> staged[c]]
        BY <1>1, <3>2, NewRelease
      <4>2. log'[i].onto = main[c]
        BY <4>1
      <4>3. QED
        BY <2>1, <4>1, <4>2 DEF Unreleased
    <3>3. QED
      BY <3>1, <3>2
  <2>4. QED
    BY <2>2, <2>3
<1>2. CASE UNCHANGED vars
  <2>1. UNCHANGED <<pc, main, log, ci, meddled>>
    BY <1>2 DEF vars, repoVars, remoteVars, histVars
  <2>2. Releases' = Releases
    BY <2>1 DEF Releases
  <2>3. QED
    BY <2>1, <2>2 DEF Judged, Green
<1>3. QED
  BY <1>1, <1>2

(***************************************************************************)
(* A release commit goes on a branch whose CI is green (lines 74 to 91),   *)
(* whatever ran or was pushed between the check and the commit.            *)
(***************************************************************************)
THEOREM ReleasesAreGreen == Spec => []ReleasedOnGreen
<1>1. Spec => [](Typed /\ Judged)
  BY JudgedInit, JudgedStep, TypedAlways, PTL DEF Spec
<1>2. Typed /\ Judged => ReleasedOnGreen
  <2>1. ASSUME Typed, Judged, ~meddled, NEW i \in Releases PROVE JudgedBy(log[i].onto) = "success"
    <3>1. log[i].onto \in Seq(Born) /\ Green(log[i].onto)
      BY <2>1, LogType DEF Typed, BranchTypes, Judged, Releases
    <3>2. QED
      BY <2>1, <3>1, JudgedIsGreen
  <2>2. QED
    BY <2>1 DEF ReleasedOnGreen
<1>3. QED
  BY <1>1, <1>2, PTL

-----------------------------------------------------------------------------
(* Tags: a name tags one commit in each clone, and the tag about to be     *)
(* pushed names the release commit.                                        *)

OneCommitEach(ts) == \A t, u \in ts : t[1] = u[1] => t = u

TagInv ==
  /\ OneCommitEach(remoteTags)
  /\ \A c \in Clones : OneCommitEach(tags[c])
  /\ \A c \in Clones : pc[c] = "push" => TagsOf(version[c], tags[c]) # {}

LEMMA UnionNamesOnce ==
  ASSUME NEW A, NEW B, OneCommitEach(A), OneCommitEach(B), \A t \in B : TagsOf(t[1], A) \subseteq {t}
  PROVE  OneCommitEach(A \cup B)
<1>1. \A t \in A, u \in B : t[1] = u[1] => t = u
  BY DEF TagsOf
<1>2. QED
  BY <1>1 DEF OneCommitEach

LEMMA ReachPush ==
  ASSUME Typed, NEW c \in Clones, StepOf(c), pc'[c] = "push"
  PROVE  /\ version'[c] = version[c]
         /\ \/ pc[c] = "tag" /\ UNCHANGED main /\ <<version[c], HEAD(c)>> \in tags'[c]
            \/ pc[c] = "push" /\ UNCHANGED tags
<1>0. tags \in [Clones -> SUBSET (Versions \X Commits)]
  BY DEF Typed, TypeOK
<1>1. /\ version'[c] = version[c] /\ ~Commit(c) /\ ~Sync(c) /\ ~Push(c)
      /\ pc[c] \in {"tag", "push"}
  <2>1. Commit(c) => pc'[c] # "push"
    BY DEF Commit, Goto, Stop, Typed, TypeOK
  <2>2. QED
    BY <2>1, ReachTag
<1>2. CASE Tag(c)
  <2>1. tags' = [tags EXCEPT ![c] = @ \cup {<<version[c], HEAD(c)>>}]
    BY <1>2 DEF Tag, Goto, Typed, TypeOK
  <2>2. pc[c] = "tag" /\ UNCHANGED main
    BY <1>2 DEF Tag
  <2>3. QED
    BY <1>0, <1>1, <2>1, <2>2
<1>3. CASE ~Tag(c)
  <2>1. UNCHANGED tags /\ pc[c] = "push"
    BY <1>1, <1>3 DEF StepOf, Script, Begin, Fetch, Number, File, Bump, Check, Add, Signal, Kill,
                      Meddle, Return, repoVars, Goto, Stop, Typed, TypeOK
  <2>2. QED
    BY <1>1, <2>1
<1>4. QED
  BY <1>2, <1>3

LEMMA TagInvInit == Init => TagInv
  BY DEF Init, TagInv, OneCommitEach

LEMMA TagInvStep ==
  ASSUME Typed, TagInv, [Next]_vars
  PROVE  TagInv'
<1>0. tags \in [Clones -> SUBSET (Versions \X Commits)]
  BY DEF Typed, TypeOK
<1>1. ASSUME Next, NEW c \in Clones, StepOf(c) PROVE OneCommitEach(tags'[c])
  <2>0. OneCommitEach(remoteTags) /\ OneCommitEach(tags[c])
    BY DEF TagInv
  <2>1. CASE UNCHANGED tags
    BY <2>0, <2>1
  <2>2. CASE Fetch(c)
    <3>1. CASE /\ \A t \in remoteTags : TagsOf(t[1], tags[c]) \subseteq {t}
               /\ tags' = [tags EXCEPT ![c] = @ \cup remoteTags]
      <4>1. tags'[c] = tags[c] \cup remoteTags
        BY <1>0, <3>1
      <4>2. QED
        BY <2>0, <3>1, <4>1, UnionNamesOnce
    <3>2. ASSUME NEW got \in SUBSET {t \in remoteTags : TagsOf(t[1], tags[c]) = {}},
                 tags' = [tags EXCEPT ![c] = @ \cup got]
          PROVE  OneCommitEach(tags'[c])
      <4>1. tags'[c] = tags[c] \cup got
        BY <1>0, <3>2
      <4>2. OneCommitEach(got) /\ \A t \in got : TagsOf(t[1], tags[c]) \subseteq {t}
        BY <2>0 DEF OneCommitEach
      <4>3. QED
        BY <2>0, <4>1, <4>2, UnionNamesOnce
    <3>3. QED
      BY <2>1, <2>2, <3>1, <3>2 DEF Fetch
  <2>3. CASE Sync(c)
    <3> DEFINE new == {t \in remoteTags : t[2] \in Range(remoteMain) /\ TagsOf(t[1], tags[c]) = {}}
    <3>1. tags'[c] = tags[c] \cup new
      BY <1>0, <2>3 DEF Sync
    <3>2. OneCommitEach(new) /\ \A t \in new : TagsOf(t[1], tags[c]) \subseteq {t}
      BY <2>0 DEF OneCommitEach
    <3> HIDE DEF new
    <3>3. QED
      BY <2>0, <3>1, <3>2, UnionNamesOnce
  <2>4. CASE Tag(c)
    <3>1. CASE /\ TagsOf(version[c], tags[c]) = {}
               /\ tags' = [tags EXCEPT ![c] = @ \cup {<<version[c], HEAD(c)>>}]
      <4>1. tags'[c] = tags[c] \cup {<<version[c], HEAD(c)>>}
        BY <1>0, <3>1
      <4>2. OneCommitEach({<<version[c], HEAD(c)>>})
        BY DEF OneCommitEach
      <4>3. \A t \in {<<version[c], HEAD(c)>>} : TagsOf(t[1], tags[c]) \subseteq {t}
        BY <3>1
      <4>4. QED
        BY <2>0, <4>1, <4>2, <4>3, UnionNamesOnce
    <3>2. QED
      BY <2>1, <2>4, <3>1 DEF Tag
  <2>5. CASE ~Fetch(c) /\ ~Sync(c) /\ ~Tag(c)
    <3>1. UNCHANGED tags
      BY <1>1, <2>5 DEF StepOf, Script, Begin, Number, File, Bump, Check, Add, Commit, Push, Signal,
                        Kill, Meddle, Return, repoVars
    <3>2. QED
      BY <2>1, <3>1
  <2>6. QED
    BY <2>2, <2>3, <2>4, <2>5
<1>2. ASSUME NEW c \in Clones, Push(c) PROVE OneCommitEach(remoteTags')
  <2> DEFINE own == TagsOf(version[c], tags[c])
  <2>0. OneCommitEach(remoteTags) /\ OneCommitEach(tags[c])
    BY DEF TagInv
  <2>1. PICK refs \in SUBSET Taken(c) : Receive(c, refs)
    BY <1>2, PushReceives
  <2>2. CASE "tag" \notin refs
    BY <2>0, <2>1, <2>2, ReceiveTakes
  <2>3. CASE "tag" \in refs
    <3>1. remoteTags' = remoteTags \cup own /\ TagsOf(version[c], remoteTags) \subseteq own
      BY <2>1, <2>3, ReceiveTakes
    <3>2. OneCommitEach(own) /\ \A t, u \in own : t = u /\ t[1] = version[c]
      BY <2>0 DEF OneCommitEach, TagsOf
    <3>3. \A t \in own : TagsOf(t[1], remoteTags) \subseteq {t}
      BY <3>1, <3>2
    <3>4. QED
      BY <2>0, <3>1, <3>2, <3>3, UnionNamesOnce
  <2>4. QED
    BY <2>2, <2>3
<1>3. ASSUME NEW c \in Clones, StepOf(c), pc'[c] = "push" PROVE TagsOf(version'[c], tags'[c]) # {}
  <2>1. CASE <<version[c], HEAD(c)>> \in tags'[c]
    <3>1. <<version[c], HEAD(c)>> \in TagsOf(version[c], tags'[c])
      BY <2>1 DEF TagsOf
    <3>2. QED
      BY <1>3, <3>1, ReachPush
  <2>2. CASE pc[c] = "push" /\ UNCHANGED tags
    BY <1>3, <2>2, ReachPush DEF TagInv
  <2>3. QED
    BY <1>3, <2>1, <2>2, ReachPush
<1>4. CASE Next
  <2>1. OneCommitEach(remoteTags')
    <3>1. (\E c \in Clones : Push(c)) \/ UNCHANGED remoteTags
      BY <1>4 DEF Next, Script, Begin, Fetch, Number, File, Bump, Check, Add, Commit, Tag, Signal,
                  Kill, Meddle, Return, Sync, Change, CiFinish, remoteVars
    <3>2. QED
      BY <1>2, <3>1 DEF TagInv
  <2>2. ASSUME NEW c \in Clones
        PROVE  OneCommitEach(tags'[c]) /\ (pc'[c] = "push" => TagsOf(version'[c], tags'[c]) # {})
    <3>1. CASE StepOf(c)
      BY <1>1, <1>3, <1>4, <3>1
    <3>2. CASE UNCHANGED <<pc[c], version[c], tags[c]>>
      BY <3>2 DEF TagInv
    <3>3. QED
      BY <1>4, <3>1, <3>2, OthersStand, WorldStands DEF Next, StepOf, local
  <2>3. QED
    BY <2>1, <2>2 DEF TagInv
<1>5. CASE UNCHANGED vars
  BY <1>5 DEF vars, repoVars, remoteVars, TagInv
<1>6. QED
  BY <1>4, <1>5

(***************************************************************************)
(* Every step of a release maps to a step of the register or leaves it     *)
(* alone.  What a push brings of tags is nothing new, or a first name for  *)
(* the version.                                                            *)
(***************************************************************************)
LEMMA StepOfTheRegister ==
  ASSUME Typed, TagInv, Next
  PROVE  Remote!Next \/ UNCHANGED <<remoteMain, remoteTags>>
<1>0. Remote!Grow /\ remoteTags \subseteq remoteTags'
  BY RemoteAlwaysGrows DEF RemoteGrows, Remote!Grow, IsPrefix, Remote!IsPrefix
<1>1. CASE UNCHANGED remoteTags
  BY <1>0, <1>1 DEF Remote!Next, Remote!Advance
<1>2. ASSUME NEW c \in Clones, Push(c), ~UNCHANGED remoteTags PROVE Remote!Next
  <2> DEFINE own == TagsOf(version[c], tags[c])
  <2>1. PICK refs \in SUBSET Taken(c) : Receive(c, refs)
    BY <1>2, PushReceives
  <2>2. remoteTags' = remoteTags \cup own /\ TagsOf(version[c], remoteTags) \subseteq own
    BY <1>2, <2>1, ReceiveTakes
  <2>3. \A t, u \in own : t = u
    BY DEF TagInv, OneCommitEach, TagsOf
  <2>4. PICK t \in own : TRUE
    BY <1>2 DEF TagInv, Push
  <2>5. own = {t}
    BY <2>3, <2>4
  <2>6. t \in Versions \X Commits /\ t[1] = version[c]
    BY <2>4, CloneType DEF TagsOf
  <2>7. t = <<t[1], t[2]>> /\ t[1] \in Versions /\ t[2] \in Commits
    BY <2>6
  <2>8. TagsOf(t[1], remoteTags) = {}
    BY <1>2, <2>2, <2>5, <2>6 DEF TagsOf
  <2>9. \A u \in remoteTags : u[1] # t[1]
    BY <2>8 DEF TagsOf
  <2>10. remoteTags' = remoteTags \cup {<<t[1], t[2]>>}
    BY <2>2, <2>5, <2>7
  <2>11. Remote!Publish(t[1], t[2])
    BY <1>0, <2>9, <2>10 DEF Remote!Publish
  <2>12. QED
    BY <2>7, <2>11 DEF Remote!Next
<1>3. (\E c \in Clones : Push(c)) \/ UNCHANGED remoteTags
  BY DEF Next, Script, Begin, Fetch, Number, File, Bump, Check, Add, Commit, Tag, Signal, Kill,
         Meddle, Return, Sync, Change, CiFinish, remoteVars
<1>4. QED
  BY <1>1, <1>2, <1>3

(***************************************************************************)
(* The remote is a register, whatever two clones that cut one version and  *)
(* the developers push: a published tag stays and is its version's only    *)
(* one, and main is never rewound (line 173 pushes without force).         *)
(***************************************************************************)
THEOREM ReleaseImplementsRegister == Spec => RemoteIsARegister
<1>1. Init => Remote!Init
  BY DEF Init, Remote!Init
<1>2. Typed /\ TagInv /\ [Next]_vars => [Remote!Next]_<<remoteMain, remoteTags>>
  <2>1. CASE UNCHANGED vars
    BY <2>1 DEF vars, remoteVars
  <2>2. QED
    BY <2>1, StepOfTheRegister
<1>3. Spec => [](Typed /\ TagInv)
  BY TagInvInit, TagInvStep, TypedAlways, PTL DEF Spec
<1>4. QED
  BY <1>1, <1>2, <1>3, PTL DEF Spec, RemoteIsARegister, Remote!Spec

Made(c) == /\ HEAD(c) \in Releases
           /\ log[HEAD(c)].version = version[c]
           /\ TagBody \/ Complete(HEAD(c))
Tagged(c) == <<version[c], HEAD(c)>> \in tags[c]
Whole(c) == \E i \in Releases : /\ <<version[c], i>> \in remoteTags
                                /\ i \in Range(remoteMain) /\ log[i].version = version[c]
                                /\ TagBody \/ Complete(i)

Aimed(c) ==
  /\ pc[c] \in {"tag", "push"} => Made(c)
  /\ pc[c] = "push" => Tagged(c)
  /\ pc[c] = "released" => Whole(c)

Cut == ~meddled => \A c \in Clones : Aimed(c)

LEMMA PrefixMeans ==
  ASSUME NEW S, NEW a \in Seq(S), NEW b \in Seq(S)
  PROVE  IsPrefix(a, b) <=> Len(a) <= Len(b) /\ \A k \in 1..Len(a) : a[k] = b[k]
<1>0. Len(a) \in Nat /\ Len(b) \in Nat /\ DOMAIN a = 1..Len(a) /\ DOMAIN b = 1..Len(b)
  OBVIOUS
<1>1. ASSUME Len(a) <= Len(b)
      PROVE  SubSeq(a, 1, Len(a)) = SubSeq(b, 1, Len(a)) <=> \A k \in 1..Len(a) : a[k] = b[k]
  <2>1. /\ SubSeq(a, 1, Len(a)) = [k \in 1..Len(a) |-> a[k]]
        /\ SubSeq(b, 1, Len(a)) = [k \in 1..Len(a) |-> b[k]]
    BY <1>0, <1>1
  <2>2. QED
    BY <2>1
<1>2. QED
  BY <1>1 DEF IsPrefix

LEMMA RangeGrows ==
  ASSUME Typed, Next
  PROVE  Range(remoteMain) \subseteq Range(remoteMain')
<1>1. IsPrefix(remoteMain, remoteMain')
  BY RemoteAlwaysGrows DEF RemoteGrows
<1>2. remoteMain \in Seq(Born') /\ remoteMain' \in Seq(Born')
  BY BranchStep, BranchLasts, OnlyThreeCommit DEF Typed, BranchTypes
<1>3. /\ Len(remoteMain) <= Len(remoteMain') /\ DOMAIN remoteMain = 1..Len(remoteMain)
      /\ \A k \in 1..Len(remoteMain) : remoteMain[k] = remoteMain'[k]
      /\ DOMAIN remoteMain' = 1..Len(remoteMain') /\ Len(remoteMain) \in Nat /\ Len(remoteMain') \in Nat
  BY <1>1, <1>2, PrefixMeans
<1>4. \A k \in DOMAIN remoteMain : k \in DOMAIN remoteMain' /\ remoteMain[k] = remoteMain'[k]
  BY <1>3
<1>5. QED
  BY <1>4 DEF Range

LEMMA CutInit == Init => Cut
  BY DEF Init, Cut, Aimed

\* Only a push that was taken whole ends as released.
LEMMA ReachReleased ==
  ASSUME Typed, NEW c \in Clones, StepOf(c), pc'[c] = "released"
  PROVE  /\ pc[c] = "push" /\ Push(c) /\ Receive(c, {"main", "tag"}) /\ UNCHANGED broken
         /\ {"main", "tag"} \in SUBSET Taken(c)
<1> USE DEF Typed, TypeOK
<1>1. CASE Push(c)
  <2>1. PICK refs \in SUBSET Taken(c) :
          /\ Receive(c, refs)
          /\ \/ refs = {"main", "tag"} /\ Goto(c, "released") /\ UNCHANGED broken
             \/ broken' = TRUE /\ Goto(c, "unpushed")
    BY <1>1, PushReceives
  <2>2. refs = {"main", "tag"} /\ UNCHANGED broken
    BY <2>1 DEF Goto
  <2>3. QED
    BY <1>1, <2>1, <2>2 DEF Push
<1>2. CASE Begin(c) \/ Fetch(c) \/ Number(c) \/ File(c) \/ Bump(c) \/ Check(c) \/ Add(c)
  BY <1>2 DEF Begin, Fetch, Number, File, Bump, Check, Add, Goto, Stop
<1>3. CASE Commit(c) \/ Tag(c) \/ Kill(c) \/ Return(c) \/ Sync(c)
  BY <1>3 DEF Commit, Tag, Kill, Return, Sync, Goto, Stop
<1>4. CASE Signal(c) \/ Meddle(c)
  BY <1>4 DEF Signal, Meddle, Goto, Stop, Running, Trapped
<1>5. QED
  BY <1>1, <1>2, <1>3, <1>4 DEF StepOf, Script

\* What holds of a clone that another's step leaves alone.
LEMMA AimStays ==
  ASSUME Typed, Next, NEW c \in Clones, UNCHANGED local(c), Aimed(c)
  PROVE  Aimed(c)'
<1>1. /\ UNCHANGED <<pc[c], version[c], tags[c]>> /\ main'[c] = main[c] /\ HEAD(c)' = HEAD(c)
      /\ HEAD(c) \in Born
  BY CloneType DEF local, HEAD
<1>2. pc'[c] \in {"tag", "push"} => Made(c)'
  BY <1>1, ReleasesGrow DEF Aimed, Made, Complete
<1>3. pc'[c] = "push" => Tagged(c)'
  BY <1>1 DEF Aimed, Tagged
<1>4. ASSUME pc'[c] = "released" PROVE Whole(c)'
  <2>1. PICK i \in Releases : /\ <<version[c], i>> \in remoteTags
                              /\ i \in Range(remoteMain) /\ log[i].version = version[c]
                              /\ TagBody \/ Complete(i)
    BY <1>1, <1>4 DEF Aimed, Whole
  <2>2. i \in Releases' /\ log'[i] = log[i]
    BY ReleasesGrow
  <2>3. <<version[c], i>> \in remoteTags /\ i \in Range(remoteMain)
        /\ log[i].version = version[c] /\ (TagBody \/ Complete(i))
    BY <2>1
  <2>4. <<version[c], i>> \in remoteTags' /\ i \in Range(remoteMain')
    BY <2>3, RemoteAlwaysGrows, RangeGrows DEF RemoteGrows
  <2>5. TagBody \/ Complete(i)'
    BY <2>2, <2>3 DEF Complete
  <2>6. QED
    BY <1>1, <2>2, <2>3, <2>4, <2>5 DEF Whole
<1>5. QED
  BY <1>2, <1>3, <1>4 DEF Aimed

LEMMA CommitMoves ==
  ASSUME Typed, NEW c \in Clones, Commit(c), NewCommit("release", version[c], main[c], staged[c])
  PROVE  /\ Len(log') = Len(log) + 1 /\ log' \in Seq(Entry)
         /\ log'[Len(log) + 1] = [kind |-> "release", version |-> version[c], onto |-> main[c], files |-> staged[c]]
         /\ main' = [main EXCEPT ![c] = Append(main[c], Len(log) + 1)]
         /\ main'[c] = Append(main[c], Len(log) + 1)
         /\ pc[c] = "commit" /\ pc'[c] = "tag" /\ UNCHANGED version
         /\ staged[c] # {}
<1>1. /\ Len(log') = Len(log) + 1 /\ log' \in Seq(Entry)
      /\ log'[Len(log) + 1] = [kind |-> "release", version |-> version[c], onto |-> main[c], files |-> staged[c]]
  BY NewCommitGrows, CloneType DEF Kinds
<1>2. log' # log
  BY <1>1, LogType
<1>3. main' = [main EXCEPT ![c] = Append(main[c], Len(log) + 1)] /\ pc[c] = "commit" /\ Goto(c, "tag")
      /\ staged[c] # {}
  BY <1>2 DEF Commit
<1>4. QED
  BY <1>1, <1>3 DEF Commit, Goto, Typed, TypeOK

LEMMA MakesRelease ==
  ASSUME Typed, Next, NEW c \in Clones, Intact(c), Commit(c), NewCommit("release", version[c], main[c], staged[c])
  PROVE  Made(c)'
<1>1. /\ Len(log') = Len(log) + 1 /\ log' \in Seq(Entry)
      /\ log'[Len(log) + 1] = [kind |-> "release", version |-> version[c], onto |-> main[c], files |-> staged[c]]
      /\ main'[c] = Append(main[c], Len(log) + 1) /\ UNCHANGED version
      /\ pc[c] = "commit" /\ staged[c] # {}
  BY CommitMoves
<1>2. HEAD(c)' = Len(log) + 1
  BY <1>1, CloneType, LogType DEF HEAD, Last
<1>3. Len(log) + 1 \in DOMAIN log'
  BY <1>1, LogType
<1>4. Len(log) + 1 \in Releases' /\ log'[Len(log) + 1].version = version[c]
  BY <1>1, <1>3 DEF Releases
<1>5. log'[HEAD(c)'].files = staged[c]
  BY <1>1, <1>2
<1>6. TagBody \/ ("notes" \in staged[c] /\ Listed \cap staged[c] \in {{}, Listed})
  BY <1>1 DEF Intact, Sound
<1>7. TagBody \/ Complete(HEAD(c))'
  BY <1>5, <1>6 DEF Complete
<1>8. QED
  BY <1>1, <1>2, <1>4, <1>7 DEF Made

LEMMA AimKept ==
  ASSUME Typed, Next, NEW c \in Clones, StepOf(c), Intact(c), Aimed(c), ~meddled'
  PROVE  Aimed(c)'
<1>1. ASSUME pc'[c] \in {"tag", "push"} PROVE Made(c)'
  <2>1. CASE NewCommit("release", version[c], main[c], staged[c]) /\ Commit(c)
    BY <2>1, MakesRelease
  <2>2. CASE pc[c] \in {"tag", "push"} /\ ~Commit(c) /\ ~Sync(c)
    <3>1. ~Meddle(c)
      BY DEF Meddle
    <3>2. UNCHANGED main /\ version'[c] = version[c]
      BY <1>1, <2>2, <3>1, MainComesFrom, ReachTag
    <3>3. HEAD(c)' = HEAD(c) /\ HEAD(c) \in Born
      BY <3>2, CloneType DEF HEAD
    <3>4. QED
      BY <2>2, <3>2, <3>3, ReleasesGrow DEF Aimed, Made, Complete
  <2>3. QED
    BY <1>1, <2>1, <2>2, ReachTag
<1>2. ASSUME pc'[c] = "push" PROVE Tagged(c)'
  <2>1. ~Commit(c) /\ ~Sync(c) /\ ~Meddle(c)
    <3>1. Commit(c) => pc'[c] # "push"
      BY DEF Commit, Goto, Stop, Typed, TypeOK
    <3>2. QED
      BY <1>2, <3>1, ReachTag DEF Meddle
  <2>2. UNCHANGED main /\ HEAD(c)' = HEAD(c)
    BY <2>1, MainComesFrom DEF HEAD
  <2>3. QED
    BY <1>2, <2>2, ReachPush DEF Aimed, Tagged
<1>3. ASSUME pc'[c] = "released" PROVE Whole(c)'
  <2>1. /\ pc[c] = "push" /\ Push(c) /\ Receive(c, {"main", "tag"})
        /\ {"main", "tag"} \in SUBSET Taken(c)
    BY <1>3, ReachReleased
  <2>2. /\ remoteMain' = main[c] /\ remoteTags' = remoteTags \cup TagsOf(version[c], tags[c])
        /\ UNCHANGED <<log, version>>
    BY <2>1, ReceiveTakes DEF Push, repoVars
  <2>3. Made(c) /\ Tagged(c)
    BY <2>1 DEF Aimed
  <2>4. <<version[c], HEAD(c)>> \in remoteTags'
    BY <2>2, <2>3 DEF Tagged, TagsOf
  <2>5. HEAD(c) \in Range(main[c])
    <3>1. Len(main[c]) \in DOMAIN main[c] /\ HEAD(c) = main[c][Len(main[c])]
      BY CloneType, LogType, BranchType DEF Born
    <3>2. QED
      BY <3>1 DEF Range
  <2>6. HEAD(c) \in Releases' /\ log'[HEAD(c)].version = version[c]
       /\ log'[HEAD(c)] = log[HEAD(c)] /\ (TagBody \/ Complete(HEAD(c)))
    BY <2>2, <2>3, ReleasesGrow DEF Made
  <2>7. QED
    BY <2>2, <2>4, <2>5, <2>6 DEF Whole, Complete
<1>4. QED
  BY <1>1, <1>2, <1>3 DEF Aimed

LEMMA CutStep ==
  ASSUME Typed, Bumped, Cut, [Next]_vars
  PROVE  Cut'
<1>1. CASE Next
  <2> SUFFICES ASSUME ~meddled', NEW c \in Clones PROVE Aimed(c)'
    BY DEF Cut
  <2>1. Aimed(c) /\ Intact(c)
    BY <1>1, MeddledStays DEF Cut, Bumped
  <2>2. QED
    BY <1>1, <2>1, AimKept, AimStays, OthersStand, WorldStands DEF Next, StepOf
<1>2. CASE UNCHANGED vars
  <2>1. UNCHANGED <<pc, version, main, tags, log, remoteMain, remoteTags, meddled>>
    BY <1>2 DEF vars, repoVars, remoteVars, histVars
  <2>2. Releases' = Releases /\ \A c \in Clones : HEAD(c)' = HEAD(c)
    BY <2>1 DEF Releases, HEAD
  <2>3. QED
    BY <2>1, <2>2 DEF Cut, Aimed, Made, Tagged, Whole, Complete
<1>3. QED
  BY <1>1, <1>2

LEMMA CutAlways == Spec => []Cut
<1>1. Spec => []Tree
  BY TreeInit, TreeInvStep, TypedAlways, PTL DEF Spec
<1>2. Spec => []Bumped
  BY <1>1, BumpedInit, BumpedStep, TypedAlways, PTL DEF Spec
<1>3. QED
  BY <1>2, CutInit, CutStep, TypedAlways, PTL DEF Spec

(***************************************************************************)
(* A release that reports success is whole: the remote has its tag, and    *)
(* the tagged commit, which is named for that version, is on its main.     *)
(* Where the annotation is the notes' section, that commit holds the       *)
(* section and no half of a bump.                                          *)
(***************************************************************************)
THEOREM ReleasedIsWhole == Spec => []SuccessIsWhole
<1>1. Cut => SuccessIsWhole
  BY DEF Cut, Aimed, Whole, SuccessIsWhole
<1>2. QED
  BY <1>1, CutAlways, PTL

-----------------------------------------------------------------------------
(* The numbers.  A clone that has fetched counts the releases of the       *)
(* remote's main as it was then, its first n commits; its own main is no   *)
(* longer than that, and when the push is taken there was nothing new.     *)

TagsIn(branch) == {<<log[i].version, i>> : i \in Releases \cap Range(branch)}
FirstTags(n) == {<<log[remoteMain[j]].version, remoteMain[j]>> : j \in ReleasesUpTo(remoteMain, n)}

Numbered(branch) ==
  \A k \in DOMAIN branch : branch[k] \in Releases =>
    log[branch[k]].version = Cardinality(ReleasesUpTo(branch, k - 1))

Behind(c) ==
  IF pc[c] \in {"tag", "push"}
  THEN IsPrefix(Front(main[c]), remoteMain)
  ELSE IsPrefix(main[c], remoteMain)

Known(c) ==
  \A t \in tags[c] : t \in remoteTags \/ (pc[c] = "push" /\ t = <<version[c], HEAD(c)>>)

Counted(c) ==
  /\ pc[c] = "number" /\ ~dry[c] =>
       \E n \in Len(main[c])..Len(remoteMain) : tags[c] = FirstTags(n)
  /\ pc[c] \in {"file", "bump", "check", "add", "commit"} /\ ~dry[c] =>
       \E n \in Len(main[c])..Len(remoteMain) :
         version[c] = Cardinality(ReleasesUpTo(remoteMain, n))
  /\ pc[c] \in {"tag", "push"} =>
       \E n \in (Len(main[c]) - 1)..Len(remoteMain) :
         version[c] = Cardinality(ReleasesUpTo(remoteMain, n))

Wet == \A c \in Clones : pc[c] \in {"add", "commit", "tag", "push"} => ~dry[c]

Numbering ==
  ~broken /\ ~meddled =>
    /\ Numbered(remoteMain)
    /\ remoteTags = TagsIn(remoteMain)
    /\ \A c \in Clones : Behind(c) /\ Known(c) /\ Counted(c)

(***************************************************************************)
(* What the remote's main has by any step, however the log has grown: the  *)
(* same commits, the same of them releases, recording the same versions.   *)
(***************************************************************************)
LEMMA RemoteStands ==
  ASSUME Typed, Next
  PROVE  /\ Len(remoteMain) \in Nat /\ Len(remoteMain') \in Nat /\ Len(remoteMain) <= Len(remoteMain')
         /\ \A j \in 1..Len(remoteMain) :
              /\ remoteMain[j] \in Born /\ remoteMain'[j] = remoteMain[j]
              /\ remoteMain[j] \in Releases' <=> remoteMain[j] \in Releases
              /\ log'[remoteMain[j]] = log[remoteMain[j]]
<1>1. IsPrefix(remoteMain, remoteMain')
  BY RemoteAlwaysGrows DEF RemoteGrows
<1>2. remoteMain \in Seq(Born) /\ remoteMain \in Seq(Born') /\ remoteMain' \in Seq(Born')
  BY BranchStep, BranchLasts, OnlyThreeCommit DEF Typed, BranchTypes
<1>3. /\ Len(remoteMain) \in Nat /\ Len(remoteMain') \in Nat /\ Len(remoteMain) <= Len(remoteMain')
      /\ \A j \in 1..Len(remoteMain) : remoteMain'[j] = remoteMain[j]
  BY <1>1, <1>2, PrefixMeans
<1>4. ASSUME NEW j \in 1..Len(remoteMain)
      PROVE  /\ remoteMain[j] \in Born
             /\ remoteMain[j] \in Releases' <=> remoteMain[j] \in Releases
             /\ log'[remoteMain[j]] = log[remoteMain[j]]
  <2>1. remoteMain[j] \in Born
    BY <1>2
  <2>2. QED
    BY <2>1, ReleasesGrow
<1>5. QED
  BY <1>3, <1>4

LEMMA FirstStand ==
  ASSUME Typed, Next, NEW n \in 0..Len(remoteMain)
  PROVE  /\ n \in 0..Len(remoteMain')
         /\ ReleasesUpTo(remoteMain, n)' = ReleasesUpTo(remoteMain, n)
         /\ FirstTags(n)' = FirstTags(n)
<1>1. n \in Nat /\ n <= Len(remoteMain) /\ n \in 0..Len(remoteMain') /\ \A j \in 1..n : j \in 1..Len(remoteMain)
  BY RemoteStands
<1>2. \A j \in 1..n :
        /\ remoteMain'[j] = remoteMain[j]
        /\ remoteMain[j] \in Releases' <=> remoteMain[j] \in Releases
        /\ log'[remoteMain[j]] = log[remoteMain[j]]
  BY <1>1, RemoteStands
<1>3. ReleasesUpTo(remoteMain, n)' = ReleasesUpTo(remoteMain, n)
  <2>1. \A j \in 1..n : remoteMain'[j] \in Releases' <=> remoteMain[j] \in Releases
    BY <1>2
  <2>2. {j \in 1..n : remoteMain'[j] \in Releases'} = {j \in 1..n : remoteMain[j] \in Releases}
    BY <2>1
  <2>3. QED
    BY <2>2 DEF ReleasesUpTo
<1>4. FirstTags(n)' = FirstTags(n)
  <2>1. \A j \in ReleasesUpTo(remoteMain, n) :
          <<log'[remoteMain'[j]].version, remoteMain'[j]>> = <<log[remoteMain[j]].version, remoteMain[j]>>
    <3>1. \A j \in ReleasesUpTo(remoteMain, n) : j \in 1..n
      BY DEF ReleasesUpTo
    <3>2. QED
      BY <1>2, <3>1
  <2>2. QED
    BY <1>3, <2>1 DEF FirstTags
<1>5. QED
  BY <1>1, <1>3, <1>4

(***************************************************************************)
(* The names of the first tags are as many as the releases: each is the    *)
(* number of those before it, so that two releases never share one.        *)
(***************************************************************************)
LEMMA CountNames ==
  ASSUME Typed, Numbered(remoteMain), NEW n \in 0..Len(remoteMain)
  PROVE  Cardinality({t[1] : t \in FirstTags(n)}) = Cardinality(ReleasesUpTo(remoteMain, n))
<1> DEFINE R(k) == ReleasesUpTo(remoteMain, k)
           ver(j) == log[remoteMain[j]].version
           names == {t[1] : t \in FirstTags(n)}
           f == [j \in R(n) |-> ver(j)]
<1>0. n \in Nat /\ Len(remoteMain) \in Nat /\ n <= Len(remoteMain) /\ DOMAIN remoteMain = 1..Len(remoteMain)
  BY DEF Typed, BranchTypes
<1>1. ASSUME NEW k \in Nat PROVE IsFiniteSet(R(k)) /\ R(k) \subseteq 1..k
  <2>1. IsFiniteSet(1..k)
    BY FS_Interval
  <2>2. R(k) \subseteq 1..k
    BY DEF ReleasesUpTo
  <2>3. QED
    BY <2>1, <2>2, FS_Subset
<1>2. names = {ver(j) : j \in R(n)}
  <2>1. FirstTags(n) = {<<ver(j), remoteMain[j]>> : j \in R(n)}
    BY DEF FirstTags
  <2>2. ASSUME NEW x \in names PROVE x \in {ver(j) : j \in R(n)}
    <3>1. PICK t \in FirstTags(n) : x = t[1]
      OBVIOUS
    <3>2. PICK j \in R(n) : t = <<ver(j), remoteMain[j]>>
      BY <2>1
    <3>3. QED
      BY <3>1, <3>2
  <2>3. ASSUME NEW j \in R(n) PROVE ver(j) \in names
    <3>1. <<ver(j), remoteMain[j]>> \in FirstTags(n)
      BY <2>1
    <3>2. <<ver(j), remoteMain[j]>>[1] = ver(j)
      OBVIOUS
    <3>3. QED
      BY <3>1, <3>2
  <2>4. QED
    BY <2>2, <2>3
<1>3. f \in Surjection(R(n), names)
  BY <1>2 DEF Surjection
<1>4. ASSUME NEW j \in R(n), NEW k \in R(n), j < k PROVE ver(j) # ver(k)
  <2>1. /\ j \in 1..n /\ k \in 1..n /\ remoteMain[j] \in Releases /\ remoteMain[k] \in Releases
    BY DEF ReleasesUpTo
  <2>2. j - 1 \in Nat /\ k - 1 \in Nat /\ j \in DOMAIN remoteMain /\ k \in DOMAIN remoteMain
    BY <1>0, <2>1
  <2>3. ver(j) = Cardinality(R(j - 1)) /\ ver(k) = Cardinality(R(k - 1))
    BY <2>1, <2>2 DEF Numbered
  <2>4. j \in R(k - 1) /\ j \notin R(j - 1)
    BY <1>0, <1>4, <2>1 DEF ReleasesUpTo
  <2>5. R(j - 1) \subseteq R(k - 1)
    BY <1>0, <1>4, <2>1 DEF ReleasesUpTo
  <2>6. IsFiniteSet(R(k - 1))
    BY <1>1, <2>2
  <2>7. Cardinality(R(k - 1)) # Cardinality(R(j - 1))
    BY <2>4, <2>5, <2>6, FS_Subset
  <2>8. QED
    BY <2>3, <2>7
<1>5. f \in Injection(R(n), names)
  <2>1. ASSUME NEW j \in R(n), NEW k \in R(n), f[j] = f[k] PROVE j = k
    <3>1. j \in Nat /\ k \in Nat
      BY <1>0, <1>1
    <3>2. ver(j) = ver(k)
      BY <2>1
    <3>3. ~(j < k) /\ ~(k < j)
      BY <1>4, <3>2
    <3>4. QED
      BY <3>1, <3>3
  <2>2. QED
    BY <1>2, <2>1 DEF Injection, IsInjective
<1>6. QED
  BY <1>0, <1>1, <1>3, <1>5, FS_Bijection DEF ExistsBijection, Bijection

(***************************************************************************)
(* A push that is taken whole: there was nothing on the remote's main but  *)
(* what the release stands on, so that its number is the count of those    *)
(* before it.                                                              *)
(***************************************************************************)
LEMMA PushedAlone ==
  ASSUME Typed, NEW c \in Clones, Behind(c), pc[c] = "push", IsPrefix(remoteMain, main[c])
  PROVE  /\ Len(remoteMain) \in {Len(main[c]) - 1, Len(main[c])}
         /\ \A k \in 1..Len(remoteMain) : main[c][k] = remoteMain[k]
         /\ Len(remoteMain) \in Nat /\ DOMAIN remoteMain = 1..Len(remoteMain)
         /\ Len(main[c]) \in Nat /\ Len(main[c]) >= 1 /\ DOMAIN main[c] = 1..Len(main[c])
<1>1. main[c] \in Seq(Born) /\ remoteMain \in Seq(Born) /\ main[c] # <<>>
  BY DEF Typed, BranchTypes
<1>2. Len(remoteMain) <= Len(main[c]) /\ \A k \in 1..Len(remoteMain) : main[c][k] = remoteMain[k]
  BY <1>1, PrefixMeans
<1>3. Front(main[c]) \in Seq(Born) /\ Len(Front(main[c])) = Len(main[c]) - 1
  BY <1>1 DEF Front
<1>4. Len(main[c]) - 1 <= Len(remoteMain)
  BY <1>1, <1>3, PrefixMeans DEF Behind
<1>5. QED
  BY <1>1, <1>2, <1>4

LEMMA PushNumbers ==
  ASSUME Typed, TagInv, NEW c \in Clones, pc[c] = "push", Aimed(c), Behind(c), Counted(c),
         Numbered(remoteMain), remoteTags = TagsIn(remoteMain), IsPrefix(remoteMain, main[c])
  PROVE  /\ Numbered(main[c])
         /\ remoteTags \cup TagsOf(version[c], tags[c]) = TagsIn(main[c])
<1> DEFINE m == Len(main[c])
           n == Len(remoteMain)
<1>1. /\ n \in {m - 1, m} /\ n \in Nat /\ m \in Nat /\ m >= 1
      /\ DOMAIN remoteMain = 1..n /\ DOMAIN main[c] = 1..m
      /\ \A k \in 1..n : main[c][k] = remoteMain[k]
  BY PushedAlone
<1>2. HEAD(c) \in Releases /\ log[HEAD(c)].version = version[c] /\ <<version[c], HEAD(c)>> \in tags[c]
  BY DEF Aimed, Made, Tagged
<1>3. HEAD(c) = main[c][m]
  BY CloneType
<1>4. \A k \in 0..n : ReleasesUpTo(main[c], k) = ReleasesUpTo(remoteMain, k)
  BY <1>1 DEF ReleasesUpTo
<1>5. ASSUME NEW k \in 1..m, main[c][k] \in Releases
      PROVE  log[main[c][k]].version = Cardinality(ReleasesUpTo(main[c], k - 1))
  <2>1. CASE k \in 1..n
    <3>1. k - 1 \in 0..n /\ main[c][k] = remoteMain[k]
      BY <1>1, <2>1
    <3>2. QED
      BY <1>1, <1>4, <1>5, <2>1, <3>1 DEF Numbered
  <2>2. CASE k \notin 1..n
    <3>1. k = m /\ n = m - 1
      BY <1>1, <2>2
    <3>2. PICK j \in (m - 1)..n : version[c] = Cardinality(ReleasesUpTo(remoteMain, j))
      BY DEF Counted
    <3>3. j = n /\ k - 1 = n /\ n \in 0..n
      BY <1>1, <3>1, <3>2
    <3>4. QED
      BY <1>2, <1>3, <1>4, <3>1, <3>2, <3>3
  <2>3. QED
    BY <2>1, <2>2
<1>6. Numbered(main[c])
  BY <1>1, <1>5 DEF Numbered
<1>7. Range(main[c]) = Range(remoteMain) \cup {HEAD(c)}
  <2>1. ASSUME NEW x \in Range(main[c]) PROVE x \in Range(remoteMain) \cup {HEAD(c)}
    <3>1. PICK k \in 1..m : x = main[c][k]
      BY <1>1 DEF Range
    <3>2. k \in 1..n \/ k = m
      BY <1>1
    <3>3. QED
      BY <1>1, <1>3, <3>1, <3>2 DEF Range
  <2>2. ASSUME NEW x \in Range(remoteMain) PROVE x \in Range(main[c])
    <3>1. PICK k \in 1..n : x = remoteMain[k]
      BY <1>1 DEF Range
    <3>2. k \in 1..m
      BY <1>1
    <3>3. QED
      BY <1>1, <3>1, <3>2 DEF Range
  <2>3. HEAD(c) \in Range(main[c])
    <3>1. m \in DOMAIN main[c]
      BY <1>1
    <3>2. QED
      BY <1>3, <3>1 DEF Range
  <2>4. QED
    BY <2>1, <2>2, <2>3
<1>8. TagsIn(main[c]) = TagsIn(remoteMain) \cup {<<version[c], HEAD(c)>>}
  BY <1>2, <1>7 DEF TagsIn
<1>9. TagsOf(version[c], tags[c]) = {<<version[c], HEAD(c)>>}
  <2>1. \A t \in tags[c] : t[1] = version[c] => t = <<version[c], HEAD(c)>>
    BY <1>2 DEF TagInv, OneCommitEach
  <2>2. QED
    BY <1>2, <2>1 DEF TagsOf
<1>10. QED
  BY <1>6, <1>8, <1>9

(***************************************************************************)
(* Each clause under a step of its own clone, while nothing is broken.     *)
(***************************************************************************)
LEMMA LeaveTag ==
  ASSUME Typed, NEW c \in Clones, StepOf(c), ~broken',
         pc[c] \in {"tag", "push"}, pc'[c] \notin {"tag", "push"}
  PROVE  pc'[c] = "released"
<1> USE DEF Typed, TypeOK
<1>1. CASE Push(c)
  BY <1>1 DEF Push, Goto
<1>2. CASE Tag(c)
  BY <1>2 DEF Tag, Goto
<1>3. CASE Kill(c)
  BY <1>3 DEF Kill
<1>4. CASE Signal(c)
  BY <1>4 DEF Signal, Goto, Stop, Running, Trapped
<1>5. CASE Meddle(c)
  BY <1>5 DEF Meddle
<1>6. CASE Begin(c) \/ Fetch(c) \/ Number(c) \/ File(c) \/ Bump(c) \/ Check(c) \/ Add(c) \/ Commit(c)
           \/ Return(c) \/ Sync(c)
  BY <1>6 DEF Begin, Fetch, Number, File, Bump, Check, Add, Commit, Return, Sync, Ended
<1>7. QED
  BY <1>1, <1>2, <1>3, <1>4, <1>5, <1>6 DEF StepOf, Script

LEMMA OnlyPushMoves ==
  ASSUME NEW c \in Clones, StepOf(c), ~Push(c)
  PROVE  UNCHANGED <<remoteMain, remoteTags>>
  BY DEF StepOf, Script, Begin, Fetch, Number, File, Bump, Check, Add, Commit, Tag, Signal,
         Kill, Meddle, Return, Sync, remoteVars

LEMMA BehindKept ==
  ASSUME Typed, Next, NEW c \in Clones, StepOf(c), Behind(c), ~broken', ~meddled'
  PROVE  Behind(c)'
<1>0. /\ main[c] \in Seq(Born) /\ remoteMain \in Seq(Born) /\ ~Meddle(c)
      /\ main \in [Clones -> Branches]
  BY DEF Typed, TypeOK, BranchTypes, Meddle
<1>1. CASE pc'[c] \in {"tag", "push"}
  <2>1. CASE Commit(c) /\ pc[c] = "commit" /\ NewCommit("release", version[c], main[c], staged[c])
    <3>1. main'[c] = Append(main[c], Len(log) + 1)
      BY <2>1, CommitMoves
    <3>2. Front(main'[c]) = main[c]
      BY <1>0, <3>1 DEF Front
    <3>3. UNCHANGED remoteMain
      BY <2>1 DEF Commit, remoteVars
    <3>4. IsPrefix(main[c], remoteMain)
      BY <2>1 DEF Behind
    <3>5. QED
      BY <1>1, <3>2, <3>3, <3>4 DEF Behind
  <2>2. CASE pc[c] \in {"tag", "push"} /\ ~Commit(c) /\ ~Sync(c) /\ ~Push(c)
    <3>1. UNCHANGED <<main, remoteMain>>
      BY <1>0, <2>2, MainComesFrom, OnlyPushMoves
    <3>2. QED
      BY <1>1, <2>2, <3>1 DEF Behind
  <2>3. QED
    BY <1>1, <2>1, <2>2, ReachTag
<1>2. CASE pc'[c] \notin {"tag", "push"}
  <2>1. CASE pc'[c] = "released"
    <3>1. Push(c) /\ Receive(c, {"main", "tag"})
      BY <2>1, ReachReleased
    <3>2. remoteMain' = main[c] /\ UNCHANGED main
      BY <3>1 DEF Push, Receive, repoVars
    <3>3. IsPrefix(main'[c], remoteMain')
      BY <1>0, <3>2, PrefixOfItself
    <3>4. QED
      BY <1>2, <3>3 DEF Behind
  <2>2. CASE pc'[c] # "released"
    <3>0. pc[c] \notin {"tag", "push"}
      BY <1>2, <2>2, LeaveTag
    <3>1. UNCHANGED remoteMain
      BY <3>0, OnlyPushMoves DEF Push
    <3>2. CASE UNCHANGED main
      BY <1>2, <3>0, <3>1, <3>2 DEF Behind
    <3>3. CASE main' = [main EXCEPT ![c] = remoteMain]
      <4>1. main'[c] = remoteMain
        BY <1>0, <3>3
      <4>2. QED
        BY <1>0, <1>2, <3>1, <4>1, PrefixOfItself DEF Behind
    <3>4. ASSUME Commit(c), NewCommit("release", version[c], main[c], staged[c]) PROVE FALSE
      BY <1>2, <3>4, CommitMoves
    <3>5. QED
      BY <1>0, <3>2, <3>3, <3>4, MainComesFrom
  <2>3. QED
    BY <2>1, <2>2
<1>3. QED
  BY <1>1, <1>2

LEMMA KnownKept ==
  ASSUME Typed, Next, NEW c \in Clones, StepOf(c), Known(c), ~broken', ~meddled'
  PROVE  Known(c)'
<1>0. tags \in [Clones -> SUBSET (Versions \X Commits)] /\ ~Meddle(c)
  BY DEF Typed, TypeOK, Meddle
<1>1. remoteTags \subseteq remoteTags'
  BY RemoteAlwaysGrows DEF RemoteGrows
<1>2. ASSUME pc'[c] = "push"
      PROVE  version'[c] = version[c] /\ HEAD(c)' = HEAD(c) /\ pc[c] \in {"tag", "push"}
  <2>1. Commit(c) => pc'[c] # "push"
    BY DEF Commit, Goto, Stop, Typed, TypeOK
  <2>2. version'[c] = version[c] /\ ~Commit(c) /\ ~Sync(c) /\ pc[c] \in {"tag", "push"}
    BY <1>2, <2>1, ReachTag
  <2>3. UNCHANGED main
    BY <1>0, <2>2, MainComesFrom
  <2>4. QED
    BY <2>2, <2>3 DEF HEAD
<1>3. ASSUME NEW t \in tags'[c]
      PROVE  t \in remoteTags' \/ (pc'[c] = "push" /\ t = <<version'[c], HEAD(c)'>>)
  <2>1. CASE t \in tags[c]
    <3>1. CASE t \in remoteTags
      BY <1>1, <3>1
    <3>2. CASE pc[c] = "push" /\ t = <<version[c], HEAD(c)>>
      <4>1. CASE pc'[c] = "push"
        BY <1>2, <3>2, <4>1
      <4>2. CASE pc'[c] # "push"
        <5>1. pc'[c] # "tag"
          <6>1. ASSUME pc'[c] = "tag" PROVE FALSE
            <7>1. ~Commit(c) /\ ~Tag(c) /\ ~Push(c)
              BY <3>2, <6>1, ReachTag DEF Tag
            <7>2. QED
              BY <1>0, <3>2, <6>1, <7>1 DEF StepOf, Script, Begin, Fetch, Number, File, Bump, Check,
                 Add, Signal, Kill, Return, Sync, Goto, Stop, Typed, TypeOK
          <6>2. QED
            BY <6>1
        <5>2. pc'[c] = "released"
          BY <3>2, <4>2, <5>1, LeaveTag
        <5>3. remoteTags' = remoteTags \cup TagsOf(version[c], tags[c])
          BY <5>2, ReachReleased, ReceiveTakes
        <5>4. t \in TagsOf(version[c], tags[c])
          BY <2>1, <3>2 DEF TagsOf
        <5>5. QED
          BY <5>3, <5>4
      <4>3. QED
        BY <4>1, <4>2
    <3>3. QED
      BY <2>1, <3>1, <3>2 DEF Known
  <2>2. CASE t \in remoteTags
    BY <1>1, <2>2
  <2>3. CASE t \notin tags[c] /\ pc[c] = "tag" /\ t = <<version[c], HEAD(c)>>
    <3>1. tags' # tags
      BY <2>3
    <3>2. Tag(c)
      BY <2>3, <3>1 DEF StepOf, Script, Begin, Fetch, Number, File, Bump, Check, Add, Commit, Push,
                        Signal, Kill, Meddle, Return, Sync, repoVars
    <3>3. pc'[c] = "push"
      BY <3>1, <3>2 DEF Tag, Goto, Typed, TypeOK
    <3>4. QED
      BY <1>2, <2>3, <3>3
  <2>4. QED
    BY <2>1, <2>2, <2>3, TagsComeFrom
<1>4. QED
  BY <1>3 DEF Known

Filed == {"file", "bump", "check", "add", "commit"}

LEMMA WetStep ==
  ASSUME Typed, Wet, [Next]_vars
  PROVE  Wet'
<1> USE DEF Typed, TypeOK
<1>1. ASSUME NEW c \in Clones, StepOf(c), pc'[c] \in {"add", "commit", "tag", "push"} PROVE ~dry'[c]
  <2>1. CASE Check(c)
    BY <1>1, <2>1 DEF Check, Goto, Stop
  <2>2. CASE Begin(c) \/ Fetch(c) \/ Number(c) \/ File(c) \/ Bump(c)
    BY <1>1, <2>2 DEF Begin, Fetch, Number, File, Bump, Goto, Stop
  <2>3. CASE Add(c) \/ Commit(c) \/ Tag(c) \/ Push(c)
    BY <2>3 DEF Add, Commit, Tag, Push, Wet
  <2>4. CASE Signal(c) \/ Meddle(c)
    BY <1>1, <2>4 DEF Signal, Meddle, Goto, Stop, Wet
  <2>5. CASE Kill(c) \/ Return(c) \/ Sync(c)
    BY <1>1, <2>5 DEF Kill, Return, Sync, Goto
  <2>6. QED
    BY <1>1, <2>1, <2>2, <2>3, <2>4, <2>5 DEF StepOf, Script
<1>2. CASE Next
  <2>1. ASSUME NEW c \in Clones, pc'[c] \in {"add", "commit", "tag", "push"} PROVE ~dry'[c]
    <3>1. CASE UNCHANGED local(c)
      BY <2>1, <3>1 DEF Wet, local
    <3>2. QED
      BY <1>1, <1>2, <2>1, <3>1, OthersStand, WorldStands DEF Next, StepOf
  <2>2. QED
    BY <2>1 DEF Wet
<1>3. CASE UNCHANGED vars
  BY <1>3 DEF vars, Wet
<1>4. QED
  BY <1>2, <1>3

LEMMA ReachFiled ==
  ASSUME Typed, NEW c \in Clones, StepOf(c), pc'[c] \in Filed
  PROVE  /\ dry'[c] = dry[c]
         /\ \/ pc[c] \in Filed /\ version'[c] = version[c]
            \/ pc[c] = "number" /\ version'[c] = Cardinality({t[1] : t \in tags[c]})
<1> USE DEF Typed, TypeOK, Filed
<1>1. CASE Number(c)
  BY <1>1 DEF Number
<1>2. CASE File(c) \/ Bump(c) \/ Check(c) \/ Add(c)
  BY <1>2 DEF File, Bump, Check, Add
<1>3. CASE Begin(c) \/ Fetch(c) \/ Commit(c) \/ Tag(c) \/ Push(c)
  BY <1>3 DEF Begin, Fetch, Commit, Tag, Push, Goto, Stop
<1>4. CASE Signal(c) \/ Meddle(c)
  BY <1>4 DEF Signal, Meddle, Goto, Stop
<1>5. CASE Kill(c) \/ Return(c) \/ Sync(c)
  BY <1>5 DEF Kill, Return, Sync, Goto
<1>6. QED
  BY <1>1, <1>2, <1>3, <1>4, <1>5 DEF StepOf, Script

LEMMA ReachNumber ==
  ASSUME Typed, NEW c \in Clones, StepOf(c), pc'[c] = "number", ~dry'[c]
  PROVE  /\ ~dry[c]
         /\ \/ pc[c] = "number" /\ UNCHANGED tags
            \/ pc[c] = "fetch" /\ tags' = [tags EXCEPT ![c] = @ \cup remoteTags]
<1> USE DEF Typed, TypeOK
<1>1. CASE Fetch(c)
  BY <1>1 DEF Fetch, Goto
<1>2. CASE Begin(c) \/ Number(c) \/ File(c) \/ Bump(c) \/ Check(c) \/ Add(c)
  BY <1>2 DEF Begin, Number, File, Bump, Check, Add, Goto, Stop
<1>3. CASE Commit(c) \/ Tag(c) \/ Push(c) \/ Kill(c) \/ Return(c)
  BY <1>3 DEF Commit, Tag, Push, Kill, Return, Goto, Stop
<1>4. CASE Signal(c) \/ Meddle(c)
  BY <1>4 DEF Signal, Meddle, Goto, Stop, repoVars, Trapped
<1>5. CASE Sync(c)
  BY <1>5 DEF Sync
<1>6. QED
  BY <1>1, <1>2, <1>3, <1>4, <1>5 DEF StepOf, Script

LEMMA CountedKept ==
  ASSUME Typed, Wet, Next, NEW c \in Clones, StepOf(c), Behind(c), Known(c), Counted(c),
         Numbered(remoteMain), remoteTags = TagsIn(remoteMain), ~broken', ~meddled'
  PROVE  Counted(c)'
<1>0. /\ main[c] \in Seq(Born) /\ remoteMain \in Seq(Born) /\ ~Meddle(c)
      /\ Len(main[c]) \in Nat /\ Len(main[c]) >= 1 /\ Len(remoteMain) \in Nat /\ Len(remoteMain') \in Nat
      /\ Len(remoteMain) <= Len(remoteMain')
  BY RemoteStands DEF Typed, BranchTypes, Meddle
<1>1. ASSUME pc'[c] \in Unreleased PROVE main'[c] = main[c]
  BY <1>1, ReachUnreleased
<1>2. ASSUME pc'[c] = "number", ~dry'[c]
      PROVE  \E n \in Len(main'[c])..Len(remoteMain') : tags'[c] = FirstTags(n)'
  <2>0. main'[c] = main[c]
    BY <1>1, <1>2 DEF Unreleased
  <2>1. CASE pc[c] = "number" /\ UNCHANGED tags
    <3>1. PICK n \in Len(main[c])..Len(remoteMain) : tags[c] = FirstTags(n)
      BY <1>2, <2>1, ReachNumber DEF Counted
    <3>2. n \in 0..Len(remoteMain) /\ n \in Len(main[c])..Len(remoteMain')
      BY <1>0, <3>1
    <3>3. FirstTags(n)' = FirstTags(n)
      BY <3>2, FirstStand
    <3>4. QED
      BY <2>0, <2>1, <3>1, <3>2, <3>3
  <2>2. CASE pc[c] = "fetch" /\ tags' = [tags EXCEPT ![c] = @ \cup remoteTags]
    <3> DEFINE n == Len(remoteMain)
    <3>1. tags'[c] = remoteTags
      BY <2>2 DEF Known, Typed, TypeOK
    <3>2. FirstTags(n) = TagsIn(remoteMain)
      <4>1. DOMAIN remoteMain = 1..n
        BY <1>0
      <4>2. ASSUME NEW t \in FirstTags(n) PROVE t \in TagsIn(remoteMain)
        <5>1. PICK j \in ReleasesUpTo(remoteMain, n) : t = <<log[remoteMain[j]].version, remoteMain[j]>>
          BY DEF FirstTags
        <5>2. remoteMain[j] \in Releases \cap Range(remoteMain)
          BY <4>1 DEF ReleasesUpTo, Range
        <5>3. QED
          BY <5>1, <5>2 DEF TagsIn
      <4>3. ASSUME NEW t \in TagsIn(remoteMain) PROVE t \in FirstTags(n)
        <5>1. PICK i \in Releases \cap Range(remoteMain) : t = <<log[i].version, i>>
          BY DEF TagsIn
        <5>2. PICK j \in 1..n : i = remoteMain[j]
          BY <4>1 DEF Range
        <5>3. j \in ReleasesUpTo(remoteMain, n)
          BY <5>1, <5>2 DEF ReleasesUpTo
        <5>4. QED
          BY <5>1, <5>2, <5>3 DEF FirstTags
      <4>4. QED
        BY <4>2, <4>3
    <3>3. Len(main[c]) <= n
      BY <1>0, <2>2, PrefixMeans DEF Behind
    <3>4. n \in 0..Len(remoteMain) /\ n \in Len(main[c])..Len(remoteMain')
      BY <1>0, <3>3
    <3>5. FirstTags(n)' = FirstTags(n)
      <4>1. \A k \in 0..Len(remoteMain) : FirstTags(k)' = FirstTags(k)
        BY FirstStand
      <4>2. UNCHANGED remoteMain
        BY <2>2, OnlyPushMoves DEF Push
      <4>3. n' = n
        BY <4>2
      <4>4. QED
        BY <3>4, <4>1, <4>3
    <3>6. QED
      BY <2>0, <3>1, <3>2, <3>4, <3>5
  <2>3. QED
    BY <1>2, <2>1, <2>2, ReachNumber
<1>3. ASSUME pc'[c] \in Filed, ~dry'[c]
      PROVE  \E n \in Len(main'[c])..Len(remoteMain') :
               version'[c] = Cardinality(ReleasesUpTo(remoteMain, n)')
  <2>0. main'[c] = main[c] /\ ~dry[c]
    BY <1>1, <1>3, ReachFiled DEF Unreleased, Filed
  <2>1. PICK n \in Len(main[c])..Len(remoteMain) : version'[c] = Cardinality(ReleasesUpTo(remoteMain, n))
    <3>1. CASE pc[c] \in Filed /\ version'[c] = version[c]
      BY <2>0, <3>1 DEF Counted, Filed
    <3>2. CASE pc[c] = "number" /\ version'[c] = Cardinality({t[1] : t \in tags[c]})
      <4>1. PICK n \in Len(main[c])..Len(remoteMain) : tags[c] = FirstTags(n)
        BY <2>0, <3>2 DEF Counted
      <4>2. n \in 0..Len(remoteMain)
        BY <1>0
      <4>3. QED
        BY <3>2, <4>1, <4>2, CountNames
    <3>3. QED
      BY <1>3, <3>1, <3>2, ReachFiled
  <2>2. n \in 0..Len(remoteMain) /\ n \in Len(main[c])..Len(remoteMain')
    BY <1>0
  <2>3. ReleasesUpTo(remoteMain, n)' = ReleasesUpTo(remoteMain, n)
    BY <2>2, FirstStand
  <2>4. QED
    BY <2>0, <2>1, <2>2, <2>3
<1>4. ASSUME pc'[c] \in {"tag", "push"}
      PROVE  \E n \in (Len(main'[c]) - 1)..Len(remoteMain') :
               version'[c] = Cardinality(ReleasesUpTo(remoteMain, n)')
  <2>1. PICK n \in (Len(main'[c]) - 1)..Len(remoteMain) :
          version'[c] = Cardinality(ReleasesUpTo(remoteMain, n)) /\ n \in 0..Len(remoteMain)
    <3>1. CASE Commit(c) /\ NewCommit("release", version[c], main[c], staged[c])
      <4>1. /\ main'[c] = Append(main[c], Len(log) + 1) /\ pc[c] = "commit" /\ UNCHANGED version
        BY <3>1, CommitMoves
      <4>2. Len(main'[c]) - 1 = Len(main[c])
        BY <1>0, <4>1
      <4>3. PICK n \in Len(main[c])..Len(remoteMain) :
              version[c] = Cardinality(ReleasesUpTo(remoteMain, n))
        BY <4>1 DEF Counted, Wet
      <4>4. n \in 0..Len(remoteMain)
        BY <1>0
      <4>5. QED
        BY <4>1, <4>2, <4>3, <4>4
    <3>2. CASE pc[c] \in {"tag", "push"} /\ ~Commit(c) /\ ~Sync(c)
      <4>1. UNCHANGED main /\ version'[c] = version[c]
        BY <1>0, <1>4, <3>2, MainComesFrom, ReachTag
      <4>2. PICK n \in (Len(main[c]) - 1)..Len(remoteMain) :
              version[c] = Cardinality(ReleasesUpTo(remoteMain, n))
        BY <3>2 DEF Counted
      <4>3. n \in 0..Len(remoteMain)
        BY <1>0
      <4>4. QED
        BY <4>1, <4>2, <4>3
    <3>3. QED
      BY <1>4, <3>1, <3>2, ReachTag
  <2>2. n \in (Len(main'[c]) - 1)..Len(remoteMain')
    BY <1>0, <2>1
  <2>3. ReleasesUpTo(remoteMain, n)' = ReleasesUpTo(remoteMain, n)
    BY <2>1, FirstStand
  <2>4. QED
    BY <2>1, <2>2, <2>3
<1>5. QED
  BY <1>2, <1>3, <1>4 DEF Counted, Filed

(***************************************************************************)
(* The remote's own numbers: what it had keeps them, a change pushed       *)
(* elsewhere is no release, and a release that is pushed has the next one. *)
(***************************************************************************)
LEMMA OldNumbers ==
  ASSUME Typed, Next, Numbered(remoteMain), NEW k \in 1..Len(remoteMain), remoteMain'[k] \in Releases'
  PROVE  log'[remoteMain'[k]].version = Cardinality(ReleasesUpTo(remoteMain, k - 1)')
<1>1. /\ remoteMain'[k] = remoteMain[k] /\ remoteMain[k] \in Releases
      /\ log'[remoteMain[k]] = log[remoteMain[k]] /\ Len(remoteMain) \in Nat
  BY RemoteStands
<1>2. k - 1 \in 0..Len(remoteMain) /\ k \in DOMAIN remoteMain
  BY <1>1 DEF Typed, BranchTypes
<1>3. ReleasesUpTo(remoteMain, k - 1)' = ReleasesUpTo(remoteMain, k - 1)
  BY <1>2, FirstStand
<1>4. QED
  BY <1>1, <1>2, <1>3 DEF Numbered

LEMMA OldTags ==
  ASSUME Typed, Next
  PROVE  \A i \in Range(remoteMain) : /\ i \in Releases' <=> i \in Releases
                                     /\ log'[i] = log[i]
<1>1. \A i \in Range(remoteMain) : i \in Born
  BY DEF Typed, BranchTypes, Range
<1>2. QED
  BY <1>1, ReleasesGrow

LEMMA RemoteNumbered ==
  ASSUME Typed, TagInv, Cut, Next, Numbered(remoteMain), remoteTags = TagsIn(remoteMain),
         \A c \in Clones : Behind(c) /\ Counted(c), ~broken', ~meddled'
  PROVE  Numbered(remoteMain)' /\ remoteTags' = TagsIn(remoteMain)'
<1>0. /\ DOMAIN remoteMain = 1..Len(remoteMain) /\ DOMAIN remoteMain' = 1..Len(remoteMain')
      /\ Len(remoteMain) \in Nat /\ remoteMain \in Seq(Born)
  BY BranchStep DEF Typed, BranchTypes
<1>1. CASE UNCHANGED <<remoteMain, remoteTags>>
  <2>1. Numbered(remoteMain)'
    <3>1. ASSUME NEW k \in DOMAIN remoteMain', remoteMain'[k] \in Releases'
          PROVE  log'[remoteMain'[k]].version = Cardinality(ReleasesUpTo(remoteMain, k - 1)')
      BY <1>0, <1>1, <3>1, OldNumbers
    <3>2. QED
      BY <3>1 DEF Numbered
  <2>2. Releases' \cap Range(remoteMain') = Releases \cap Range(remoteMain)
    BY <1>1, OldTags
  <2>3. \A i \in Releases \cap Range(remoteMain) : <<log'[i].version, i>> = <<log[i].version, i>>
    BY OldTags
  <2>4. TagsIn(remoteMain)' = TagsIn(remoteMain)
    BY <2>2, <2>3 DEF TagsIn
  <2>5. QED
    BY <1>1, <2>1, <2>4
<1>2. CASE Change
  <2>1. PICK kind \in {"code", "docs"} : NewCommit(kind, 0, remoteMain, {})
    BY <1>2 DEF Change
  <2>2. /\ Len(log') = Len(log) + 1
        /\ log'[Len(log) + 1] = [kind |-> kind, version |-> 0, onto |-> remoteMain, files |-> {}]
    <3>1. kind \in Kinds /\ 0 \in Versions /\ {} \in SUBSET Files
      BY <2>1, CommitsAssumption DEF Kinds, Versions
    <3>2. QED
      BY <1>0, <2>1, <3>1, NewCommitGrows
  <2>3. Len(log) + 1 \notin Releases'
    BY <2>1, <2>2 DEF Releases
  <2>4. remoteMain' = Append(remoteMain, Len(log) + 1) /\ UNCHANGED remoteTags
    BY <1>2 DEF Change
  <2>5. /\ Len(remoteMain') = Len(remoteMain) + 1
        /\ remoteMain'[Len(remoteMain) + 1] = Len(log) + 1
        /\ \A k \in 1..Len(remoteMain) : remoteMain'[k] = remoteMain[k]
    BY <1>0, <2>4
  <2>6. Numbered(remoteMain)'
    <3>1. ASSUME NEW k \in DOMAIN remoteMain', remoteMain'[k] \in Releases'
          PROVE  log'[remoteMain'[k]].version = Cardinality(ReleasesUpTo(remoteMain, k - 1)')
      <4>1. k # Len(remoteMain) + 1
        BY <2>3, <2>5, <3>1
      <4>2. k \in 1..Len(remoteMain)
        BY <1>0, <2>5, <4>1
      <4>3. QED
        BY <3>1, <4>2, OldNumbers
    <3>2. QED
      BY <3>1 DEF Numbered
  <2>7. Range(remoteMain') = Range(remoteMain) \cup {Len(log) + 1}
    <3>1. ASSUME NEW k \in DOMAIN remoteMain' PROVE remoteMain'[k] \in Range(remoteMain) \cup {Len(log) + 1}
      <4>1. k \in 1..Len(remoteMain) \/ k = Len(remoteMain) + 1
        BY <1>0, <2>5
      <4>2. QED
        BY <1>0, <2>5, <4>1 DEF Range
    <3>2. ASSUME NEW k \in 1..Len(remoteMain) PROVE remoteMain[k] \in Range(remoteMain')
      <4>1. k \in DOMAIN remoteMain'
        BY <1>0, <2>5
      <4>2. QED
        BY <2>5, <4>1 DEF Range
    <3>3. Len(log) + 1 \in Range(remoteMain')
      <4>1. Len(remoteMain) + 1 \in DOMAIN remoteMain'
        BY <1>0, <2>5
      <4>2. QED
        BY <2>5, <4>1 DEF Range
    <3>4. \A x \in Range(remoteMain) : \E k \in 1..Len(remoteMain) : x = remoteMain[k]
      BY <1>0 DEF Range
    <3>5. \A x \in Range(remoteMain') : \E k \in DOMAIN remoteMain' : x = remoteMain'[k]
      BY DEF Range
    <3>6. QED
      BY <3>1, <3>2, <3>3, <3>4, <3>5
  <2>8. Releases' \cap Range(remoteMain') = Releases \cap Range(remoteMain)
    BY <2>3, <2>7, OldTags
  <2>9. \A i \in Releases \cap Range(remoteMain) : <<log'[i].version, i>> = <<log[i].version, i>>
    BY OldTags
  <2>10. TagsIn(remoteMain)' = TagsIn(remoteMain)
    BY <2>8, <2>9 DEF TagsIn
  <2>11. QED
    BY <2>4, <2>6, <2>10
<1>3. ASSUME NEW c \in Clones, Push(c)
      PROVE  Numbered(remoteMain)' /\ remoteTags' = TagsIn(remoteMain)'
  <2>1. pc[c] = "push" /\ StepOf(c) /\ UNCHANGED log
    BY <1>3 DEF Push, StepOf, Script, repoVars
  <2>2. pc'[c] = "released"
    BY <1>3, PushReceives DEF Goto, Typed, TypeOK
  <2>3. /\ Receive(c, {"main", "tag"}) /\ {"main", "tag"} \in SUBSET Taken(c)
    BY <2>1, <2>2, ReachReleased
  <2>4. /\ remoteMain' = main[c] /\ IsPrefix(remoteMain, main[c])
        /\ remoteTags' = remoteTags \cup TagsOf(version[c], tags[c])
    BY <2>3, ReceiveTakes
  <2>5. Numbered(main[c]) /\ remoteTags' = TagsIn(main[c])
    BY <2>1, <2>4, PushNumbers, MeddledStays DEF Cut
  <2>6. Releases' = Releases
    BY <2>1 DEF Releases
  <2>7. Numbered(remoteMain)'
    BY <2>1, <2>4, <2>5, <2>6 DEF Numbered, ReleasesUpTo
  <2>8. TagsIn(remoteMain)' = TagsIn(main[c])
    BY <2>1, <2>4, <2>6 DEF TagsIn
  <2>9. QED
    BY <2>5, <2>7, <2>8
<1>4. (\E c \in Clones : Push(c)) \/ Change \/ UNCHANGED <<remoteMain, remoteTags>>
  <2>1. (\E i \in Commits : CiFinish(i)) => UNCHANGED <<remoteMain, remoteTags>>
    BY DEF CiFinish
  <2>2. QED
    BY <2>1, OnlyPushMoves DEF Next, StepOf
<1>5. QED
  BY <1>1, <1>2, <1>3, <1>4

LEMMA NumberingInit == Init => Numbering /\ Wet
<1> SUFFICES ASSUME Init PROVE Numbering /\ Wet
  OBVIOUS
<1>0. /\ log = <<[kind |-> "code", version |-> 0, onto |-> <<>>, files |-> {}]>> /\ pc = [c \in Clones |-> "idle"]
      /\ remoteMain = <<1>> /\ main = [c \in Clones |-> <<1>>]
      /\ tags = [c \in Clones |-> {}] /\ remoteTags = {}
  BY DEF Init
<1>1. \A i \in DOMAIN log : log[i].kind = "code"
  BY <1>0
<1>2. Releases = {}
  BY <1>1 DEF Releases
<1>3. Numbered(remoteMain) /\ remoteTags = TagsIn(remoteMain)
  BY <1>0, <1>2 DEF Numbered, TagsIn
<1>4. ASSUME NEW c \in Clones PROVE Behind(c) /\ Known(c) /\ Counted(c)
  <2>1. <<1>> \in Seq({1})
    OBVIOUS
  <2>2. IsPrefix(main[c], remoteMain)
    BY <1>0, <2>1, PrefixOfItself
  <2>3. pc[c] = "idle" /\ tags[c] = {}
    BY <1>0
  <2>4. QED
    BY <2>2, <2>3 DEF Behind, Known, Counted
<1>5. QED
  BY <1>0, <1>3, <1>4 DEF Numbering, Wet

LEMMA NumberingStep ==
  ASSUME Typed, TagInv, Cut, Wet, Numbering, [Next]_vars
  PROVE  Numbering'
<1>1. CASE Next
  <2> SUFFICES ASSUME ~broken', ~meddled'
               PROVE  /\ Numbered(remoteMain)' /\ remoteTags' = TagsIn(remoteMain)'
                      /\ \A c \in Clones : Behind(c)' /\ Known(c)' /\ Counted(c)'
    BY DEF Numbering
  <2>0. /\ Numbered(remoteMain) /\ remoteTags = TagsIn(remoteMain)
        /\ \A c \in Clones : Behind(c) /\ Known(c) /\ Counted(c)
    BY <1>1, MeddledStays DEF Numbering
  <2>1. Numbered(remoteMain)' /\ remoteTags' = TagsIn(remoteMain)'
    BY <1>1, <2>0, RemoteNumbered
  <2>2. ASSUME NEW c \in Clones PROVE Behind(c)' /\ Known(c)' /\ Counted(c)'
    <3>1. CASE StepOf(c)
      BY <1>1, <2>0, <3>1, BehindKept, KnownKept, CountedKept
    <3>2. CASE UNCHANGED local(c)
      <4>0. /\ UNCHANGED <<pc[c], dry[c], version[c], tags[c]>> /\ main'[c] = main[c] /\ HEAD(c)' = HEAD(c)
            /\ main[c] \in Seq(Born) /\ remoteMain \in Seq(Born) /\ Len(main[c]) \in Nat
            /\ Len(main[c]) >= 1
        BY <3>2 DEF local, HEAD, Typed, BranchTypes
      <4>1. ASSUME NEW b \in Seq(Born), IsPrefix(b, remoteMain) PROVE IsPrefix(b, remoteMain')
        <5>1. b \in Seq(Born') /\ remoteMain \in Seq(Born') /\ remoteMain' \in Seq(Born')
          BY <1>1, <4>0, BranchStep, BranchLasts, OnlyThreeCommit DEF BranchTypes
        <5>2. Len(b) <= Len(remoteMain) /\ \A k \in 1..Len(b) : b[k] = remoteMain[k]
          BY <4>1, <4>0, PrefixMeans
        <5>3. Len(remoteMain) <= Len(remoteMain') /\ \A k \in 1..Len(remoteMain) : remoteMain'[k] = remoteMain[k]
          BY <1>1, RemoteStands
        <5>4. Len(b) \in Nat /\ Len(remoteMain) \in Nat /\ Len(remoteMain') \in Nat
          BY <5>1
        <5>5. Len(b) <= Len(remoteMain') /\ \A k \in 1..Len(b) : b[k] = remoteMain'[k]
          BY <5>2, <5>3, <5>4
        <5>6. QED
          BY <5>1, <5>5, PrefixMeans
      <4>2. Behind(c)'
        <5>1. Front(main[c]) \in Seq(Born)
          BY <4>0 DEF Front
        <5>2. QED
          BY <2>0, <4>0, <4>1, <5>1 DEF Behind
      <4>3. Known(c)'
        <5>1. remoteTags \subseteq remoteTags'
          BY <1>1, RemoteAlwaysGrows DEF RemoteGrows
        <5>2. QED
          BY <2>0, <4>0, <5>1 DEF Known
      <4>4. Counted(c)'
        <5>1. \A n \in Nat : n \in 0..Len(remoteMain) =>
                /\ n \in 0..Len(remoteMain') /\ ReleasesUpTo(remoteMain, n)' = ReleasesUpTo(remoteMain, n)
                /\ FirstTags(n)' = FirstTags(n)
          BY <1>1, FirstStand
        <5>2. Len(remoteMain) \in Nat /\ Len(remoteMain') \in Nat /\ Len(remoteMain) <= Len(remoteMain')
          BY <1>1, RemoteStands
        <5>3. ASSUME pc'[c] = "number", ~dry'[c]
              PROVE  \E n \in Len(main'[c])..Len(remoteMain') : tags'[c] = FirstTags(n)'
          <6>1. PICK n \in Len(main[c])..Len(remoteMain) : tags[c] = FirstTags(n)
            BY <2>0, <4>0, <5>3 DEF Counted
          <6>2. n \in 0..Len(remoteMain) /\ n \in Nat /\ n \in Len(main[c])..Len(remoteMain')
            BY <4>0, <5>2, <6>1
          <6>3. QED
            BY <4>0, <5>1, <6>1, <6>2
        <5>4. ASSUME pc'[c] \in {"file", "bump", "check", "add", "commit"}, ~dry'[c]
              PROVE  \E n \in Len(main'[c])..Len(remoteMain') :
                       version'[c] = Cardinality(ReleasesUpTo(remoteMain, n)')
          <6>1. PICK n \in Len(main[c])..Len(remoteMain) :
                  version[c] = Cardinality(ReleasesUpTo(remoteMain, n))
            BY <2>0, <4>0, <5>4 DEF Counted
          <6>2. n \in 0..Len(remoteMain) /\ n \in Nat /\ n \in Len(main[c])..Len(remoteMain')
            BY <4>0, <5>2, <6>1
          <6>3. QED
            BY <4>0, <5>1, <6>1, <6>2
        <5>5. ASSUME pc'[c] \in {"tag", "push"}
              PROVE  \E n \in (Len(main'[c]) - 1)..Len(remoteMain') :
                       version'[c] = Cardinality(ReleasesUpTo(remoteMain, n)')
          <6>1. PICK n \in (Len(main[c]) - 1)..Len(remoteMain) :
                  version[c] = Cardinality(ReleasesUpTo(remoteMain, n))
            BY <2>0, <4>0, <5>5 DEF Counted
          <6>2. n \in 0..Len(remoteMain) /\ n \in Nat /\ n \in (Len(main[c]) - 1)..Len(remoteMain')
            BY <4>0, <5>2, <6>1
          <6>3. QED
            BY <4>0, <5>1, <6>1, <6>2
        <5>6. QED
          BY <5>3, <5>4, <5>5 DEF Counted
      <4>5. QED
        BY <4>2, <4>3, <4>4
    <3>3. QED
      BY <1>1, <3>1, <3>2, OthersStand, WorldStands DEF Next, StepOf
  <2>3. QED
    BY <2>1, <2>2
<1>2. CASE UNCHANGED vars
  <2>1. UNCHANGED <<pc, dry, version, main, tags, log, remoteMain, remoteTags, meddled, broken>>
    BY <1>2 DEF vars, repoVars, remoteVars, histVars
  <2>2. Releases' = Releases /\ \A c \in Clones : HEAD(c)' = HEAD(c)
    BY <2>1 DEF Releases, HEAD
  <2>3. \A k : ReleasesUpTo(remoteMain, k)' = ReleasesUpTo(remoteMain, k)
    BY <2>1, <2>2 DEF ReleasesUpTo
  <2>4. \A n : FirstTags(n)' = FirstTags(n)
    BY <2>1, <2>3 DEF FirstTags
  <2>5. Numbered(remoteMain) => Numbered(remoteMain)'
    BY <2>1, <2>2, <2>3 DEF Numbered
  <2>6. TagsIn(remoteMain)' = TagsIn(remoteMain)
    BY <2>1, <2>2 DEF TagsIn
  <2>7. ASSUME NEW c \in Clones, Behind(c), Known(c), Counted(c)
        PROVE  Behind(c)' /\ Known(c)' /\ Counted(c)'
    <3>1. Behind(c)'
      BY <2>1, <2>7 DEF Behind
    <3>2. Known(c)'
      BY <2>1, <2>2, <2>7 DEF Known
    <3>3. Counted(c)'
      BY <2>1, <2>3, <2>4, <2>7 DEF Counted
    <3>4. QED
      BY <3>1, <3>2, <3>3
  <2>8. QED
    BY <2>1, <2>5, <2>6, <2>7 DEF Numbering
<1>3. QED
  BY <1>1, <1>2

(***************************************************************************)
(* While every release that committed also finished its push, the releases *)
(* on the remote's main are numbered in order, from 0, and the remote's    *)
(* tags are theirs, however the releases of many clones interleave (lines  *)
(* 105 to 110 and 166 to 173).                                             *)
(***************************************************************************)
THEOREM NumbersInOrder == Spec => []MainNumbersItsReleases
<1>1. Spec => [](Typed /\ TagInv /\ Cut)
  BY TypedAlways, TagInvInit, TagInvStep, CutAlways, PTL DEF Spec
<1>2. Init => Numbering /\ Wet
  BY NumberingInit
<1>3. Typed /\ TagInv /\ Cut /\ (Numbering /\ Wet) /\ [Next]_vars => (Numbering /\ Wet)'
  BY NumberingStep, WetStep
<1>4. Spec => []Numbering
  BY <1>1, <1>2, <1>3, PTL DEF Spec
<1>5. Numbering => MainNumbersItsReleases
  BY DEF Numbering, Numbered, TagsIn, MainNumbersItsReleases
<1>6. QED
  BY <1>4, <1>5, PTL
=============================================================================
