--------------------------- MODULE RemoteRegister ---------------------------
(***************************************************************************)
(* What a remote owes those who install from it, whoever releases to it:   *)
(* its main only grows, at its end, and a version, once it has a tag,      *)
(* names that commit for ever.  A push may bring commits, one tag or both. *)
(***************************************************************************)
EXTENDS Sequences, SequencesExt

CONSTANTS
  Versions,
  Commits

VARIABLES
  history,  \* the commits of main, oldest first
  tags      \* <<v, i>>: version v names commit i

Init == Len(history) = 1 /\ tags = {}

Grow == IsPrefix(history, history')

Advance == Grow /\ history' # history /\ UNCHANGED tags

Publish(v, i) ==
  /\ \A t \in tags : t[1] # v
  /\ tags' = tags \cup {<<v, i>>}
  /\ Grow

Next == Advance \/ \E v \in Versions, i \in Commits : Publish(v, i)

Spec == Init /\ [][Next]_<<history, tags>>
=============================================================================
