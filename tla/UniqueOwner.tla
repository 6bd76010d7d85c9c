---------------------------- MODULE UniqueOwner ----------------------------
(***************************************************************************)
(* Owners that each have one thing at most and lend it.  A thing is made   *)
(* for one owner, borrowed only from the owner that has it, and ends once, *)
(* at its owner's hand and when no one borrows it.  An owner that is given *)
(* another thing loses the first, which nobody borrows or ends any more:   *)
(* those who borrow it already may go on.                                  *)
(***************************************************************************)
CONSTANTS
  Owners,
  Things

VARIABLES
  has,      \* <<o, v>>: o has v
  made,     \* the things that were ever made
  ended,    \* those that are no more
  borrowed  \* those that someone uses

vars == <<has, made, ended, borrowed>>

Init == has = {} /\ made = {} /\ ended = {} /\ borrowed = {}

Had == {w[2] : w \in has}

Of(o) == {w \in has : w[1] = o}

\* Borrowers come, to things that an owner has, or go.
Lend ==
  /\ borrowed' \subseteq borrowed \cup Had
  /\ UNCHANGED <<has, made, ended>>

Give(o, v) ==
  /\ v \notin made /\ made' = made \cup {v}
  /\ has' = (has \ Of(o)) \cup {<<o, v>>}
  /\ borrowed' \subseteq borrowed
  /\ UNCHANGED ended

End(o, v) ==
  /\ <<o, v>> \in has /\ has' = has \ {<<o, v>>}
  /\ v \notin borrowed \cup ended /\ ended' = ended \cup {v}
  /\ UNCHANGED <<made, borrowed>>

Next == Lend \/ \E o \in Owners, v \in Things : Give(o, v) \/ End(o, v)

Spec == Init /\ [][Next]_vars
=============================================================================
