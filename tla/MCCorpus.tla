------------------------------ MODULE MCCorpus ------------------------------
(***************************************************************************)
(* Matches of two spans with a group that did not take part, is empty or   *)
(* is not; rows with every kind of declaration, and one of each that is    *)
(* invalid; stored matches without groups, or with one written as <<>>.    *)
(***************************************************************************)
EXTENDS Corpus

Match(span, groups) == [kind |-> "match", span |-> span, groups |-> groups]
List(of) == [kind |-> "list", of |-> of]

Unset == <<-1, -1>>
Spans == {<<0, 1>>, <<0, 2>>}

MCMatches == {Match(s, <<g>>) : s \in Spans, g \in {Unset, <<0, 0>>, <<0, 1>>}}

MCIterations ==
  {List(<<>>)} \cup {List(<<m>>) : m \in MCMatches}
    \cup {List(<<Match(<<0, 1>>, <<Unset>>), m>>) : m \in {n \in MCMatches : n.span = <<0, 2>>}}

Override(status, link) == [status |-> status, reason |-> TRUE, link |-> link]

Plain(expected) == [expected |-> expected, flags |-> {"icase"}, requires |-> NoCapability, override |-> NoOverride]

MCRows ==
  {Plain(e) : e \in {NoMatch, Rejected, Match(<<0, 1>>, <<>>), Match(<<0, 2>>, <<<<0, 1>>>>),
                     Match(<<0, 2>>, <<<<>>>>), [kind |-> "match", span |-> <<0, 1>>],
                     List(<<Match(<<0, 1>>, <<>>)>>),
                     List(<<Match(<<0, 1>>, <<<<>>>>), Match(<<0, 2>>, <<<<0, 0>>>>)>>)}}
    \cup {[Plain(NoMatch) EXCEPT !.flags = {"icase", "posix"}],
          [Plain(NoMatch) EXCEPT !.requires = "backreference"],
          [Plain(NoMatch) EXCEPT !.requires = "time-travel"],
          [Plain(NoMatch) EXCEPT !.override = Override("bug", FALSE)],
          [Plain(NoMatch) EXCEPT !.override = Override("wontfix", FALSE)],
          [Plain(NoMatch) EXCEPT !.override = Override("intentional_divergence", TRUE)],
          [Plain(NoMatch) EXCEPT !.override = Override("intentional_divergence", FALSE)]}

Sound == [semantics |-> "leftmost-first", type |-> "text", oracle |-> "python_re", api |-> "search", provenance |-> TRUE]

MCManifests ==
  {[Sound EXCEPT !.semantics = s, !.oracle = o, !.api = a] :
     s \in {"leftmost-first", "leftmost-longest"}, o \in {"python_re", "real_only"}, a \in {"search", "finditer"}}
    \cup {[Sound EXCEPT !.semantics = "greedy"], [Sound EXCEPT !.type = "str"], [Sound EXCEPT !.provenance = FALSE]}
=============================================================================
