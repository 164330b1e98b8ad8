------------------------------ MODULE MCPolicy ------------------------------
(***************************************************************************)
(* Instances of Policy.  Names and patterns are sequences of characters,   *)
(* so that Matches is what matchPattern computes.                          *)
(***************************************************************************)
EXTENDS Policy, SequencesExt

\* matchPattern(pattern, value): a wildcard, an exact name, "*.suffix" (the dot
\* belongs to the suffix) or "prefix.*" (the dot does not belong to the prefix).
matchPattern(pattern, value) ==
    \/ pattern = <<"*">> \/ pattern = value
    \/ IF IsPrefix(<<"*", ".">>, pattern)
         THEN IsSuffix(Tail(pattern), value)
         ELSE /\ IsSuffix(<<".", "*">>, pattern)
              /\ IsPrefix(SubSeq(pattern, 1, Len(pattern) - 2), value)

Services == {<<"a">>, <<"a", ".", "b">>, <<"b">>, <<"a", "b">>}
Patterns == {<<"*">>, <<"a">>, <<"*", ".", "b">>, <<"a", ".", "*">>}
MatchesOf == [p \in Patterns |-> {s \in Services : matchPattern(p, s)}]

Flags == [n \in Node |-> IF n = 1 THEN {} ELSE {<<"a">>}]

Global(allow, deny) == [subject |-> "*", allow |-> allow, deny |-> deny]

\* Bundles of cluster "c": an empty one, two of the same version, one with a
\* rule for one client only; one of another cluster, one of no cluster.
Bundles ==
    {[version |-> 1, cluster |-> "c", rules |-> {Global({}, {})}],
     [version |-> 2, cluster |-> "c",
      rules |-> {Global({<<"*">>}, {<<"a", ".", "*">>}), Global({NoService}, {})}],
     [version |-> 2, cluster |-> "c", rules |-> {Global({}, {<<"*", ".", "b">>})}],
     [version |-> 3, cluster |-> "c",
      rules |-> {[subject |-> "alice", allow |-> {<<"*">>}, deny |-> {}],
                 Global({<<"a">>}, {})}],
     [version |-> 3, cluster |-> "d", rules |-> {Global({<<"*">>}, {})}],
     [version |-> 1, cluster |-> NoCluster, rules |-> {Global({<<"a">>}, {<<"a">>})}]}
=============================================================================
