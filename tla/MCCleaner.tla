----------------------------- MODULE MCCleaner -----------------------------
(* An instance of Cleaner for TLC. *)
EXTENDS Cleaner, TLC

MCChar == {"a", "b", "1", "2", "3", ":", "*", "?", "[", "]", "^", "\\"}

\* Two keys of user a share a slot but not a part of the table, so a group is
\* filled across two SCAN calls; the key of user ab shares both with one of
\* them.  The second task's name is a pattern: it matches the key of ab.
MCKeys == [a1 |-> <<"a", ":", "1">>, a2 |-> <<"a", ":", "2">>, a3 |-> <<"a", ":", "3">>,
           b1 |-> <<"a", "b", ":", "1">>]

MCKey == {MCKeys[n] : n \in DOMAIN MCKeys}
MCSlotOf == [k \in MCKey |-> IF k = MCKeys.a3 THEN 2 ELSE 1]
MCPartOf == [k \in MCKey |-> IF k = MCKeys.a1 THEN 0 ELSE 1]

MCUserOf == "t1" :> <<"a">> @@ "t2" :> <<"a", "?">>
MCStartCursor == "t1" :> 0 @@ "t2" :> 1

\* The names of the keys that a user name selects, as Redis does.
Selected(name) == {n \in DOMAIN MCKeys : Matches(name \o <<":", "*">>, MCKeys[n])}

ASSUME PatternsAssumption ==
  /\ Selected(<<"a">>) = {"a1", "a2", "a3"}
  /\ Selected(<<"*">>) = DOMAIN MCKeys
  /\ Selected(<<"a", "*">>) = DOMAIN MCKeys
  /\ Selected(<<"?", "b">>) = {"b1"}
  /\ Selected(<<"a", "[", "a", "b", "]">>) = {"b1"}
  /\ Selected(<<"[", "^", "b", "]">>) = {"a1", "a2", "a3"}
  /\ Selected(<<"a", "[", "^", "b", "]">>) = {}
  /\ Selected(<<"\\", "a", "b">>) = {"b1"}
  /\ Selected(<<"a", "\\">>) = {"a1", "a2", "a3"}
  /\ Selected(<<"a", "[">>) = {}
=============================================================================
