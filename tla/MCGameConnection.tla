------------------------- MODULE MCGameConnection -------------------------
(* Values for the constants of GameConnection: roots 1 and 2, libraries 3 to 5. *)
EXTENDS GameConnection

CONSTANTS i1, i2

Identity == [path \in 1 .. 5 |-> path]
Places == {Identity, [Identity EXCEPT ![2] = 1], [Identity EXCEPT ![5] = 4]}
RootLists == {<<>>, <<2, 1>>}
RootSystems == {[path \in 1 .. 2 |-> IF path = 1 THEN first ELSE second] :
  first \in RootFailure \cup {<<5, 3>>}, second \in {Missing, <<4, 3, 5>>}}
LibrarySystems == {[path \in 3 .. 5 |-> IF path = 3 THEN third ELSE IF path = 4 THEN fourth ELSE fifth] :
  third \in {Unreadable, NoApp, i1}, fourth \in {NoApp, i2},
  fifth \in {NoApp, Malformed, i1, i2}}
InstallStates == [{i1, i2} -> InstallFailure \cup (0 .. 1)]
Texts == {[log |-> None, padded |-> TRUE], [log |-> 3, padded |-> TRUE]}
================================================================================
