------------------------------ MODULE MCDeathHook ------------------------------
(* Values for the constants of DeathHook. *)
EXTENDS DeathHook

CONSTANTS p1, p2, r1, r2, h1, h2, a1, a2, i1, i2, n1, n2

Shown(identity, name, tier, charges, cooling, active) ==
  [identity |-> identity, name |-> name, tier |-> tier, charged |-> charges # None,
   charges |-> charges, max_charges |-> IF charges = None THEN None ELSE 2,
   cooling_down |-> cooling, active |-> active]

Ready   == Shown(i1, n1, 0, None, FALSE, FALSE)
Cooling == Shown(i1, n1, 0, None, TRUE, FALSE)
Other   == Shown(i2, n2, 0, None, FALSE, FALSE)

\* Abilities with and without charges, at two tiers, of two identities and names.
Snapshots ==
  {Shown(i1, n1, 0, None, cooling, active) : cooling, active \in BOOLEAN}
  \cup {Shown(i1, n1, 1, charges, FALSE, FALSE) : charges \in 0 .. 2}
  \cup {Shown(i1, n1, 1, 1, TRUE, FALSE), Other,
        Shown(None, n1, 0, None, FALSE, FALSE), Shown(None, n2, 0, None, TRUE, FALSE),
        Shown(i1, n2, 0, None, TRUE, FALSE), Shown(i1, n1, 1, None, TRUE, FALSE)}

Of(panel, shows)         == [panel |-> panel, shows |-> shows]
Under(root, hero, slots) == [panel |-> root, hero |-> hero, entries |-> slots]

\* No ability; one that shows anything; one of another root, hero or panel; and two in
\* either order.
Scenes ==
  {Under(r1, h1, <<>>)}
  \cup {Under(r1, h1, <<Of(a1, shows)>>) : shows \in Snapshots \cup {None, Invalid}}
  \cup {Under(at[1], at[2], <<Of(at[3], shows)>>) :
          at \in {<<r2, h1, a1>>, <<r1, h2, a1>>, <<r1, None, a1>>, <<r1, h1, a2>>},
          shows \in {Ready, Cooling}}
  \cup {Under(r1, h1, <<Of(order[1], first), Of(order[2], second)>>) :
          order \in {<<a1, a2>>, <<a2, a1>>},
          first \in {Ready, Cooling, None}, second \in {Cooling, Other, Invalid}}
================================================================================
