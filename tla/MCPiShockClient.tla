------------------------- MODULE MCPiShockClient --------------------------
(* Values for the constants of PiShockClient. *)
EXTENDS PiShockClient

\* Two shares of shocker 1 on hub 1, the limits of one crossing those of the other; a
\* share of shocker 2 on the same hub; a shocker on a hub of somebody else; and shares
\* that cannot be used.
Of(code, client_id, id, can, max_intensity, max_duration) ==
  [code |-> code, client_id |-> client_id, id |-> id, can |-> can,
   max_intensity |-> max_intensity, max_duration |-> max_duration,
   paused |-> FALSE, share_paused |-> FALSE, locked |-> FALSE, is_v3 |-> TRUE]

Strong == Of("strong", 1, 1, {0, 2}, 100, 16)
Long   == Of("long", 1, 1, {0, 1, 2}, 50, 15000)
Second == Of("second", 1, 2, {0, 1, 2}, 100, 15000)
Foreign == Of("foreign", 2, 3, {2}, 50, 15000)
Paused == [Strong EXCEPT !.code = "paused", !.share_paused = TRUE]
Old == [Second EXCEPT !.code = "old", !.is_v3 = FALSE]

Shares == {Strong, Long, Second, Foreign, Paused, Old}
HubLists == {<<>>, <<2, 1>>}
ShareLists == {<<Strong, Strong, Second>>, <<Strong, Long, Second>>, <<Paused, Long, Foreign>>,
               <<Second, Old, Strong>>, <<>>}
\* A shock that only one share of shocker 1 permits, one that only the other permits, one
\* that none does, and a beep that both permit; a vibration; and one out of range.
Commands ==
  {[operation |-> 0, intensity |-> i, duration |-> d] :
     <<i, d>> \in {<<100, 16>>, <<50, 15000>>, <<100, 15000>>}}
  \cup {[operation |-> 1, intensity |-> 100, duration |-> 15000],
        [operation |-> 2, intensity |-> 0, duration |-> 16],
        [operation |-> 2, intensity |-> 0, duration |-> 15]}
================================================================================
