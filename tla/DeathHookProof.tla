----------------------------- MODULE DeathHookProof -----------------------------
(***************************************************************************)
(* What the hook tells, for every HUD: for any number of players, panels,   *)
(* heroes and abilities.  The proofs rest on MemoryInv: between two polls   *)
(* the script remembers exactly the HUD the last one saw.                   *)
(***************************************************************************)
EXTENDS DeathHook, TLAPS

--------------------------------------------------------------------------------
(* What the script remembers. *)

MemoryInv ==
  /\ hud \in Hud
  /\ scheduled =>
       /\ localPlayerPanel # None => /\ localPlayerPanel \in hud.players
                                     /\ wasDead = (localPlayerPanel \in hud.dead)
       /\ deathBaselineEstablished = (localPlayerPanel # None)
       /\ ability = IF localPlayerPanel = None \/ hud.root = None
                    THEN NoAbilities ELSE Baseline(hud.root)

\* The parts of pollAbilities, by name.
Baselines(root) == ForceBaseline(hud', localPlayerPanel') \/ Replaced(root)

Sends(root) ==
  LET states == ShownByAll(root.entries)
  IN  IF Baselines(root)
      THEN EmitsCatalog(states, ForceRefresh(root))
      ELSE /\ CatalogueChanged(states) \/ CatalogueReplaced(states)
           /\ EmitsCatalog(states, CatalogueReplaced(states))

Dies == BaselineHeld(hud') /\ localPlayerPanel' \in hud'.dead /\ ~wasDead

DeathMessages == IF Dies THEN {Message("local_player_death", 0)} ELSE {}

LEMMA HudParts ==
  ASSUME NEW seen \in Hud
  PROVE  /\ seen.players \subseteq Player /\ None \notin seen.players
         /\ seen.local \in seen.players \cup {None}
         /\ seen.root \in Scene \cup {None}
         /\ ~seen.context => seen.players = {}
BY SnapshotAssumption DEF Hud

\* A poll that finds the player.
LEMMA PollPlayerParts ==
  ASSUME PollPlayer
  PROVE  /\ hud' \in Hud
         /\ scheduled /\ scheduled'
         /\ localPlayerPanel' = FoundPlayer(hud')
         /\ localPlayerPanel' # None /\ localPlayerPanel' \in hud'.players
         /\ deathBaselineEstablished' = TRUE
         /\ wasDead' = (localPlayerPanel' \in hud'.dead)
         /\ PollAbilities(hud'.root, ForceBaseline(hud', localPlayerPanel'), DeathMessages)
<1>1. PICK seen \in Hud :
        /\ FoundPlayer(seen) # None
        /\ hud' = seen
        /\ localPlayerPanel' = FoundPlayer(seen)
        /\ deathBaselineEstablished' = TRUE
        /\ wasDead' = (FoundPlayer(seen) \in seen.dead)
        /\ PollAbilities(seen.root, ForceBaseline(seen, FoundPlayer(seen)),
             IF BaselineHeld(seen) /\ FoundPlayer(seen) \in seen.dead /\ ~wasDead
             THEN {Message("local_player_death", 0)} ELSE {})
  BY DEF PollPlayer
<1>2. FoundPlayer(seen) \in seen.players
  BY <1>1, HudParts DEF FoundPlayer
<1>3. hud' \in Hud /\ scheduled /\ scheduled'
  BY <1>1 DEF PollPlayer
<1>4. PollAbilities(hud'.root, ForceBaseline(hud', localPlayerPanel'), DeathMessages)
  BY <1>1 DEF DeathMessages, Dies
<1>5. QED
  BY <1>1, <1>2, <1>3, <1>4

\* What it emits and remembers of the abilities.
LEMMA AbilitiesParts ==
  ASSUME PollPlayer
  PROVE  /\ hud'.root = None =>
              /\ ability' = NoAbilities /\ emitted' = DeathMessages /\ catalog' = catalog
         /\ hud'.root # None =>
              LET states == ShownByAll(hud'.root.entries)
              IN  /\ ability' = Baseline(hud'.root)
                  /\ catalog' = IF Sends(hud'.root) THEN Listed(states) ELSE catalog
                  /\ emitted' = DeathMessages \cup CatalogMessage(states, Sends(hud'.root))
                       \cup (IF Baselines(hud'.root) THEN {} ELSE Transitions(states))
<1>1. PollAbilities(hud'.root, ForceBaseline(hud', localPlayerPanel'), DeathMessages)
  BY PollPlayerParts
<1>2. CASE hud'.root = None
  BY <1>1, <1>2 DEF PollAbilities, ResetAbilityState
<1>3. CASE hud'.root # None
  BY <1>1, <1>3 DEF PollAbilities, Sends, Baselines
<1>4. QED
  BY <1>2, <1>3

\* The polls that find no player, or no script to go on with.
LEMMA OtherPolls ==
  ASSUME MemoryInv, PollEnds \/ PollWithoutPlayer
  PROVE  /\ hud' \in Hud /\ emitted' = {} /\ catalog' = catalog
         /\ localPlayerPanel \notin hud'.players /\ localPlayerPanel' \notin hud'.players
         /\ scheduled' => /\ localPlayerPanel' = None /\ ability' = NoAbilities
                          /\ deathBaselineEstablished' = FALSE
<1>1. CASE PollEnds
  BY <1>1, HudParts DEF PollEnds
<1>2. CASE PollWithoutPlayer
  <2>1. PICK seen \in Hud : /\ FoundPlayer(seen) = None /\ hud' = seen
                            /\ deathBaselineEstablished' = BaselineHeld(seen)
    BY <1>2 DEF PollWithoutPlayer
  <2>2. localPlayerPanel \notin seen.players /\ None \notin seen.players
    BY <2>1, HudParts DEF FoundPlayer
  <2>3. QED
    BY <1>2, <2>1, <2>2 DEF PollWithoutPlayer, BaselineHeld, ResetAbilityState
<1>3. QED
  BY <1>1, <1>2

LEMMA MemoryStep == MemoryInv /\ [Next]_vars => MemoryInv'
<1> SUFFICES ASSUME MemoryInv, [Next]_vars PROVE MemoryInv'
  OBVIOUS
<1>1. CASE PollPlayer
  <2>1. hud'.root = None => ability' = NoAbilities
    BY <1>1, AbilitiesParts
  <2>2. hud'.root # None => ability' = Baseline(hud'.root)
    BY <1>1, AbilitiesParts
  <2>3. ability' = (IF localPlayerPanel = None \/ hud.root = None
                    THEN NoAbilities ELSE Baseline(hud.root))'
    BY <1>1, <2>1, <2>2, PollPlayerParts DEF NoAbilities, Baseline, ShownByAll, ShownBy
  <2>4. QED
    BY <1>1, <2>3, PollPlayerParts DEF MemoryInv
<1>2. CASE PollEnds
  BY <1>2, OtherPolls DEF MemoryInv, PollEnds
<1>3. CASE PollWithoutPlayer
  BY <1>3, OtherPolls DEF MemoryInv, NoAbilities
<1>4. CASE UNCHANGED vars
  BY <1>4 DEF MemoryInv, vars, Baseline, NoAbilities, ShownByAll, ShownBy
<1>5. QED
  BY <1>1, <1>2, <1>3, <1>4 DEF Next

LEMMA MemoryInit == Init => MemoryInv
<1> SUFFICES ASSUME Init PROVE MemoryInv
  OBVIOUS
<1>1. hud \in Hud
  BY DEF Init, Hud
<1>2. QED
  BY <1>1 DEF Init, MemoryInv

LEMMA Memory == Spec => []MemoryInv
BY MemoryInit, MemoryStep, PTL DEF Spec

--------------------------------------------------------------------------------
(* Deaths. *)

LEMMA DeathEmitted ==
  ASSUME PollPlayer
  PROVE  Emits("local_player_death") # {} <=> Dies
<1>1. \A msg \in DeathMessages : msg \in emitted'
  BY AbilitiesParts
<1>2. \A msg \in emitted' : msg.event = "local_player_death" => msg \in DeathMessages
  <2>1. CASE hud'.root = None
    BY <2>1, AbilitiesParts
  <2>2. CASE hud'.root # None
    <3> DEFINE states == ShownByAll(hud'.root.entries)
               sent == Sends(hud'.root)
    <3>1. emitted' = DeathMessages \cup CatalogMessage(states, sent)
                       \cup (IF Baselines(hud'.root) THEN {} ELSE Transitions(states))
      BY <2>2, AbilitiesParts
    <3>2. \A msg \in CatalogMessage(states, sent) : msg.event = "ability_catalog"
      BY DEF CatalogMessage
    <3>3. \A msg \in Transitions(states) : msg.event \in {"ability_used", "ability_cooldown_ready"}
      BY DEF Transitions, Message
    <3> HIDE DEF states, sent
    <3>4. QED
      BY <3>1, <3>2, <3>3
  <2>3. QED
    BY <2>1, <2>2
<1>3. Dies => Message("local_player_death", 0) \in emitted'
  BY <1>1 DEF DeathMessages
<1>4. ~Dies => DeathMessages = {}
  BY DEF DeathMessages
<1>5. QED
  BY <1>2, <1>3, <1>4 DEF Emits, Message

\* Over any HUDs, a death is emitted exactly when the panel the hook watches was alive at
\* one poll and is dead at the next (pollState and findLocalPlayerPanel).
THEOREM DeathsCorrect == Spec => DeathsEmitted
<1>1. ASSUME MemoryInv, Next
      PROVE  Emits("local_player_death") # {} <=>
               /\ localPlayerPanel \in hud'.players \ hud.dead
               /\ localPlayerPanel \in hud'.dead
  <2>1. CASE PollPlayer
    <3>1. BaselineHeld(hud') <=> localPlayerPanel \in hud'.players
      BY <1>1, <2>1, PollPlayerParts, HudParts DEF MemoryInv, BaselineHeld
    <3>2. localPlayerPanel \in hud'.players =>
            localPlayerPanel' = localPlayerPanel /\ wasDead = (localPlayerPanel \in hud.dead)
      BY <1>1, <2>1, PollPlayerParts, HudParts DEF MemoryInv, FoundPlayer
    <3>3. QED
      BY <2>1, <3>1, <3>2, DeathEmitted DEF Dies
  <2>2. CASE PollEnds \/ PollWithoutPlayer
    BY <1>1, <2>2, OtherPolls DEF Emits
  <2>3. QED
    BY <1>1, <2>1, <2>2 DEF Next
<1>2. QED
  BY <1>1, Memory, PTL DEF Spec, DeathsEmitted

--------------------------------------------------------------------------------
(* Uses and returns. *)

\* What pollAbilities finds replaced is what differs between the two HUDs.
LEMMA ReplacedIsOther ==
  ASSUME MemoryInv, PollPlayer, hud'.root # None
  PROVE  ~Replaced(hud'.root) <=> localPlayerPanel \in hud.players /\ SameAbilities
<1>1. hud'.root \in Scene /\ hud'.root.panel # None
  BY HudParts, PollPlayerParts, SceneAssumption, SnapshotAssumption DEF Signature
<1>2. localPlayerPanel \in hud.players <=> localPlayerPanel # None
  BY PollPlayerParts, HudParts DEF MemoryInv
<1>3. CASE localPlayerPanel = None \/ hud.root = None
  <2>1. ability = NoAbilities
    BY <1>3, PollPlayerParts DEF MemoryInv
  <2>2. Replaced(hud'.root)
    BY <1>1, <2>1 DEF Replaced, NoAbilities
  <2>3. QED
    BY <1>2, <1>3, <2>2 DEF SameAbilities
<1>4. CASE localPlayerPanel # None /\ hud.root # None
  <2>1. ability = Baseline(hud.root)
    BY <1>4, PollPlayerParts DEF MemoryInv
  <2>2. /\ ability.root = hud.root.panel /\ ability.hero = hud.root.hero
        /\ DOMAIN ability.panels = DOMAIN hud.root.entries
        /\ \A i \in DOMAIN hud.root.entries : ability.panels[i] = hud.root.entries[i].panel
    BY <2>1 DEF Baseline
  <2>3. ~Replaced(hud'.root) <=>
          /\ hud.root.panel = hud'.root.panel
          /\ hud.root.hero = hud'.root.hero
          /\ DOMAIN hud.root.entries = DOMAIN hud'.root.entries
          /\ \A i \in DOMAIN hud.root.entries :
               /\ hud.root.entries[i].panel = hud'.root.entries[i].panel
               /\ hud'.root.entries[i].shows # Invalid
    BY <2>2 DEF Replaced, SamePanelSet
  <2>4. QED
    BY <1>2, <1>4, <2>3 DEF SameAbilities
<1>5. QED
  BY <1>3, <1>4

\* The script compares two polls exactly when they are of one fight.
LEMMA ComparedIsFight ==
  ASSUME MemoryInv, PollPlayer, hud'.root # None
  PROVE  ~Baselines(hud'.root) <=> SameFight
<1>1. ~ForceBaseline(hud', localPlayerPanel') <=>
        /\ localPlayerPanel \in hud'.players
        /\ localPlayerPanel \notin hud'.dead
        /\ localPlayerPanel \in hud.players
        /\ localPlayerPanel \notin hud.dead
  <2>1. BaselineHeld(hud') <=> localPlayerPanel \in hud'.players
    BY PollPlayerParts, HudParts DEF MemoryInv, BaselineHeld
  <2>2. localPlayerPanel \in hud'.players =>
          /\ localPlayerPanel' = localPlayerPanel
          /\ localPlayerPanel \in hud.players
          /\ wasDead = (localPlayerPanel \in hud.dead)
    BY PollPlayerParts, HudParts DEF MemoryInv, FoundPlayer
  <2>3. QED
    BY <2>1, <2>2 DEF ForceBaseline
<1>2. QED
  BY <1>1, ReplacedIsOther DEF Baselines, SameFight

LEMMA EntryShows ==
  ASSUME NEW s \in Scene, NEW i \in DOMAIN s.entries
  PROVE  s.entries[i].shows \in Snapshot \cup {None, Invalid}
<1>1. s.entries \in Seq(Entry)
  BY SceneAssumption DEF Signature
<1>2. i \in 1 .. Len(s.entries)
  BY <1>1
<1>3. s.entries[i] \in Entry
  BY <1>1, <1>2
<1>4. QED
  BY <1>3 DEF Entry

\* In one fight, the states compared are the snapshots that both polls read.
LEMMA ComparedSlots ==
  ASSUME MemoryInv, PollPlayer, hud'.root # None, SameFight
  PROVE  LET states == ShownByAll(hud'.root.entries)
         IN  /\ DOMAIN states = DOMAIN hud.root.entries
             /\ \A i \in DOMAIN hud.root.entries :
                  /\ i \in Comparable(states) <=> SameSlot(i)
                  /\ SameSlot(i) => /\ states[i] = hud'.root.entries[i].shows
                                    /\ ability.states[i] = hud.root.entries[i].shows
<1> DEFINE states == ShownByAll(hud'.root.entries)
<1>1. /\ hud'.root \in Scene /\ hud.root \in Scene /\ localPlayerPanel # None /\ hud.root # None
      /\ DOMAIN hud.root.entries = DOMAIN hud'.root.entries
      /\ \A i \in DOMAIN hud.root.entries : hud'.root.entries[i].shows # Invalid
  BY HudParts, PollPlayerParts DEF MemoryInv, SameFight, SameAbilities
<1>2. ability.states = ShownByAll(hud.root.entries)
  BY <1>1, PollPlayerParts DEF MemoryInv, Baseline
<1>3. /\ DOMAIN states = DOMAIN hud.root.entries
      /\ \A i \in DOMAIN hud.root.entries : states[i] = hud'.root.entries[i].shows
  BY <1>1 DEF ShownByAll, ShownBy
<1>4. \A i \in DOMAIN hud.root.entries :
        ability.states[i] = IF hud.root.entries[i].shows = Invalid THEN None
                            ELSE hud.root.entries[i].shows
  BY <1>2 DEF ShownByAll, ShownBy
<1>5. \A i \in DOMAIN hud.root.entries :
        /\ hud.root.entries[i].shows \in Snapshot \cup {None, Invalid}
        /\ hud'.root.entries[i].shows \in Snapshot \cup {None, Invalid}
  BY <1>1, EntryShows
<1>6. None \notin Snapshot /\ Invalid \notin Snapshot \cup {None}
  BY SnapshotAssumption
<1> HIDE DEF states
<1>7. ASSUME NEW i \in DOMAIN hud.root.entries
      PROVE  /\ i \in Comparable(states) <=> SameSlot(i)
             /\ SameSlot(i) => /\ states[i] = hud'.root.entries[i].shows
                               /\ ability.states[i] = hud.root.entries[i].shows
  BY <1>1, <1>3, <1>4, <1>5, <1>6 DEF Comparable, SameAbility, SameSlot
<1>8. QED
  BY <1>3, <1>7 DEF states

\* The slots emitted for an event of the abilities are those among the transitions.
LEMMA SlotsEmitted ==
  ASSUME PollPlayer, NEW event \in {"ability_used", "ability_cooldown_ready"}, NEW i
  PROVE  i \in Emits(event) <=>
           /\ hud'.root # None
           /\ ~Baselines(hud'.root)
           /\ \E msg \in Transitions(ShownByAll(hud'.root.entries)) : msg.event = event /\ msg.slot = i
<1>1. \A msg \in DeathMessages : msg.event # event
  BY DEF DeathMessages, Message
<1>2. CASE hud'.root = None
  BY <1>1, <1>2, AbilitiesParts DEF Emits
<1>3. CASE hud'.root # None
  <2> DEFINE transitions == Transitions(ShownByAll(hud'.root.entries))
             catalogue == CatalogMessage(ShownByAll(hud'.root.entries), Sends(hud'.root))
  <2>1. emitted' = DeathMessages \cup catalogue
                     \cup (IF Baselines(hud'.root) THEN {} ELSE transitions)
    BY <1>3, AbilitiesParts
  <2>2. \A msg \in catalogue : msg.event # event
    BY DEF CatalogMessage
  <2> HIDE DEF transitions, catalogue
  <2>3. i \in Emits(event) <=> \E msg \in emitted' : msg.event = event /\ msg.slot = i
    BY DEF Emits
  <2>4. i \in Emits(event) <=>
          ~Baselines(hud'.root) /\ \E msg \in transitions : msg.event = event /\ msg.slot = i
    BY <1>1, <2>1, <2>2, <2>3
  <2>5. QED
    BY <1>3, <2>4 DEF transitions
<1>4. QED
  BY <1>2, <1>3

LEMMA TransitionsOf ==
  ASSUME NEW states, NEW i
  PROVE  /\ (\E msg \in Transitions(states) : msg.event = "ability_used" /\ msg.slot = i) <=>
              i \in Comparable(states) /\ Used(ability.states[i], states[i])
         /\ (\E msg \in Transitions(states) : msg.event = "ability_cooldown_ready" /\ msg.slot = i) <=>
              i \in Comparable(states) /\ ReadyAgain(ability.states[i], states[i])
<1> DEFINE used == {k \in Comparable(states) : Used(ability.states[k], states[k])}
           ready == {k \in Comparable(states) : ReadyAgain(ability.states[k], states[k])}
<1>1. /\ i \in used <=> i \in Comparable(states) /\ Used(ability.states[i], states[i])
      /\ i \in ready <=> i \in Comparable(states) /\ ReadyAgain(ability.states[i], states[i])
  OBVIOUS
<1>2. Transitions(states) = {Message("ability_used", k) : k \in used}
                              \cup {Message("ability_cooldown_ready", k) : k \in ready}
  BY DEF Transitions
<1> HIDE DEF used, ready
<1>3. \A msg : msg \in Transitions(states) <=>
        \/ \E k \in used : msg = Message("ability_used", k)
        \/ \E k \in ready : msg = Message("ability_cooldown_ready", k)
  BY <1>2
<1>4. ASSUME NEW msg \in Transitions(states)
      PROVE  /\ msg.event = "ability_used" => msg.slot \in used
             /\ msg.event = "ability_cooldown_ready" => msg.slot \in ready
  <2>1. CASE \E k \in used : msg = Message("ability_used", k)
    BY <2>1 DEF Message
  <2>2. CASE \E k \in ready : msg = Message("ability_cooldown_ready", k)
    BY <2>2 DEF Message
  <2>3. QED
    BY <1>3, <2>1, <2>2
<1>5. i \in used =>
        \E msg \in Transitions(states) : msg.event = "ability_used" /\ msg.slot = i
  <2>1. i \in used => Message("ability_used", i) \in Transitions(states)
    BY <1>3
  <2>2. QED
    BY <2>1 DEF Message
<1>6. i \in ready =>
        \E msg \in Transitions(states) : msg.event = "ability_cooldown_ready" /\ msg.slot = i
  <2>1. i \in ready => Message("ability_cooldown_ready", i) \in Transitions(states)
    BY <1>3
  <2>2. QED
    BY <2>1 DEF Message
<1>7. QED
  BY <1>1, <1>4, <1>5, <1>6

LEMMA SlotUsed ==
  ASSUME MemoryInv, PollPlayer, hud'.root # None, SameFight, NEW i
  PROVE  LET states == ShownByAll(hud'.root.entries)
             same == i \in DOMAIN hud.root.entries /\ SameSlot(i)
         IN  /\ i \in Comparable(states) /\ Used(ability.states[i], states[i]) <=>
                  same /\ IsUse(hud.root.entries[i].shows, hud'.root.entries[i].shows)
             /\ i \in Comparable(states) /\ ReadyAgain(ability.states[i], states[i]) <=>
                  same /\ IsReturn(hud.root.entries[i].shows, hud'.root.entries[i].shows)
<1> DEFINE states == ShownByAll(hud'.root.entries)
<1>1. i \in Comparable(states) => i \in DOMAIN hud.root.entries
  BY ComparedSlots DEF Comparable
<1>2. i \in DOMAIN hud.root.entries =>
        /\ i \in Comparable(states) <=> SameSlot(i)
        /\ SameSlot(i) => /\ states[i] = hud'.root.entries[i].shows
                          /\ ability.states[i] = hud.root.entries[i].shows
  BY ComparedSlots
<1> HIDE DEF states
<1>3. ASSUME NEW p, NEW c PROVE (Used(p, c) <=> IsUse(p, c)) /\ (ReadyAgain(p, c) <=> IsReturn(p, c))
  BY DEF Used, IsUse, ReadyAgain, IsReturn
<1>4. QED
  BY <1>1, <1>2, <1>3 DEF states

\* Over any HUDs, uses and returns are emitted for exactly the slots that two polls of one
\* fight saw used or ready again (pollAbilities, abilitySnapshot, detectAbilityTransitions
\* and the baselines that forget them).
THEOREM UsesCorrect == Spec => UsesEmitted
<1>1. ASSUME MemoryInv, Next, NEW i \in Slot
      PROVE  LET same == SameFight /\ i \in DOMAIN hud.root.entries /\ SameSlot(i)
             IN  /\ i \in Emits("ability_used") <=>
                      same /\ IsUse(hud.root.entries[i].shows, hud'.root.entries[i].shows)
                 /\ i \in Emits("ability_cooldown_ready") <=>
                      same /\ IsReturn(hud.root.entries[i].shows, hud'.root.entries[i].shows)
  <2>1. CASE PollPlayer /\ hud'.root # None
    <3>1. ~Baselines(hud'.root) <=> SameFight
      BY <1>1, <2>1, ComparedIsFight
    <3>2. CASE ~SameFight
      BY <2>1, <3>1, <3>2, SlotsEmitted
    <3>3. CASE SameFight
      <4>1. /\ i \in Emits("ability_used") <=>
                 \E msg \in Transitions(ShownByAll(hud'.root.entries)) :
                   msg.event = "ability_used" /\ msg.slot = i
            /\ i \in Emits("ability_cooldown_ready") <=>
                 \E msg \in Transitions(ShownByAll(hud'.root.entries)) :
                   msg.event = "ability_cooldown_ready" /\ msg.slot = i
        BY <2>1, <3>1, <3>3, SlotsEmitted
      <4>2. QED
        BY <1>1, <2>1, <3>3, <4>1, TransitionsOf, SlotUsed
    <3>4. QED
      BY <3>2, <3>3
  <2>2. CASE PollPlayer /\ hud'.root = None
    BY <2>2, SlotsEmitted DEF SameFight, SameAbilities
  <2>3. CASE PollEnds \/ PollWithoutPlayer
    <3>1. ~SameFight
      BY <1>1, <2>3, OtherPolls DEF SameFight
    <3>2. Emits("ability_used") = {} /\ Emits("ability_cooldown_ready") = {}
      BY <1>1, <2>3, OtherPolls DEF Emits
    <3>3. QED
      BY <3>1, <3>2
  <2>4. QED
    BY <1>1, <2>1, <2>2, <2>3 DEF Next
<1>2. MemoryInv /\ [Next]_vars =>
        [\A i \in Slot :
           LET same == SameFight /\ i \in DOMAIN hud.root.entries /\ SameSlot(i)
           IN  /\ i \in Emits("ability_used") <=>
                    same /\ IsUse(hud.root.entries[i].shows, hud'.root.entries[i].shows)
               /\ i \in Emits("ability_cooldown_ready") <=>
                    same /\ IsReturn(hud.root.entries[i].shows, hud'.root.entries[i].shows)]_vars
  BY <1>1
<1>3. QED
  BY <1>2, Memory, PTL DEF Spec, UsesEmitted

--------------------------------------------------------------------------------
(* The catalogue. *)

\* Without a baseline the last poll saw the same panels, whose states are remembered.
LEMMA ComparedStates ==
  ASSUME MemoryInv, PollPlayer, hud'.root # None, ~Baselines(hud'.root)
  PROVE  /\ localPlayerPanel \in hud.players /\ hud.root # None
         /\ ability.states = ShownByAll(hud.root.entries)
         /\ DOMAIN hud.root.entries = DOMAIN hud'.root.entries
<1>1. SameFight
  BY ComparedIsFight
<1>2. localPlayerPanel \in hud.players /\ hud.root # None /\ localPlayerPanel # None
  BY <1>1, HudParts DEF SameFight, SameAbilities, MemoryInv
<1>3. ability = Baseline(hud.root)
  BY <1>2, PollPlayerParts DEF MemoryInv
<1>4. QED
  BY <1>1, <1>2, <1>3 DEF Baseline, SameFight, SameAbilities

\* States that catalogueChanged finds alike are listed alike.
LEMMA UnchangedListing ==
  ASSUME NEW entries, ability.states = ShownByAll(entries),
         NEW states, DOMAIN states = DOMAIN entries, ~CatalogueChanged(states)
  PROVE  Listed(states) = Listed(ShownByAll(entries))
<1> DEFINE before == ShownByAll(entries)
<1>1. DOMAIN before = DOMAIN states /\ ability.states = before
  BY DEF ShownByAll
<1> HIDE DEF before
<1>2. \A i \in DOMAIN states :
        /\ states[i] = None <=> before[i] = None
        /\ states[i] # None => states[i].name = before[i].name
  BY <1>1 DEF CatalogueChanged
<1>3. Listed(states) = Listed(before)
  BY <1>1, <1>2 DEF Listed
<1>4. QED
  BY <1>3 DEF before

LEMMA CatalogStep == MemoryInv /\ CatalogCurrent /\ [Next]_vars => CatalogCurrent'
<1> SUFFICES ASSUME MemoryInv, CatalogCurrent, [Next]_vars PROVE CatalogCurrent'
  OBVIOUS
<1>1. CASE PollPlayer
  <2>1. CASE hud'.root = None
    BY <2>1 DEF CatalogCurrent
  <2>2. CASE hud'.root # None
    <3> DEFINE states == ShownByAll(hud'.root.entries)
    <3>1. catalog' = IF Sends(hud'.root) THEN Listed(states) ELSE catalog
      BY <1>1, <2>2, AbilitiesParts
    <3>2. ~Sends(hud'.root) => catalog = Listed(states) \/ Listed(states) = {}
      <4>1. CASE Baselines(hud'.root)
        BY <4>1 DEF Sends, EmitsCatalog
      <4>2. CASE ~Baselines(hud'.root) /\ (CatalogueChanged(states) \/ CatalogueReplaced(states))
        BY <4>2 DEF Sends, EmitsCatalog
      <4>3. CASE ~Baselines(hud'.root) /\ ~CatalogueChanged(states)
        <5>1. /\ localPlayerPanel \in hud.players /\ hud.root # None
              /\ ability.states = ShownByAll(hud.root.entries)
              /\ DOMAIN hud.root.entries = DOMAIN hud'.root.entries
          BY <1>1, <2>2, <4>3, ComparedStates
        <5>2. DOMAIN states = DOMAIN hud.root.entries
          BY <5>1 DEF ShownByAll
        <5>3. Listed(states) = Listed(ShownByAll(hud.root.entries))
          BY <4>3, <5>1, <5>2, UnchangedListing
        <5>4. QED
          BY <5>1, <5>3 DEF CatalogCurrent
      <4>4. QED
        BY <4>1, <4>2, <4>3
    <3>3. CatalogCurrent' <=> (localPlayerPanel' \in hud'.players /\ hud'.root # None =>
                                 catalog' = Listed(states) \/ Listed(states) = {})
      BY DEF CatalogCurrent, Listed, ShownByAll, ShownBy
    <3> HIDE DEF states
    <3>4. QED
      BY <3>1, <3>2, <3>3
  <2>3. QED
    BY <2>1, <2>2
<1>2. CASE PollEnds \/ PollWithoutPlayer
  BY <1>2, OtherPolls DEF CatalogCurrent
<1>3. CASE UNCHANGED vars
  BY <1>3 DEF vars, CatalogCurrent, Listed, ShownByAll, ShownBy
<1>4. QED
  BY <1>1, <1>2, <1>3 DEF Next

\* Over any HUDs, the last catalogue emitted is the list of the abilities on the HUD,
\* whatever changed without a baseline (emitAbilityCatalog and its memory).
THEOREM CatalogCorrect == Spec => []CatalogCurrent
<1>1. Init => CatalogCurrent
  BY DEF Init, CatalogCurrent
<1>2. QED
  BY <1>1, CatalogStep, MemoryInit, MemoryStep, PTL DEF Spec

\* Another ability in a slot of one fight is what catalogueReplaced finds.
LEMMA OtherAbilityReplaces ==
  ASSUME MemoryInv, PollPlayer, hud'.root # None, SameFight,
         NEW i \in DOMAIN hud.root.entries, OtherAbility(i)
  PROVE  CatalogueReplaced(ShownByAll(hud'.root.entries))
<1> DEFINE states == ShownByAll(hud'.root.entries)
<1>1. /\ localPlayerPanel # None /\ hud.root # None
      /\ DOMAIN hud.root.entries = DOMAIN hud'.root.entries
  BY HudParts, PollPlayerParts DEF MemoryInv, SameFight, SameAbilities
<1>2. ability.states = ShownByAll(hud.root.entries)
  BY <1>1, PollPlayerParts DEF MemoryInv, Baseline
<1>3. /\ hud.root.entries[i].shows \in Snapshot /\ hud'.root.entries[i].shows \in Snapshot
      /\ hud.root.entries[i].shows.identity # hud'.root.entries[i].shows.identity
  BY DEF OtherAbility
<1>4. None \notin Snapshot /\ Invalid \notin Snapshot
  BY SnapshotAssumption
<1>5. /\ i \in DOMAIN states /\ states[i] = hud'.root.entries[i].shows
      /\ ability.states[i] = hud.root.entries[i].shows
  BY <1>1, <1>2, <1>3, <1>4 DEF ShownByAll, ShownBy
<1> HIDE DEF states
<1>6. CatalogueReplaced(states)
  BY <1>3, <1>4, <1>5 DEF CatalogueReplaced
<1>7. QED
  BY <1>6 DEF states

\* Over any HUDs, abilities first seen after a poll without a player or a root, another
\* root, hero or set of ability panels, and another ability in a slot of a living player
\* are announced by a catalogue in the same poll, though it reads as the last one did
\* (emitAbilityCatalog's forceRefresh).
THEOREM RefreshCorrect == Spec => CatalogRefreshed
<1>1. ASSUME MemoryInv, Next, localPlayerPanel' \in hud'.players, hud'.root # None,
             Listed(ShownByAll(hud'.root.entries)) # {},
             \/ localPlayerPanel \notin hud.players
             \/ ~SameAbilities
             \/ SameFight /\ \E i \in DOMAIN hud.root.entries : OtherAbility(i)
      PROVE  Emits("ability_catalog") # {}
  <2>1. PollPlayer
    BY <1>1, OtherPolls DEF Next
  <2>2. Sends(hud'.root)
    <3>1. CASE localPlayerPanel \notin hud.players \/ ~SameAbilities
      <4>1. Replaced(hud'.root)
        BY <1>1, <2>1, <3>1, ReplacedIsOther
      <4>2. QED
        BY <1>1, <4>1 DEF Sends, Baselines, ForceRefresh, EmitsCatalog
    <3>2. CASE SameFight /\ \E i \in DOMAIN hud.root.entries : OtherAbility(i)
      <4>1. ~Baselines(hud'.root)
        BY <1>1, <2>1, <3>2, ComparedIsFight
      <4>2. CatalogueReplaced(ShownByAll(hud'.root.entries))
        BY <1>1, <2>1, <3>2, OtherAbilityReplaces
      <4>3. QED
        BY <1>1, <4>1, <4>2 DEF Sends, EmitsCatalog
    <3>3. QED
      BY <1>1, <3>1, <3>2
  <2>3. [event |-> "ability_catalog", slot |-> 0] \in emitted'
    BY <1>1, <2>1, <2>2, AbilitiesParts DEF CatalogMessage
  <2>4. QED
    BY <2>3 DEF Emits
<1>2. MemoryInv /\ [Next]_vars =>
        [/\ localPlayerPanel' \in hud'.players
         /\ hud'.root # None
         /\ Listed(ShownByAll(hud'.root.entries)) # {}
         /\ \/ localPlayerPanel \notin hud.players
            \/ ~SameAbilities
            \/ SameFight /\ \E i \in DOMAIN hud.root.entries : OtherAbility(i)
         => Emits("ability_catalog") # {}]_vars
  BY <1>1
<1>3. QED
  BY <1>2, Memory, PTL DEF Spec, CatalogRefreshed
================================================================================
