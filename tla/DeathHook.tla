------------------------------- MODULE DeathHook -------------------------------
(***************************************************************************)
(* The Panorama script in the game's HUD                                    *)
(* (mod/panorama/scripts/death_http_bridge.js).  It polls the HUD and tells *)
(* deaths, ability uses and abilities that are ready again from the         *)
(* difference between what it remembers and what it sees.                   *)
(*                                                                          *)
(* One step is one call of pollState.  Scripts run to completion, so a poll *)
(* sees one HUD; between two polls the HUD may become any other.  hud is    *)
(* the HUD the last poll saw.                                               *)
(*                                                                          *)
(* The messages of a poll are a set: the code's order is the death, then    *)
(* the slots, each used before ready, then the catalogue, and the sequence  *)
(* numbers of emitAction count the actions in that order.                   *)
(***************************************************************************)
EXTENDS Naturals, Sequences, Functions

CONSTANTS
  Player,     \* top bar panels of type CitadelHudTopBarPlayer
  Root,       \* panels with the id hud_signature
  Hero,       \* the identities a root may carry
  Panel,      \* panels of class ability_container
  Snapshot,   \* what a readable ability panel may show
  Scene,      \* what findAbilityRoot may find: a root, its hero and its abilities
  Invalid,    \* stands for what an ability panel that is no longer valid shows
  None

\* An ability panel shows a snapshot, or None where its charges cannot be read, or
\* is no longer valid.
Entry == [panel : Panel, shows : Snapshot \cup {None, Invalid}]

Signature == [panel : Root, hero : Hero \cup {None}, entries : Seq(Entry)]

\* The positional slots of the abilities.
Slot == UNION {DOMAIN s.entries : s \in Scene}

ASSUME SceneAssumption ==
  /\ Scene \subseteq Signature
  /\ \A s \in Scene : IsInjective([i \in DOMAIN s.entries |-> s.entries[i].panel])

ASSUME SnapshotAssumption ==
  /\ \A s \in Snapshot :
       /\ {"identity", "name", "tier", "charged", "charges", "max_charges",
           "cooling_down", "active"} = DOMAIN s
       /\ {s.charged, s.cooling_down, s.active} \subseteq BOOLEAN
       /\ s.charged => s.max_charges \in Nat /\ s.charges \in 0 .. s.max_charges
  /\ None \notin Player \cup Root \cup Snapshot /\ Invalid \notin Snapshot \cup {None}

VARIABLES
  hud,         \* the HUD the last poll saw
  scheduled,   \* another poll is scheduled
  localPlayerPanel,
  deathBaselineEstablished,
  wasDead,
  ability,     \* abilityRoot, abilityHeroIdentity, abilityPanels and abilityStates
  catalog,     \* lastAbilityCatalogSignature
  emitted      \* what the last poll emitted

vars == <<hud, scheduled, localPlayerPanel, deathBaselineEstablished, wasDead,
          ability, catalog, emitted>>

--------------------------------------------------------------------------------
(* The HUD. *)

\* The script's context panel, the valid player panels with the one of class
\* LocalPlayer and those of class Dead, and the abilities.
Hud == {h \in [context : BOOLEAN, players : SUBSET Player, local : Player \cup {None},
               dead : SUBSET Player, root : Scene \cup {None}] :
          /\ h.local \in h.players \cup {None}
          /\ h.dead \subseteq h.players
          /\ ~h.context => h.players = {} /\ h.root = None}

--------------------------------------------------------------------------------
(* Abilities. *)

\* abilitySnapshot
ShownBy(entry) == IF entry.shows = Invalid THEN None ELSE entry.shows

ShownByAll(entries) == [i \in DOMAIN entries |-> ShownBy(entries[i])]

NoAbilities == [root |-> None, hero |-> None, panels |-> <<>>, states |-> <<>>]

\* resetAbilityState
ResetAbilityState == NoAbilities

\* baselineAbilityPanels
Baseline(root) ==
  [root |-> root.panel, hero |-> root.hero,
   panels |-> [i \in DOMAIN root.entries |-> root.entries[i].panel],
   states |-> ShownByAll(root.entries)]

\* samePanelSet
SamePanelSet(entries) ==
  /\ DOMAIN entries = DOMAIN ability.panels
  /\ \A i \in DOMAIN entries :
       entries[i].panel = ability.panels[i] /\ entries[i].shows # Invalid

\* The abilities of a catalogue: the slots that can be read, with their names.
Listed(states) == {[slot |-> i, name |-> states[i].name] : i \in {k \in DOMAIN states : states[k] # None}}

\* emitAbilityCatalog
EmitsCatalog(states, forceRefresh) ==
  Listed(states) # {} /\ (forceRefresh \/ Listed(states) # catalog)

\* A comparison that overlooks upgrades, which change the charges.
SameIdentity(previous, current) ==
  current.identity = previous.identity /\ current.charged = previous.charged

\* The two snapshots are of one ability, at one tier, counted alike.
SameAbility(previous, current) ==
  /\ current.identity = previous.identity
  /\ current.identity = None => current.name = previous.name
  /\ current.tier = previous.tier
  /\ current.charged = previous.charged
  /\ current.max_charges = previous.max_charges

\* The slots pollAbilities compares: readable then and now, and of one ability.
Comparable(states) ==
  {i \in DOMAIN states : /\ states[i] # None
                         /\ ability.states[i] # None
                         /\ SameAbility(ability.states[i], states[i])}

\* detectAbilityTransitions: the ability was used.
Used(previous, current) ==
  IF current.charged
  THEN current.charges < previous.charges
  ELSE \/ ~previous.cooling_down /\ current.cooling_down
       \/ ~previous.active /\ current.active

\* detectAbilityTransitions: the ability may be used again.
ReadyAgain(previous, current) ==
  \/ previous.cooling_down /\ ~current.cooling_down
  \/ current.charged /\ current.charges > previous.charges

Message(event, slot) == [event |-> event, slot |-> slot]

Transitions(states) ==
  {Message("ability_used", i) : i \in {k \in Comparable(states) : Used(ability.states[k], states[k])}}
  \cup
  {Message("ability_cooldown_ready", i) :
     i \in {k \in Comparable(states) : ReadyAgain(ability.states[k], states[k])}}

\* catalogueChanged that overlooks the slots that come and go.
NamesDiffer(states) ==
  \E i \in DOMAIN states : /\ states[i] # None /\ ability.states[i] # None
                           /\ states[i].name # ability.states[i].name

\* catalogueChanged
CatalogueChanged(states) ==
  \E i \in DOMAIN states :
    IF states[i] = None \/ ability.states[i] = None
    THEN states[i] # ability.states[i]
    ELSE states[i].name # ability.states[i].name

\* catalogueReplaced
CatalogueReplaced(states) ==
  \E i \in DOMAIN states : /\ states[i] # None /\ ability.states[i] # None
                           /\ states[i].identity # ability.states[i].identity

CatalogMessage(states, sent) ==
  IF sent THEN {[event |-> "ability_catalog", slot |-> 0]} ELSE {}

\* rootReplaced || panelsReplaced || heroReplaced
Replaced(root) ==
  \/ ability.root # root.panel
  \/ ability.hero # root.hero
  \/ ~SamePanelSet(root.entries)

\* A refresh that overlooks the ability panels.
RefreshesRoot(root) == ability.root # root.panel \/ ability.hero # root.hero

\* The forceRefresh a baseline asks emitAbilityCatalog for.
ForceRefresh(root) == Replaced(root)

\* What pollAbilities emits and remembers, given the root it finds.
PollAbilities(root, forceBaseline, messages) ==
  IF root = None
  THEN /\ ability' = ResetAbilityState
       /\ emitted' = messages
       /\ UNCHANGED catalog
  ELSE LET states   == ShownByAll(root.entries)
           baseline == forceBaseline \/ Replaced(root)
           sent     == IF baseline
                       THEN EmitsCatalog(states, ForceRefresh(root))
                       ELSE /\ CatalogueChanged(states) \/ CatalogueReplaced(states)
                            /\ EmitsCatalog(states, CatalogueReplaced(states))
       IN  /\ ability' = Baseline(root)
           /\ catalog' = IF sent THEN Listed(states) ELSE catalog
           /\ emitted' = messages \cup CatalogMessage(states, sent)
                           \cup (IF baseline THEN {} ELSE Transitions(states))

--------------------------------------------------------------------------------
(* The player. *)

\* findLocalPlayerPanel: the panel held while it is valid, else the one found now.
FoundPlayer(seen) == IF localPlayerPanel \in seen.players THEN localPlayerPanel ELSE seen.local

\* A baseline that outlives the panel it was taken from.
BaselineKept(seen) == deathBaselineEstablished

\* findLocalPlayerPanel forgets the baseline of a panel that is gone.
BaselineHeld(seen) == deathBaselineEstablished /\ localPlayerPanel \in seen.players

\* pollState's forceAbilityBaseline || isDead
ForceBaseline(seen, player) ==
  ~BaselineHeld(seen) \/ (player \in seen.dead) # wasDead \/ player \in seen.dead

\* A poll after the context panel is gone ends the polling.
PollEnds ==
  /\ scheduled
  /\ \E seen \in Hud :
       /\ ~seen.context
       /\ hud' = seen
  /\ scheduled' = FALSE
  /\ emitted' = {}
  /\ UNCHANGED <<localPlayerPanel, deathBaselineEstablished, wasDead, ability, catalog>>

PollWithoutPlayer ==
  /\ scheduled
  /\ \E seen \in Hud :
       /\ seen.context
       /\ FoundPlayer(seen) = None
       /\ hud' = seen
       /\ deathBaselineEstablished' = BaselineHeld(seen)
  /\ localPlayerPanel' = None
  /\ ability' = ResetAbilityState
  /\ emitted' = {}
  /\ UNCHANGED <<scheduled, wasDead, catalog>>

PollPlayer ==
  /\ scheduled
  /\ \E seen \in Hud :
       LET player == FoundPlayer(seen)
           isDead == player \in seen.dead
           dies   == BaselineHeld(seen) /\ isDead /\ ~wasDead
       IN  /\ seen.context
           /\ player # None
           /\ hud' = seen
           /\ localPlayerPanel' = player
           /\ deathBaselineEstablished' = TRUE
           /\ wasDead' = isDead
           /\ PollAbilities(seen.root, ForceBaseline(seen, player),
                            IF dies THEN {Message("local_player_death", 0)} ELSE {})
  /\ UNCHANGED scheduled

\* The script is loaded: it says hook_ready and polls.
Init ==
  /\ hud = [context |-> TRUE, players |-> {}, local |-> None, dead |-> {}, root |-> None]
  /\ scheduled = TRUE
  /\ localPlayerPanel = None
  /\ deathBaselineEstablished = FALSE
  /\ wasDead = FALSE
  /\ ability = NoAbilities
  /\ catalog = None
  /\ emitted = {[event |-> "hook_ready", slot |-> 0]}

Next == PollEnds \/ PollWithoutPlayer \/ PollPlayer

Spec == Init /\ [][Next]_vars

--------------------------------------------------------------------------------
(* Correctness. *)

Emits(event) == {msg.slot : msg \in {e \in emitted' : e.event = event}}

\* A death is emitted exactly when the panel that is watched was alive at one poll and
\* is dead at the next: once per death, none for a player first seen dead, and none
\* when the panel is replaced.
DeathsEmitted ==
  [][Emits("local_player_death") # {} <=>
       /\ localPlayerPanel \in hud'.players \ hud.dead
       /\ localPlayerPanel \in hud'.dead]_vars

\* Two polls in a row saw the same root, hero and ability panels, all of them valid.
SameAbilities ==
  /\ hud.root # None /\ hud'.root # None
  /\ hud.root.panel = hud'.root.panel
  /\ hud.root.hero = hud'.root.hero
  /\ DOMAIN hud.root.entries = DOMAIN hud'.root.entries
  /\ \A i \in DOMAIN hud.root.entries :
       /\ hud.root.entries[i].panel = hud'.root.entries[i].panel
       /\ hud'.root.entries[i].shows # Invalid

\* Two polls in a row saw the same living player and the same abilities.
SameFight ==
  /\ localPlayerPanel \in (hud.players \ hud.dead) \cap (hud'.players \ hud'.dead)
  /\ SameAbilities

\* A slot that both polls can read, and that still holds the same ability.
SameSlot(i) ==
  LET previous == hud.root.entries[i].shows
      current  == hud'.root.entries[i].shows
  IN  /\ previous \in Snapshot /\ current \in Snapshot
      /\ <<previous.identity, previous.tier, previous.charged, previous.max_charges>> =
         <<current.identity, current.tier, current.charged, current.max_charges>>
      /\ previous.identity = None => previous.name = current.name

\* What a player would call a use of the ability, and its return.
IsUse(p, c) ==
  \/ c.charged /\ c.charges < p.charges
  \/ ~c.charged /\ c.cooling_down /\ ~p.cooling_down
  \/ ~c.charged /\ c.active /\ ~p.active
IsReturn(p, c) ==
  \/ p.cooling_down /\ ~c.cooling_down
  \/ c.charged /\ c.charges > p.charges

\* Uses and returns are emitted for exactly the slots that were used, or are ready
\* again, between two polls of one fight: a respawn, a new hero, a reordered or an
\* upgraded ability is neither, and none is lost to what the script remembers of an
\* earlier poll.
UsesEmitted ==
  [][\A i \in Slot :
       LET same == SameFight /\ i \in DOMAIN hud.root.entries /\ SameSlot(i)
       IN  /\ i \in Emits("ability_used") <=>
                same /\ IsUse(hud.root.entries[i].shows, hud'.root.entries[i].shows)
           /\ i \in Emits("ability_cooldown_ready") <=>
                same /\ IsReturn(hud.root.entries[i].shows, hud'.root.entries[i].shows)]_vars

\* The last catalogue emitted lists the abilities the last poll with a player saw.
CatalogCurrent ==
  LET states == ShownByAll(hud.root.entries)
  IN  localPlayerPanel \in hud.players /\ hud.root # None =>
        catalog = Listed(states) \/ Listed(states) = {}

\* A slot that both polls can read now holds another ability.
OtherAbility(i) ==
  LET previous == hud.root.entries[i].shows
      current  == hud'.root.entries[i].shows
  IN  /\ previous \in Snapshot /\ current \in Snapshot
      /\ previous.identity # current.identity

\* Three things are announced by a catalogue in the poll that sees them, though it reads
\* as the last one did, so that a companion that lost that one catches up: abilities
\* seen first after a poll without a player or without a root; another root, hero or
\* set of ability panels; and, while one player stays alive, another ability in a slot.
\* A player panel that takes another's place is no such thing.
CatalogRefreshed ==
  [][/\ localPlayerPanel' \in hud'.players
     /\ hud'.root # None
     /\ Listed(ShownByAll(hud'.root.entries)) # {}
     /\ \/ localPlayerPanel \notin hud.players
        \/ ~SameAbilities
        \/ SameFight /\ \E i \in DOMAIN hud.root.entries : OtherAbility(i)
     => Emits("ability_catalog") # {}]_vars
================================================================================
