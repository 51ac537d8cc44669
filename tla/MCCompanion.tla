----------------------------- MODULE MCCompanion ------------------------------
(* Values for the constants of Companion. *)
EXTENDS Companion

CONSTANTS pishock, openshock, k1, p1, o1

MCOwnerOf == [d \in Target |-> IF d = o1 THEN openshock ELSE pishock]

\* A fixed profile on a step, another one, one of a settings file between the two, which
\* the editor moves onto the second, and a fraction of a percent, which resolves to nothing
\* until the editor has rounded it.
MCProfiles == {"one", "two", "between", "fraction"}
MCLevels   == [one |-> {1}, two |-> {2}, between |-> {3}, fraction |-> {}]
MCDrawn    == [one |-> "one", two |-> "two", between |-> "two", fraction |-> "one"]

On(slots, profile) == [enabled |-> TRUE, slots |-> slots, profile |-> profile]
Off(profile)       == [enabled |-> FALSE, slots |-> {1, 2}, profile |-> profile]

\* TriggerSettingsSet::default(): death is on, the abilities are off, no filter.
MCDefaultSettings == [k \in Kind |-> IF k = "death" THEN On({1, 2}, "one") ELSE Off("one")]

Record(s, n, k, slot) == [session |-> s, sequence |-> n, kind |-> k, slot |-> slot]

\* For the setup pages: records of a kind that is on at first.
SetupTriggers == {Record("A", 1, "death", 1), Record("A", 2, "death", 1)}
SetupChoices  == {On({1, 2}, "two")}
SetupRestored == {[MCDefaultSettings EXCEPT !["death"].profile = p] :
                    p \in {"one", "between", "fraction"}}

\* For the queue: a session with an ability that a filter may refuse.
QueueTriggers == {Record("A", 1, "death", 1), Record("A", 2, "ability_use", 1),
                  Record("A", 3, "ability_use", 2)}
\* The filter is there from the start and after a reset, so that the only settings that
\* vary are which triggers are on.
QueueChoices  == {}
QueueDefault  == [k \in Kind |-> IF k = "death" THEN On({1, 2}, "one")
                                ELSE [Off("one") EXCEPT !.slots = {1}]]
QueueRestored == {QueueDefault}
================================================================================
