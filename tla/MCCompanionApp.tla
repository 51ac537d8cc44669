---------------------------- MODULE MCCompanionApp ----------------------------
(* Values for the constants of CompanionApp: two settings and the defaults, a newer     *)
(* release and one of the application's own precedence.                                  *)
EXTENDS CompanionApp

CONSTANTS d, s1, s2, this, rebuilt, newer

Ranks == [v \in {this, rebuilt, newer} |-> IF v = newer THEN 2 ELSE 1]

Answers(version) == [sent |-> "ok", success |-> TRUE, body |-> "release",
                     tag |-> [prefixed |-> TRUE, long |-> FALSE, version |-> version]]
Replies == {Answers(newer), Answers(rebuilt), [Answers(newer) EXCEPT !.success = FALSE]}
Observations == {[kind |-> "reported", version |-> newer]}
================================================================================
