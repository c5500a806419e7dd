------------------------------ MODULE MCCommands ------------------------------
(* A small instance of the command line. *)
EXTENDS Commands

Text(features, verb, does) == [features |-> features, verb |-> verb, does |-> does]

\* "I'll check again tomorrow", "I'll check tomorrow, it is likely the cache",
\* "Once it is green I'll watch it", "I checked", "I need to look. Done.".
Check   == Text({"temporal"}, "check", {})
Guess   == Text({"temporal", "speculative"}, "check", {})
Watch   == Text({"conditional", "followup"}, "watch", {})
Checked == Text({"past tense"}, "", {"check"})
Done    == Text({"weak"}, "look", {"check", "watch", "look"})

Line(role, id, texts) == [role |-> role, id |-> id, texts |-> texts, tooLong |-> FALSE]

\* Message 1 grows while it is written down, and is written down again; message 2 promises
\* the same as its second half.
MCLines ==
  {Line("assistant", "1", <<Check>>), Line("assistant", "1", <<Check, Watch>>),
   Line("assistant", "2", <<Watch>>), Line("assistant", "3", <<Checked>>),
   Line("assistant", "4", <<Guess, Done>>), Line("Assistant", "5", <<Guess, Done>>),
   Line("user", "6", <<Checked>>),
   [Line("assistant", "7", <<Check>>) EXCEPT !.tooLong = TRUE]}

\* Only the daemon's clients use "Agent:Main": its tag names another key.
Tags == "" :> "no tag" @@ "Agent:Main" :> "session-agent-main" @@ "agent-main" :> "session-agent-main"
Keys == "session-agent-main" :> "agent-main" @@ "session-x" :> "x"

\* None; one that stands before the categories in the alphabet, and one like a session's; and
\* a category.
MCExtraTags == {<<>>, <<"Urgent", "session-x">>, <<"followup">>}
MCOtherTags == {<<"bug">>, <<"oathkeeper", "Temporal">>}

Everything ==
  ToSet(Categories) \cup {"oathkeeper", "session-agent-main", "session-x", "Urgent", "urgent", "Temporal", "bug"}

MCLower == [t \in Everything |-> CASE t = "Urgent" -> "urgent" [] t = "Temporal" -> "temporal" [] OTHER -> t]

Alphabet == <<"Temporal", "Urgent", "bug", "conditional", "followup", "oathkeeper", "scheduled",
              "session-agent-main", "session-x", "speculative", "temporal", "untracked_problem", "urgent",
              "weak_commitment">>

MCRank == [t \in Everything |-> CHOOSE n \in DOMAIN Alphabet : Alphabet[n] = t]

\* "--config=" has a blank value.
MCConfigIn == "--config=why" :> "why" @@ "--config=" :> ""
=============================================================================
