------------------------------- MODULE Detector -------------------------------
(***************************************************************************)
(* The detector, pkg/detector/detector.go: which kind of commitment a message *)
(* is, and whether it passes the threshold. A message is told by the groups   *)
(* of patterns it matches; confidences and thresholds are hundredths.          *)
(***************************************************************************)
EXTENDS Integers, Sequences, FiniteSets

Features ==
  {"system description", "past tense",
   "problem",        \* one with no tracking reference after it
   "code marker", "reference",
   "speculative", "evidence",
   "conditional", "followup", "scheduled", "temporal", "weak"}

DefaultMinConfidence == 70

\* A threshold that is no probability is replaced; NotANumber stands for NaN.
NotANumber == -1

NormalizeMinConfidence(min) == IF min \in 0 .. 100 THEN min ELSE DefaultMinConfidence

-----------------------------------------------------------------------------
\* The rules in the order in which DetectCommitment tries them.
Categories ==
  <<"untracked_problem", "untracked_problem", "speculative", "conditional",
    "followup", "scheduled", "temporal", "weak_commitment">>

Confidences == <<90, 90, 85, 90, 90, 92, 95, 70>>

Matches(m) ==
  <<"problem" \in m,
    "code marker" \in m /\ "reference" \notin m,
    "speculative" \in m /\ "evidence" \notin m,
    "conditional" \in m, "followup" \in m, "scheduled" \in m, "temporal" \in m, "weak" \in m>>

Excluded(m) == m \cap {"system description", "past tense"} # {}

Hits(m) == IF Excluded(m) THEN {} ELSE {i \in DOMAIN Categories : Matches(m)[i]}

\* The first of some rules, as a set.
Earliest(rules) == {i \in rules : \A j \in rules : i <= j}

\* Trying the next rule when one does not reach the threshold.
BugNextRule(m, min) == Earliest({i \in Hits(m) : Confidences[i] >= min})

\* The first rule that matches decides, whether or not it reaches the threshold.
DecidingRule(m, min) == Earliest(Hits(m))

\* What is reported, as a set of at most one: the rule must reach the threshold.
DetectCommitment(m, min) ==
  {[category |-> Categories[i], confidence |-> Confidences[i]] :
     i \in {j \in DecidingRule(m, NormalizeMinConfidence(min)) :
              Confidences[j] >= NormalizeMinConfidence(min)}}

IsCommitment(m, min) == DetectCommitment(m, min) # {}
=============================================================================
