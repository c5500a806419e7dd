----------------------------- MODULE Conversation -----------------------------
(***************************************************************************)
(* What is read out of several messages: the context analyzer's fulfilled and *)
(* repeated promises, pkg/detector/context.go, the commitments that scan       *)
(* reports of a transcript, pkg/scanner/scanner.go, and what the daemon's      *)
(* poller hands on of the same lines, pkg/ingest/transcript_poller.go.         *)
(*                                                                          *)
(* A text is a record: the groups of patterns it matches, the verb of its     *)
(* promise or "", and the verbs it says were done (all of them, if it says    *)
(* "done").                                                                   *)
(***************************************************************************)
EXTENDS Detector, SequencesExt

\* The elements of a sequence at some places, in their order.
At(s, places) == FlattenSeq([n \in DOMAIN s |-> IF n \in places THEN <<s[n]>> ELSE <<>>])

\* A window that is no positive number is replaced.
EffectiveWindow(size) == IF size <= 0 THEN 5 ELSE size

WindowStart(texts, size) ==
  IF Len(texts) > EffectiveWindow(size) THEN Len(texts) - EffectiveWindow(size) + 1 ELSE 1

\* The places of the promises in the window.
Commitments(texts, size, min) ==
  {i \in WindowStart(texts, size) .. Len(texts) : IsCommitment(texts[i].features, min)}

IsFulfillment(verb, text) == verb \in text.does

\* The last message that fulfils a promise.
BugLatest(texts, i) ==
  {j \in i + 1 .. Len(texts) :
     /\ IsFulfillment(texts[i].verb, texts[j])
     /\ \A k \in j + 1 .. Len(texts) : ~IsFulfillment(texts[i].verb, texts[k])}

\* The first message after a promise that fulfils it, as a set; without a verb
\* none does.
FulfilledBy(texts, i) ==
  {j \in i + 1 .. Len(texts) :
     /\ texts[i].verb # "" /\ IsFulfillment(texts[i].verb, texts[j])
     /\ \A k \in i + 1 .. j - 1 : ~IsFulfillment(texts[i].verb, texts[k])}

Fulfilled(texts, size, min) ==
  UNION {{i} \X FulfilledBy(texts, i) : i \in Commitments(texts, size, min)}

\* The promises of a category that nothing fulfils.
Pending(texts, size, min, category) ==
  {i \in Commitments(texts, size, min) :
     /\ FulfilledBy(texts, i) = {}
     /\ \E d \in DetectCommitment(texts[i].features, min) : d.category = category}

Escalated(texts, size, min) ==
  {category \in ToSet(Categories) : Cardinality(Pending(texts, size, min, category)) >= 2}

-----------------------------------------------------------------------------
\* A line is a role, its texts, and an id: its message's, or, without one, the line itself.
\* One that is longer than the scanner's buffer of 2 MiB ends the scan with an error.
ScanFails(lines) == \E n \in DOMAIN lines : lines[n].tooLong

\* Scan reads only an assistant's texts, one by one.
AssistantTexts(line) == IF line.role = "assistant" THEN line.texts ELSE <<>>

\* Finding nothing but the first commitment on a line.
BugOnePerLine(line, n, min) ==
  IF AssistantTexts(line) = <<>> THEN <<>>
  ELSE LET text == AssistantTexts(line)[1]
       IN  SetToSeq({[line |-> n, text |-> text, category |-> d.category] :
                       d \in DetectCommitment(text.features, min)})

ResultsOf(line, n, min) ==
  FlattenSeq([k \in DOMAIN AssistantTexts(line) |->
    LET text == AssistantTexts(line)[k]
    IN  SetToSeq({[line |-> n, text |-> text, category |-> d.category] :
                    d \in DetectCommitment(text.features, min)})])

Scan(lines, min) == FlattenSeq([n \in DOMAIN lines |-> ResultsOf(lines[n], n, min)])

-----------------------------------------------------------------------------
\* The daemon, tailing the same transcript, is not so strict: "Assistant" stands for all
\* that is an assistant's in lower case and without the space around it. A line may be of
\* any length.
SpokenTexts(line) == IF line.role \in {"assistant", "Assistant"} THEN line.texts ELSE <<>>

\* What it would hand on of line n.
Messages(line, n) ==
  [k \in DOMAIN SpokenTexts(line) |-> [line |-> n, id |-> line.id, text |-> SpokenTexts(line)[k]]]

\* Taking a message's id for its fingerprint.
BugSameFingerprint(m1, m2) == m1.id = m2.id

SameFingerprint(m1, m2) == m1.id = m2.id /\ m1.text = m2.text

\* The places of the messages that were handed on before, of this line or of another one.
Repeats(said, messages) ==
  {k \in DOMAIN messages :
     \/ \E n \in DOMAIN said : SameFingerprint(said[n], messages[k])
     \/ \E j \in 1 .. k - 1 : SameFingerprint(messages[j], messages[k])}
=============================================================================
