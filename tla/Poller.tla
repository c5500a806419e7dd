-------------------------------- MODULE Poller --------------------------------
(***************************************************************************)
(* The transcript poller, pkg/ingest/transcript_poller.go: a goroutine that  *)
(* tails the transcript files of all sessions while the agents append to    *)
(* them, start them afresh and truncate them, and hands each new message to *)
(* the analyze endpoint once.                                               *)
(*                                                                          *)
(* A file is a sequence of half lines: a message is a "head" and a "tail",  *)
(* and the newline comes with the tail. Two lines with the same id and text   *)
(* are the same message.                                                    *)
(***************************************************************************)
EXTENDS Integers, Sequences, FiniteSets, Functions

CONSTANTS Files,        \* transcript files, one per session
          Messages,     \* assistant messages with text
          MaxSeen,      \* size of the window of remembered fingerprints
          TornWrites,   \* TRUE: an agent may write a line in two goes
          MaxWrites,    \* bound: lines written
          MaxTruncates, \* bound: truncations
          MaxErrors     \* bound: failed reads

ASSUME PollerAssumption ==
  /\ MaxSeen \in Nat \ {0}
  /\ TornWrites \in BOOLEAN
  /\ MaxWrites \in Nat /\ MaxTruncates \in Nat /\ MaxErrors \in Nat

VARIABLES
  content,   \* [Files -> Seq(half lines)]
  exists,    \* the files that are there
  offsets,   \* p.offsets; Unknown for an absent key
  seen,      \* p.seen
  order,     \* p.order: the fingerprints of seen, oldest first
  pc,        \* where the goroutine is
  todo,      \* discovered files this scan has not reached
  file,      \* the file in hand, as a set of at most one
  pos,       \* how far it is read
  stop,      \* Stop: "none", "waiting" for doneCh, or "done"
  writes, truncates, errors,  \* counters, for the bounds only
  start,     \* history: the size of each file when it was first seen
  handled    \* history: the messages handed on, in order

fileVars == <<content, exists, writes, truncates>>
loopVars == <<pc, todo, file, pos>>
vars == <<fileVars, offsets, seen, order, loopVars, errors, stop, start, handled>>

Unknown == -1

\* What is remembered of a message: its session and its contents.
Fingerprint(f, m) == <<f, m>>

Init ==
  /\ exists \in SUBSET Files
  /\ content \in [Files -> {<<>>} \cup {<< <<m, "head">>, <<m, "tail">> >> : m \in Messages}]
  /\ \A f \in Files \ exists : content[f] = <<>>
  /\ offsets = [f \in Files |-> Unknown]
  /\ seen = {} /\ order = <<>>
  /\ pc = "scan"
  /\ todo = exists /\ file = {} /\ pos = 0
  /\ stop = "none"
  /\ writes = 0 /\ truncates = 0 /\ errors = 0
  /\ start = [f \in Files |-> 0]
  /\ handled = <<>>

-----------------------------------------------------------------------------
(* The agents' side of the files *)

Torn(f) == content[f] # <<>> /\ content[f][Len(content[f])][2] = "head"

Write(f, lines) ==
  /\ exists' = exists \cup {f}
  /\ content' = [content EXCEPT ![f] = @ \o lines]
  /\ UNCHANGED <<truncates, offsets, seen, order, loopVars, errors, stop, start, handled>>

WriteLine(f, m) ==
  /\ writes < MaxWrites /\ ~Torn(f)
  /\ writes' = writes + 1
  /\ Write(f, << <<m, "head">>, <<m, "tail">> >>)

WriteHead(f, m) ==
  /\ TornWrites
  /\ writes < MaxWrites /\ ~Torn(f)
  /\ writes' = writes + 1
  /\ Write(f, << <<m, "head">> >>)

WriteTail(f) ==
  /\ Torn(f)
  /\ Write(f, << <<content[f][Len(content[f])][1], "tail">> >>)
  /\ UNCHANGED writes

Truncate(f) ==
  /\ truncates < MaxTruncates
  /\ content[f] # <<>>
  /\ truncates' = truncates + 1
  /\ content' = [content EXCEPT ![f] = <<>>]
  /\ UNCHANGED <<exists, writes, offsets, seen, order, loopVars, errors, stop, start, handled>>

-----------------------------------------------------------------------------
(* A definition called Bug... is a seeded fault in the one after it.          *)

\* The window with one more fingerprint, and how many of it go when it overflows:
\* the older half.
Extended(p) == Append(order, p)
Overflow(p) == IF Len(Extended(p)) > MaxSeen THEN Len(Extended(p)) \div 2 ELSE 0

\* Pruning the list only.
BugMapKeeps(p) == seen \cup {p}

SeenWith(p) == (seen \cup {p}) \ {Extended(p)[i] : i \in 1 .. Overflow(p)}

\* Handing on whatever was read.
BugNoDedupe(p) == TRUE

IsNew(p) == p \notin seen

\* processLine on a parsed message: marked as seen before it is handed on, and
\* an error of the handler is dropped.
Handle(p) ==
  IF IsNew(p)
    THEN /\ order' = SubSeq(Extended(p), Overflow(p) + 1, Len(Extended(p)))
         /\ seen' = SeenWith(p)
         /\ handled' = Append(handled, p)
    ELSE UNCHANGED <<order, seen, handled>>

\* The ends of the complete lines after a position.
LineEnds(f, p) == {i \in p + 1 .. Len(content[f]) : content[f][i][2] = "tail"}

\* The messages on a line: part of a line is no JSON, and says nothing.
Parsed(line) == {m \in Messages : line = << <<m, "head">>, <<m, "tail">> >>}

-----------------------------------------------------------------------------
(* The goroutine *)

\* The ticker fires; the tree is walked.
Scan ==
  /\ pc = "idle"
  /\ pc' = "scan"
  /\ todo' = exists
  /\ UNCHANGED <<fileVars, offsets, seen, order, file, pos, errors, stop, start, handled>>

\* Reading a new file from its beginning.
BugFromStart(size) == 0

FirstOffset(size) == size

\* Reading only what is written from now on.
BugFromEnd(f, size) == size

StartAt(f, size) == IF size < offsets[f] THEN 0 ELSE offsets[f]

\* processFile up to the reading. A file seen for the first time is skipped to
\* its end; a file that shrank is read from the beginning.
StatFile(f) ==
  /\ pc = "scan"
  /\ f \in todo
  /\ todo' = todo \ {f}
  /\ LET size == Len(content[f])
     IN  IF offsets[f] = Unknown
           THEN /\ offsets' = [offsets EXCEPT ![f] = FirstOffset(size)]
                /\ start' = [start EXCEPT ![f] = size]
                /\ UNCHANGED <<pc, file, pos>>
           ELSE /\ file' = {f}
                /\ pos' = StartAt(f, size)
                /\ pc' = "read"
                /\ UNCHANGED <<offsets, start>>
  /\ UNCHANGED <<fileVars, seen, order, errors, stop, handled>>

\* ReadBytes('\n') finds a complete line.
ReadLine(f) ==
  /\ pc = "read"
  /\ f \in file
  /\ \E end \in LineEnds(f, pos) :
       /\ \A i \in LineEnds(f, pos) : end <= i
       /\ pos' = end
       /\ LET found == Parsed(SubSeq(content[f], pos + 1, end))
          IN  IF found = {} THEN UNCHANGED <<order, seen, handled>>
                            ELSE \E m \in found : Handle(Fingerprint(f, m))
  /\ UNCHANGED <<fileVars, offsets, pc, todo, file, errors, stop, start>>

\* It finds the end of the file. A line that is still being written is consumed
\* with it, and is no JSON.
EndOfFile(f) ==
  /\ pc = "read"
  /\ f \in file
  /\ LineEnds(f, pos) = {}
  /\ offsets' = [offsets EXCEPT ![f] = IF Len(content[f]) > pos THEN Len(content[f]) ELSE pos]
  /\ pc' = "scan"
  /\ file' = {} /\ pos' = 0
  /\ UNCHANGED <<fileVars, seen, order, todo, errors, stop, start, handled>>

\* Opening, seeking or reading fails: the offset stays where it was.
ReadError(f) ==
  /\ errors < MaxErrors
  /\ errors' = errors + 1
  /\ pc = "read"
  /\ f \in file
  /\ pc' = "scan"
  /\ file' = {} /\ pos' = 0
  /\ UNCHANGED <<fileVars, offsets, seen, order, todo, stop, start, handled>>

EndScan ==
  /\ pc = "scan"
  /\ todo = {}
  /\ pc' = "idle"
  /\ UNCHANGED <<fileVars, offsets, seen, order, todo, file, pos, errors, stop, start, handled>>

\* Waiting for a Stop that waits for the goroutine.
BugStopSeenLate == stop = "done"

StopSeen == stop # "none"

\* Between scans only: a scan that has begun runs to its end.
Exit ==
  /\ pc = "idle"
  /\ StopSeen
  /\ pc' = "exited"
  /\ UNCHANGED <<fileVars, offsets, seen, order, todo, file, pos, errors, stop, start, handled>>

-----------------------------------------------------------------------------
(* Stop *)

StopCall ==
  /\ stop = "none"
  /\ stop' = "waiting"
  /\ UNCHANGED <<fileVars, offsets, seen, order, loopVars, errors, start, handled>>

\* Closing stopCh without waiting for doneCh.
BugNoWait == TRUE

Exited == pc = "exited"

StopReturn ==
  /\ stop = "waiting"
  /\ Exited
  /\ stop' = "done"
  /\ UNCHANGED <<fileVars, offsets, seen, order, loopVars, errors, start, handled>>

-----------------------------------------------------------------------------
Agents ==
  \E f \in Files :
    \/ \E m \in Messages : WriteLine(f, m) \/ WriteHead(f, m)
    \/ WriteTail(f) \/ Truncate(f)

Process(f) == StatFile(f) \/ ReadLine(f) \/ EndOfFile(f) \/ ReadError(f)

Run == Scan \/ (\E f \in Files : Process(f)) \/ EndScan \/ Exit

Next == Agents \/ Run \/ StopCall \/ StopReturn

Spec == Init /\ [][Next]_vars

\* The ticker goes on ticking and select does not pass the closed stopCh over
\* for ever; that reading does not fail for ever is in the bound on ReadError.
Fairness ==
  /\ WF_vars(Run)
  /\ SF_vars(Exit)
  /\ WF_vars(StopReturn)

FairSpec == Spec /\ Fairness

-----------------------------------------------------------------------------
\* A message that is read again, after a truncation or a failed read, is handed
\* on again only if so many others were handed on in between that the newer half
\* of the window is full of them (transcript_poller.go:252-264).
Window == (MaxSeen + 1) - (MaxSeen + 1) \div 2

RepeatsAreFarApart ==
  \A i, j \in DOMAIN handled :
    (i < j /\ handled[i] = handled[j]) => Cardinality({handled[k] : k \in i + 1 .. j - 1}) >= Window

\* The two halves of the bookkeeping agree: a fingerprint is in the map exactly
\* if it is in the list, once, and the list stays within its bound, so that the
\* memory of the poller is bounded (transcript_poller.go:255-264).
WindowConsistent ==
  /\ seen = Range(order)
  /\ Cardinality(seen) = Len(order)
  /\ Len(order) <= MaxSeen

\* What was in a file when it was first seen, and never written again, is not
\* handed on, as long as no file shrinks (transcript_poller.go:33,147).
WrittenSince(f) == {content[f][i][1] : i \in start[f] + 1 .. Len(content[f])}

NoHistory ==
  truncates = 0 => \A p \in Range(handled) : p[2] \in WrittenSince(p[1])

\* Nothing is handed on once Stop returned (transcript_poller.go:75).
QuietAfterStop == [][stop = "done" => UNCHANGED handled]_vars

\* Stop returns, however long the scan in progress and whatever the ticker does.
StopReturns == (stop = "waiting") ~> (stop = "done")

\* Every message whose line was appended to a file after it was first seen, from its
\* first half to its newline, is handed on, if no file shrinks (README.md:35,
\* "auto-tails transcript files").
EventuallyHandled ==
  \A f \in Files, m \in Messages :
    (/\ offsets[f] # Unknown
     /\ \E i \in start[f] + 1 .. Len(content[f]) - 1 :
          SubSeq(content[f], i, i + 1) = << <<m, "head">>, <<m, "tail">> >>)
      ~> (<<f, m>> \in Range(handled) \/ stop # "none" \/ truncates > 0)
=============================================================================
