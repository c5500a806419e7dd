------------------------------- MODULE Commands -------------------------------
(***************************************************************************)
(* The command line, cmd/oathkeeper/main.go, beside the daemon: scan reads a   *)
(* transcript that is still being written and that the daemon tails, list and  *)
(* stats read the same beads as the HTTP API, and resolve closes one. The      *)
(* beads are br's: the daemon files some, other tools file others and move     *)
(* them about. Commands that only read are operators on the state.             *)
(***************************************************************************)
EXTENDS Conversation

CONSTANTS Lines,       \* the lines a transcript may get
          WindowSize,  \* general.context_window_size
          MinConfidence, \* detector.min_confidence of the daemon
          Beads,
          SessionKeys, \* keys the daemon gets promises from
          TagOf,       \* sessionTag: the tag of each key, or NoTag
          KeyIn,       \* a session tag without its prefix: a key again
          NoTag,
          ExtraTags,   \* the values of serve's --tag, as sequences
          OtherTags,   \* the labels of beads that other tools file
          Lower,       \* every tag in lower case
          Rank,        \* the place of every tag in the alphabet
          Statuses,    \* what br says a bead's status is, in lower case
          Tokens,      \* the arguments of resolve, beads included
          ConfigIn,    \* of those of the form --config=VALUE, the value
          MaxArgs,     \* bound: how many of them
          DryConfigs,  \* the --config files with general.dry_run; "" is the default
          MaxEvents    \* bound: lines and beads

ASSUME CommandsAssumption ==
  /\ \A line \in Lines : line.texts \in Seq(ToSet(line.texts))
  /\ WindowSize \in Int /\ MaxArgs \in Nat
  /\ {"open", "closed"} \subseteq Statuses /\ {"", "all", "absent"} \cap Statuses = {}
  /\ DOMAIN ConfigIn \subseteq Tokens \ {"--config", "--dry-run"}

ASSUME TagsAssumption ==
  \* A key read back from its tag has the same tag, which is in lower case.
  /\ SessionKeys \cup {""} \subseteq DOMAIN TagOf /\ TagOf[""] = NoTag
  /\ \A k \in SessionKeys : TagOf[k] # NoTag =>
       /\ TagOf[k] \in DOMAIN KeyIn \cap DOMAIN Lower /\ Lower[TagOf[k]] = TagOf[k]
       /\ KeyIn[TagOf[k]] \in DOMAIN TagOf /\ TagOf[KeyIn[TagOf[k]]] = TagOf[k]
  /\ \A t \in DOMAIN Lower : Lower[t] \in DOMAIN Lower /\ Lower[Lower[t]] = Lower[t]
  /\ \A t \in {"oathkeeper"} \cup ToSet(Categories) :
       t \in DOMAIN Lower \ DOMAIN KeyIn /\ Lower[t] = t
  /\ \A tags \in ExtraTags \cup OtherTags : tags \in Seq(ToSet(tags)) /\ ToSet(tags) \subseteq DOMAIN Lower

VARIABLES
  transcript, \* its lines
  said,       \* what the poller handed on of them
  tracker,    \* br's beads
  extraTags,  \* the daemon's --tag
  sorts       \* whether br gives labels back in the alphabet's order

vars == <<transcript, said, tracker, extraTags, sorts>>

NoBead == [status |-> "absent"]

Exists(b) == tracker[b] # NoBead

Events == Len(transcript) + Cardinality({b \in Beads : Exists(b)})

Init ==
  /\ transcript = <<>> /\ said = <<>>
  /\ tracker = [b \in Beads |-> NoBead]
  /\ extraTags \in ExtraTags
  /\ sorts \in BOOLEAN

-----------------------------------------------------------------------------
(* Tags. A definition called Bug... is a seeded fault in the one after it.    *)

IsSessionTag(t) == t \in DOMAIN KeyIn

\* uniqueStrings
Unique(tags) == At(tags, {n \in DOMAIN tags : \A m \in 1 .. n - 1 : tags[m] # tags[n]})

CreateTags(category, key) ==
  Unique(<<"oathkeeper", category>> \o extraTags
           \o (IF TagOf[key] = NoTag THEN <<>> ELSE <<TagOf[key]>>))

\* The labels as br gives them back: in their order, or in the alphabet's.
Labels(tags) ==
  IF sorts
  THEN {l \in SetToSeqs(ToSet(tags)) : \A m, n \in DOMAIN l : m < n => Rank[l[m]] < Rank[l[n]]}
  ELSE {tags}

\* The first of some tags, as a set.
First(tags, some) == {tags[n] : n \in Earliest({n \in DOMAIN tags : tags[n] \in some})}

\* firstCategoryTag and beadCategory: the first tag that is neither ours nor a
\* session's, in lower case, as a set.
CategoryTag(tags) ==
  {Lower[t] : t \in First(tags, {t \in ToSet(tags) : Lower[t] # "oathkeeper" /\ ~IsSessionTag(t)})}

\* Taking the tag after "oathkeeper".
BugSecondTag(tags) == IF Len(tags) < 2 THEN "temporal" ELSE tags[2]

\* detectCategoryFromTags, when the daemon reads a bead back.
DetectCategory(tags) ==
  LET known == First(tags, {t \in ToSet(tags) : Lower[t] \in ToSet(Categories)})
  IN  IF known = {} THEN "temporal" ELSE Lower[CHOOSE t \in known : TRUE]

\* extractSessionFromTags: "" without a tag, as for a promise without a key.
SessionKey(tags) ==
  LET own == First(tags, DOMAIN KeyIn) IN IF own = {} THEN "" ELSE KeyIn[CHOOSE t \in own : TRUE]

-----------------------------------------------------------------------------
(* Reading commands *)

\* What br list shows for a status; none asks for every bead.
Shown(status) == {b \in Beads : Exists(b) /\ status \in {"", tracker[b].status}}

\* One date that cannot be parsed, be it of anybody's bead, fails the call.
ListFails(status) == \E b \in Shown(status) : tracker[b].created = "malformed"

Has(b, tag) == tag \in ToSet(tracker[b].tags)

\* filterBeads, with --since reaching back over the recent ones.
List(status, category, recent) ==
  {b \in Shown(status) :
     /\ Has(b, "oathkeeper")
     /\ recent => tracker[b].created = "recent"
     /\ category # "" => Has(b, category)}

\* filterByTags, which unlike --category does not care about case.
FilterByTags(beads, tags) ==
  {b \in beads : \A t \in tags : \E u \in ToSet(tracker[b].tags) : Lower[u] = Lower[t]}

CountByCategory(beads) ==
  [c \in UNION {CategoryTag(tracker[b].tags) : b \in beads} |->
     Cardinality({b \in beads : c \in CategoryTag(tracker[b].tags)})]

\* runList, the default status being "open", and handleCommitments.
CliStatus(status) == CASE status = "all" -> "" [] status = "" -> "open" [] OTHER -> status

CliList(status, category, recent, tags) ==
  FilterByTags(List(CliStatus(status), category, recent), tags)

ApiList(status, category) == List(status, category, FALSE)

WithStatus(beads, statuses) == {b \in beads : tracker[b].status \in statuses}

\* buildStatsSummary; backed, alerted and expired are counts of byStatus.
CliStats ==
  LET beads == List("", "", FALSE)
  IN  [total |-> Cardinality(beads),
       open |-> Cardinality(WithStatus(beads, {"open"})),
       resolved |-> Cardinality(WithStatus(beads, {"closed", "resolved"})),
       byStatus |-> [s \in {tracker[b].status : b \in beads} |-> Cardinality(WithStatus(beads, {s}))],
       recent |-> Cardinality({b \in beads : tracker[b].created = "recent"}),
       byCategory |-> CountByCategory(beads)]

\* Listing what is open only.
BugOpenOnly == "open"

\* beads.Filter{} asks for every bead.
StatsStatus == ""

\* handleStats
ApiStats ==
  LET beads == List(StatsStatus, "", FALSE)
  IN  [total |-> Cardinality(beads),
       open |-> Cardinality(WithStatus(beads, {"open"})),
       resolved |-> Cardinality(WithStatus(beads, {"closed"})),
       byCategory |-> CountByCategory(beads)]

-----------------------------------------------------------------------------
(* The arguments of resolve *)

\* The value of --config is given once at most, and is not blank.
SetConfig(g, value) ==
  [g EXCEPT !.wants = FALSE, !.config = value, !.bad = g.config # "" \/ value = ""]

\* Global flags are looked for before the command's own only.
BugGlobalsFirst(g, a) ==
  IF g.bad THEN g
  ELSE IF g.rest # <<>> THEN [g EXCEPT !.rest = Append(@, a)]
  ELSE IF g.wants THEN SetConfig(g, a)
  ELSE CASE a = "--config" -> [g EXCEPT !.wants = TRUE]
         [] a \in DOMAIN ConfigIn -> SetConfig(g, ConfigIn[a])
         [] a = "--dry-run" -> [g EXCEPT !.dryRun = TRUE]
         [] OTHER -> [g EXCEPT !.rest = Append(@, a)]

\* extractGlobalFlags, one argument: they may stand anywhere, and whatever
\* follows --config is its value.
GlobalFlag(g, a) ==
  IF g.bad THEN g
  ELSE IF g.wants THEN SetConfig(g, a)
  ELSE CASE a = "--config" -> [g EXCEPT !.wants = TRUE]
         [] a \in DOMAIN ConfigIn -> SetConfig(g, ConfigIn[a])
         [] a = "--dry-run" -> [g EXCEPT !.dryRun = TRUE]
         [] OTHER -> [g EXCEPT !.rest = Append(@, a)]

Globals(args) ==
  FoldLeft(GlobalFlag,
           [bad |-> FALSE, wants |-> FALSE, config |-> "", dryRun |-> FALSE, rest |-> <<>>], args)

\* Go's flag package, one argument: flags end at the first word.
ResolveFlag(f, a) ==
  IF f.words # <<>> THEN [f EXCEPT !.words = Append(@, a)]
  ELSE IF f.wants THEN [f EXCEPT !.wants = FALSE, !.reason = a]
  ELSE CASE a = "--reason" -> [f EXCEPT !.wants = TRUE]
         [] a = "--json" -> f
         [] OTHER -> [f EXCEPT !.words = Append(@, a)]

\* parseResolveArgs of what is left: a bead, and a reason given once at most.
ResolveFlags(args) == FoldLeft(ResolveFlag, [wants |-> FALSE, reason |-> "", words |-> <<>>], args)

Parse(args) ==
  LET g == Globals(args)
      f == ResolveFlags(g.rest)
  IN  [accepted |-> /\ ~g.bad /\ ~g.wants /\ ~f.wants /\ Head(Append(f.words, "")) # ""
                    /\ \/ Len(f.words) = 1
                       \/ Len(f.words) = 2 /\ f.reason = "",
       bead |-> Head(Append(f.words, "")),
       dryRun |-> g.dryRun \/ g.config \in DryConfigs]

\* All the commands that one may type and that are accepted.
ResolveCommands == {c \in {Parse(args) : args \in BoundedSeq(Tokens, MaxArgs)} : c.accepted}

\* runResolve: a dry run by the flag, or by the configuration; or br close, which
\* works or not, whether or not it is an oathkeeper bead.
CliResolve(command) ==
  /\ \/ UNCHANGED tracker
     \/ /\ ~command.dryRun
        /\ command.bead \in Beads /\ Exists(command.bead)
        /\ tracker' = [tracker EXCEPT ![command.bead].status = "closed"]
  /\ UNCHANGED <<transcript, said, extraTags, sorts>>

-----------------------------------------------------------------------------
(* What goes on meanwhile *)

\* The line is scanned with the others, and handed on text by text but for some repeats:
\* those that are still remembered, among what other sessions said.
WriteLine(line, dropped) ==
  LET messages == Messages(line, Len(transcript) + 1)
  IN  /\ Events < MaxEvents
      /\ dropped \subseteq Repeats(said, messages)
      /\ transcript' = Append(transcript, line)
      /\ said' = said \o At(messages, DOMAIN messages \ dropped)
      /\ UNCHANGED <<tracker, extraTags, sorts>>

\* The daemon detects a promise and, nothing backing it, files a bead.
FileBead(b, i, key) ==
  /\ Events < MaxEvents
  /\ ~Exists(b)
  /\ \E d \in DetectCommitment(said[i].text.features, MinConfidence) :
       \E labels \in Labels(CreateTags(d.category, key)) :
         tracker' = [tracker EXCEPT ![b] =
           [status |-> "open", created |-> "recent", category |-> d.category, key |-> key,
            tags |-> labels]]
  /\ UNCHANGED <<transcript, said, extraTags, sorts>>

\* Another tool, or a user, files one, with labels and a date as it pleases.
FileOtherBead(b, tags, created) ==
  /\ Events < MaxEvents
  /\ ~Exists(b)
  /\ \E labels \in Labels(tags) :
       tracker' = [tracker EXCEPT ![b] =
         [status |-> "open", created |-> created, category |-> "", key |-> "", tags |-> labels]]
  /\ UNCHANGED <<transcript, said, extraTags, sorts>>

\* To any status, or back.
Move(b, status) ==
  /\ Exists(b)
  /\ tracker' = [tracker EXCEPT ![b].status = status]
  /\ UNCHANGED <<transcript, said, extraTags, sorts>>

GrowOld(b) ==
  /\ Exists(b)
  /\ tracker[b].created = "recent"
  /\ tracker' = [tracker EXCEPT ![b].created = "old"]
  /\ UNCHANGED <<transcript, said, extraTags, sorts>>

Next ==
  \/ \E line \in Lines : \E dropped \in SUBSET DOMAIN line.texts : WriteLine(line, dropped)
  \/ \E b \in Beads :
       \/ \E i \in DOMAIN said, key \in SessionKeys : FileBead(b, i, key)
       \/ \E tags \in OtherTags, created \in {"recent", "unset", "malformed"} :
            FileOtherBead(b, tags, created)
       \/ \E status \in Statuses : Move(b, status)
       \/ GrowOld(b)
  \/ \E command \in ResolveCommands : CliResolve(command)

Spec == Init /\ [][Next]_vars

-----------------------------------------------------------------------------
\* The threshold only filters: whatever it is, a scan reports what it reports with
\* none, in the same order and under the same categories, less what is not
\* confident enough (detector.go:184-203, scanner.go:126-138).
ScanFilters ==
  LET all == Scan(transcript, 0)
      Confident(min) ==
        {n \in DOMAIN all : \E d \in DetectCommitment(all[n].text.features, 0) : d.confidence >= min}
  IN  \A min \in ToSet(Confidences) \cup {100} : Scan(transcript, min) = At(all, Confident(min))

\* Scan and daemon, reading the same transcript, agree but for what scan does not read: a
\* commitment that scan reports was handed to the analysis, for that line or for an
\* earlier one with the same id; and a commitment that was handed on is reported at
\* its line, unless the role is not "assistant" to the letter, or some line is too long
\* (scanner.go:111-138, transcript_poller.go:189-246).
HeardAlike ==
  LET reported == ToSet(Scan(transcript, MinConfidence))
      heard    == ToSet(said)
  IN  ~ScanFails(transcript) =>
        /\ \A r \in reported : \E m \in heard :
             m.line <= r.line /\ m.id = transcript[r.line].id /\ m.text = r.text
        /\ \A m \in heard :
             transcript[m.line].role = "assistant" /\ IsCommitment(m.text.features, MinConfidence) =>
               \E r \in reported : r.line = m.line /\ r.text = m.text

\* A promise that was reported as fulfilled stays fulfilled, and by the same
\* message, as long as it is in the window; so only a new promise of a category
\* makes it escalate, and no message that fulfils or says nothing
\* (context.go:80-117).
Window(texts) == WindowStart(texts, WindowSize) .. Len(texts)

OnlyNewPromisesEscalate(before, after) ==
  \A c \in Escalated(after, WindowSize, MinConfidence) \ Escalated(before, WindowSize, MinConfidence) :
    \E i \in Len(before) + 1 .. Len(after) :
      \E d \in DetectCommitment(after[i].features, MinConfidence) : d.category = c

TextsSaid == [n \in DOMAIN said |-> said[n].text]

StaysFulfilled ==
  [][said' # said =>
       LET before == TextsSaid
           after  == TextsSaid'
       IN  /\ \A p \in Fulfilled(before, WindowSize, MinConfidence) :
                p[1] \in Window(after) => p \in Fulfilled(after, WindowSize, MinConfidence)
           /\ OnlyNewPromisesEscalate(before, after)]_vars

\* The reports agree with each other, whenever br's list can be read: the command
\* line and the API count alike, but that what is "resolved" is so for the command line
\* only; each count is the length of the list it summarises, which can be read as well.
\* And a bead the daemon filed is found under its session and its category; it is read
\* back with a key of that session, if no --tag looks like a session's, with its
\* category, if no --tag is one that br may sort before it, and counted under it
\* unless br sorts other labels before it
\* (main.go:240-268, 362-421, v2.go:364-393, 478-525, beads.go:214-256,
\* serve.go:446-474).
Filed(b) == Exists(b) /\ tracker[b].category # ""

NoSessionTags == \A t \in ToSet(extraTags) : ~IsSessionTag(t)

NoCategoryTags == \A t \in ToSet(extraTags) : Lower[t] \notin ToSet(Categories)

ReportsAgree ==
  ~ListFails("") =>
    /\ \A field \in {"total", "open", "byCategory"} : CliStats[field] = ApiStats[field]
    /\ ApiStats.resolved = Cardinality(ApiList("closed", ""))
    /\ CliStats.resolved = Cardinality(ApiList("closed", "")) + Cardinality(ApiList("resolved", ""))
    /\ \A status \in Statuses : ~ListFails(status)
    /\ \A status \in DOMAIN CliStats.byStatus :
         CliStats.byStatus[status] = Cardinality(ApiList(status, ""))
    /\ \A status \in {"open", "closed"} : CliList(status, "", FALSE, {}) = ApiList(status, "")
    /\ CliStats.open = Cardinality(CliList("", "", FALSE, {}))
    /\ CliStats.recent = Cardinality(CliList("all", "", TRUE, {}))
    /\ \A c \in DOMAIN CliStats.byCategory :
         CliStats.byCategory[c] <= Cardinality(CliList("all", "", FALSE, {c}))
    /\ \A b \in Beads : Filed(b) =>
         LET bead == tracker[b]
         IN  /\ b \in CliList("all", bead.category, FALSE, {TagOf[bead.key]} \ {NoTag})
             /\ NoSessionTags => TagOf[SessionKey(bead.tags)] = TagOf[bead.key]
             /\ NoCategoryTags \/ ~sorts => DetectCategory(bead.tags) = bead.category
             /\ extraTags = <<>> \/ ~sorts => CategoryTag(bead.tags) = {bead.category}

\* A resolve that says --dry-run changes nothing, wherever among its arguments
\* that stands, unless it is the value of --config (main.go:161-190, 562-566).
SaysDryRun(args) ==
  \E n \in DOMAIN args : args[n] = "--dry-run" /\ (n = 1 \/ args[n - 1] # "--config")

DryCommands ==
  {c \in {Parse(args) : args \in {a \in BoundedSeq(Tokens, MaxArgs) : SaysDryRun(a)}} : c.accepted}

DryRunWins == [][\A c \in DryCommands : CliResolve(c) => UNCHANGED tracker]_vars
=============================================================================
