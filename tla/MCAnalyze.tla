------------------------------ MODULE MCAnalyze ------------------------------
(* Small instances of the message analysis. *)
EXTENDS Analyze, TLC

CONSTANTS main, other, tgMain, tgOther, promise, done, finished, o1

\* Sessions whose keys need no rewriting: both functions make the same tag.
PlainTag == main :> tgMain @@ other :> tgOther

\* The other session's key is empty: sessionTag has no tag for it.
EmptyTag == main :> tgMain @@ other :> NoTag

\* A bead that an earlier process left open, without and with a session tag.
Untagged == o1 :> NoTag
TaggedOther == o1 :> tgOther

\* "done" and "finished" fulfil every promise before them; AutoResolve knows
\* "done" only.
DoneFulfils == promise :> {} @@ done :> {promise} @@ finished :> {promise}
OnlyDone == promise :> {} @@ done :> {promise}

RequestSymmetry == Permutations(Requests)

\* With PlainTag and untagged beads the two sessions are interchangeable, too.
Swap == main :> other @@ other :> main @@ tgMain :> tgOther @@ tgOther :> tgMain

SessionSymmetry == RequestSymmetry \cup {p @@ Swap : p \in RequestSymmetry}
=============================================================================
