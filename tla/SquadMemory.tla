----------------------------- MODULE SquadMemory -----------------------------
(***************************************************************************)
(* The squad memory of one project: the overflow store that keeps a large  *)
(* entry as a blob and a pointer, the runs whose continuity auto-memory    *)
(* keeps, and the callers of the memory tools.                             *)
(*                                                                         *)
(* An entry is the sequence of its lines, its ETag counts its writes, 0    *)
(* for an absent one.  A pointer carries the digest of its payload, so it  *)
(* determines the content; whether the blob is there is another matter.    *)
(* What is read carries the ETag a write is compared with, as it does in   *)
(* the directory and the drive; MemoryBackends has the table, where the    *)
(* reads give none.                                                        *)
(***************************************************************************)
EXTENDS Integers, SequencesExt

CONSTANTS
    Runs,           \* the runs of the project
    Callers,        \* the callers of squad_memory_write and squad_memory_sync
    Items,          \* [Callers -> Seq({"state", "decisions"})]: a caller's batch
    StateAtStart,   \* what the state entry may hold at first; <<>> for no entry
    LargeArtifacts, \* the runs whose artifact is over the threshold
    DigestLines,    \* STATE_DIGEST_LINES
    Attempts,       \* STATE_CAS_ATTEMPTS
    ContextLines,   \* MEMORY_CONTEXT_MAX_CHARS, in lines
    Threshold,      \* thresholdBytes, in lines
    MaxFaults       \* bound on failed store calls

ASSUME BoundsAssumption ==
    {DigestLines, Attempts, ContextLines} \subseteq Nat \ {0} /\ {Threshold, MaxFaults} \subseteq Nat
\* An entry may be in a batch twice; an empty batch writes nothing.
ASSUME ItemsAssumption == /\ Items \in [Callers -> Seq({"state", "decisions"})]
                          /\ \A c \in Callers : Items[c] # <<>>

Paths == {"state", "decisions"} \cup Runs     \* a run's name stands for its history path
Header == <<"# Squad state", "", "## Run log">>
Trimmed == "- older entries trimmed"
ASSUME NamesAssumption ==
    /\ Runs \cap Callers = {}
    /\ (Runs \cup Callers) \cap ({"state", "decisions", Trimmed, "artifact"} \cup ToSet(Header)) = {}

Lines == ToSet(Header) \cup {Trimmed, "artifact"} \cup Runs \cup Callers
            \cup UNION {ToSet(s) : s \in StateAtStart}

\* The runs and callers are new: no line of theirs is there yet.
ASSUME StartAssumption == \A s \in StateAtStart :
    s \in Seq(STRING) /\ ToSet(s) \cap (Runs \cup Callers) = {}

VARIABLES
    primary,    \* [Paths -> [etag, spilled, content]]: the wrapped store
    blobs,      \* <<path, content>>: the payloads stored
    pc,         \* [Runs \cup Callers -> where it is]
    seen,       \* [Runs -> the state entry its append has read]
    tries,      \* [Runs -> lost compares of its append]
    context,    \* [Runs -> the entries loaded for its context]
    read,       \* [Callers -> Seq of the entries read for its items]
    results,    \* [Callers -> Seq of the results of its items]
    faults,     \* failed calls so far
    landed,     \* [Paths -> the lines written, in the order they were accepted]
    blind       \* paths a write without an ETag has replaced

client == <<seen, tries, context, read, results>>
vars == <<primary, blobs, pc, client, faults, landed, blind>>

NoEntry == [etag |-> 0, content |-> <<>>]
View(p) == [etag |-> primary[p].etag, content |-> primary[p].content]
PC == {"load", "record", "history", "digest", "trim", "append", "done",
       "read", "item", "write"}

\* The decision is on the size of what would be stored.
Spills(content) == Len(content) > Threshold
Stored(content, etag) == [etag |-> etag, spilled |-> Spills(content), content |-> content]

Init ==
    /\ \E s \in StateAtStart :
          /\ primary = [p \in Paths |-> IF p = "state" /\ s # <<>> THEN Stored(s, 1)
                                        ELSE Stored(<<>>, 0)]
          /\ blobs = IF Spills(s) THEN {<<"state", s>>} ELSE {}
          /\ landed = [p \in Paths |-> IF p = "state" THEN s ELSE <<>>]
    /\ pc = [c \in Runs \cup Callers |-> IF c \in Runs THEN "load" ELSE "read"]
    /\ seen = [r \in Runs |-> NoEntry] /\ tries = [r \in Runs |-> 0]
    /\ context = [r \in Runs |-> <<>>]
    /\ read = [c \in Callers |-> <<>>] /\ results = [c \in Callers |-> <<>>]
    /\ faults = 0 /\ blind = {}

Goto(c, where) == pc' = [pc EXCEPT ![c] = where]
-----------------------------------------------------------------------------
(* The overflow store. *)

\* An entry is readable when it is ordinary content or its payload is there.
\* A payload is never replaced by another one under the same name, so that
\* fetching it a moment after the pointer is the same as fetching it with it.
Readable(p) == primary[p].spilled => <<p, primary[p].content>> \in blobs

\* The digest of the payload is part of its name.
PutBlob(p, content) == blobs \cup {<<p, content>>}

\* Mutant: the pointer is written before the payload.
PointerFirst(p, content) == blobs
\* A large payload is stored before the pointer to it is compared and written.
Spill(p, content) == IF Spills(content) THEN PutBlob(p, content) ELSE blobs

\* No expected ETag, here 0, is an unconditional write.
Accepts(p, expected) == expected \in {0, primary[p].etag}

\* A write the primary accepts; `line` is what it adds.
Put(p, content, expected, line) ==
    /\ primary' = [primary EXCEPT ![p] = Stored(content, @.etag + 1)]
    /\ landed' = [landed EXCEPT ![p] = Append(@, line)]
    /\ blind' = IF expected = 0 /\ primary[p].etag # 0 THEN blind \cup {p} ELSE blind
-----------------------------------------------------------------------------
(* Auto-memory. *)

\* The most recent lines are kept.
KeepNewest(text) ==
    IF Len(text) <= ContextLines THEN text
    ELSE SubSeq(text, Len(text) - ContextLines + 1, Len(text))

Section(title, content) == IF content = <<>> THEN <<>> ELSE <<title>> \o content
ContextOf(state, decisions) ==
    KeepNewest(Section("# state", state) \o Section("# decisions", decisions))

\* loadContext: both entries are read, and a failing read leaves no context.
LoadContext(r) ==
    /\ pc[r] = "load"
    /\ context' = [context EXCEPT ![r] =
           IF Readable("state") /\ Readable("decisions")
           THEN ContextOf(primary["state"].content, primary["decisions"].content) ELSE <<>>]
    /\ Goto(r, "record")
    /\ UNCHANGED <<primary, blobs, seen, tries, read, results, faults, landed, blind>>

Artifact(r) == IF r \in LargeArtifacts THEN [i \in 1..(Threshold + 1) |-> "artifact"]
               ELSE <<"artifact">>

\* record: the artifact goes to a path of its own, without an ETag.
SpillHistory(r) ==
    /\ pc[r] = "record"
    /\ blobs' = Spill(r, Artifact(r))
    /\ Goto(r, "history")
    /\ UNCHANGED <<primary, client, faults, landed, blind>>

WriteHistory(r) ==
    /\ pc[r] = "history"
    /\ Put(r, Artifact(r), 0, "artifact")
    /\ Goto(r, "digest")
    /\ UNCHANGED <<blobs, client, faults>>

ReadState(r) ==
    /\ pc[r] = "digest"
    /\ IF Readable("state") THEN Goto(r, "trim") ELSE Goto(r, "done")
    /\ seen' = [seen EXCEPT ![r] = View("state")]
    /\ UNCHANGED <<primary, blobs, tries, context, read, results, faults, landed, blind>>

\* Mutant: the newest line is cut off with the final line break.
TrimmedShort(lines) ==
    SubSeq(lines, 1, 3) \o <<Trimmed>> \o SubSeq(lines, Len(lines) - DigestLines + 1, Len(lines) - 1)
\* The header, a mark, and the last lines of a list that ends in an empty one.
TrimmedLines(lines) ==
    SubSeq(lines, 1, 3) \o <<Trimmed>> \o SubSeq(lines, Len(lines) - DigestLines + 2, Len(lines))

Digest(r) ==
    LET body  == IF seen[r].etag = 0 THEN Header ELSE seen[r].content
        lines == Append(body, r)
    IN  IF Len(lines) + 1 > DigestLines + 4 THEN TrimmedLines(lines) ELSE lines

SpillState(r) ==
    /\ pc[r] = "trim"
    /\ blobs' = Spill("state", Digest(r))
    /\ Goto(r, "append")
    /\ UNCHANGED <<primary, client, faults, landed, blind>>

AppendDigest(r) ==
    /\ pc[r] = "append" /\ Accepts("state", seen[r].etag)
    /\ Put("state", Digest(r), seen[r].etag, r)
    /\ Goto(r, "done")
    /\ UNCHANGED <<blobs, client, faults>>

\* A lost compare is read again; the last one is logged and forgotten.
LoseAppend(r) ==
    /\ pc[r] = "append" /\ ~Accepts("state", seen[r].etag)
    /\ tries' = [tries EXCEPT ![r] = @ + 1]
    /\ Goto(r, IF tries[r] + 1 < Attempts THEN "digest" ELSE "done")
    /\ UNCHANGED <<primary, blobs, seen, context, read, results, faults, landed, blind>>
-----------------------------------------------------------------------------
(* The memory tools. *)

At(c) == Len(results[c]) + 1
Item(c) == Items[c][At(c)]

\* expectedEtag is optional: a caller may leave out the ETag it was given.
Taken(p) == {View(p), [View(p) EXCEPT !.etag = 0]}
\* An entry that exists has a line.
Omitted(c, i) == read[c][i].etag = 0 /\ read[c][i].content # <<>>

\* The caller reads the entries of its batch, one by one.
ReadItem(c) ==
    /\ pc[c] = "read"
    /\ LET p == Items[c][Len(read[c]) + 1]
       IN  /\ Readable(p)
           /\ \E v \in Taken(p) : read' = [read EXCEPT ![c] = Append(@, v)]
    /\ Goto(c, IF Len(read'[c]) = Len(Items[c]) THEN "item" ELSE "read")
    /\ UNCHANGED <<primary, blobs, seen, tries, context, results, faults, landed, blind>>

\* It adds a line of its own, under the ETag it was given, if it passes that on.
NewContent(c) == Append(read[c][At(c)].content, c)
Expected(c) == read[c][At(c)].etag

SpillItem(c) ==
    /\ pc[c] = "item"
    /\ blobs' = Spill(Item(c), NewContent(c))
    /\ Goto(c, "write")
    /\ UNCHANGED <<primary, client, faults, landed, blind>>

\* Mutant: a conflict ends the batch.
StopAtConflict(c, result) == result # "ok" \/ At(c) = Len(Items[c])
Finished(c, result) == At(c) = Len(Items[c])

Answer(c, result) ==
    /\ results' = [results EXCEPT ![c] = Append(@, result)]
    /\ Goto(c, IF Finished(c, result) THEN "done" ELSE "item")

\* Each item is written under its own compare, and reported by itself.
WriteItem(c) ==
    /\ pc[c] = "write"
    /\ IF Accepts(Item(c), Expected(c))
       THEN Put(Item(c), NewContent(c), Expected(c), c) /\ Answer(c, "ok")
       ELSE Answer(c, "conflict") /\ UNCHANGED <<primary, landed, blind>>
    /\ UNCHANGED <<blobs, seen, tries, context, read, faults>>
-----------------------------------------------------------------------------
\* Mutant: a run whose history was not written still leaves its digest.
DigestAnyway(r) == IF pc[r] = "load" THEN "record"
                   ELSE IF pc[r] \in {"record", "history"} THEN "digest" ELSE "done"
\* A failing call ends what it was part of: no context, or no more of record.
AfterFault(r) == IF pc[r] = "load" THEN "record" ELSE "done"

StoreFails(c) ==
    /\ pc[c] # "done" /\ faults < MaxFaults /\ faults' = faults + 1
    /\ \/ c \in Runs /\ Goto(c, AfterFault(c)) /\ UNCHANGED results
       \/ c \in Callers /\ pc[c] \in {"item", "write"} /\ Answer(c, "failed")
    /\ UNCHANGED <<primary, blobs, seen, tries, context, read, landed, blind>>

\* A write takes effect and its answer is lost.  What a run makes of it is what
\* it makes of the next call failing: it leaves no digest, or is done.
LoseAnswer(c) ==
    /\ pc[c] = "write" /\ Accepts(Item(c), Expected(c))
    /\ faults < MaxFaults /\ faults' = faults + 1
    /\ Put(Item(c), NewContent(c), Expected(c), c) /\ Answer(c, "failed")
    /\ UNCHANGED <<blobs, seen, tries, context, read>>

Run(r) == \/ LoadContext(r) \/ SpillHistory(r) \/ WriteHistory(r) \/ ReadState(r)
          \/ SpillState(r) \/ AppendDigest(r) \/ LoseAppend(r)
Call(c) == ReadItem(c) \/ SpillItem(c) \/ WriteItem(c)

Next == \/ \E r \in Runs : Run(r) \/ StoreFails(r)
        \/ \E c \in Callers : Call(c) \/ StoreFails(c) \/ LoseAnswer(c)

Spec == Init /\ [][Next]_vars
-----------------------------------------------------------------------------
\* The overflow store is a squad-memory store: an entry that exists can be
\* read, whoever lost or has not finished a write of it, and changes as a whole.
AsRead == [p \in Paths |-> [etag |-> primary[p].etag,
                            content |-> IF Readable(p) THEN primary[p].content
                                        ELSE <<"unreadable">>]]
Contract == INSTANCE SquadMemoryContract WITH entry <- AsRead
ImplementsContract == Contract!Spec

LinesIn(p) == ToSet(primary[p].content)
Min2(a, b) == IF a < b THEN a ELSE b
\* The last n of the lines written are the last n lines of the entry.
Keeps(p, n) == /\ n <= Len(primary[p].content)
               /\ \A i \in 0..(n - 1) : primary[p].content[Len(primary[p].content) - i]
                                            = landed[p][Len(landed[p]) - i]

\* The newest lines of an entry are the writes that were accepted last, in
\* that order: no accepted write is lost to a writer that read before it, and
\* trimming takes the oldest digests.  The exception is an entry that was
\* replaced blindly: by a caller that read it and left its ETag out, or, where
\* every ETag is passed on, by a writer that read it as absent, which takes two
\* writers or a batch that names the entry twice.
NewestWritesKept ==
    /\ \A p \in {"state", "decisions"} \ blind : Keeps(p, Min2(Len(landed[p]), DigestLines - 1))
    /\ \A p \in blind :
          /\ p \notin Runs
          /\ \/ \E c \in Callers \cap ToSet(landed[p]) : \E i \in DOMAIN read[c] :
                   Items[c][i] = p /\ Omitted(c, i)
             \/ /\ landed[p][1] \in Runs \cup Callers
                /\ \/ \E c, d \in ToSet(landed[p]) : c # d /\ {c, d} \subseteq Runs \cup Callers
                   \/ \E c \in Callers : \E i, j \in DOMAIN Items[c] :
                         i # j /\ Items[c][i] = p /\ Items[c][j] = p

\* A digest in the state entry has the history it refers to.
DigestHasHistory ==
    \A r \in Runs : r \in LinesIn("state") => primary[r].etag # 0 /\ Readable(r)

\* Every item of a batch gets its own answer, the ones after a conflict too;
\* an item that was answered ok was accepted, and one that was accepted was
\* answered ok or, if the store's answer was lost, failed: never a conflict.
BatchAnswered ==
    \A c \in Callers :
        /\ pc[c] = "done" => Len(results[c]) = Len(Items[c])
        /\ \A i \in DOMAIN results[c] : results[c][i] = "ok" => c \in ToSet(landed[Items[c][i]])
        /\ \A p \in Paths : c \in ToSet(landed[p]) =>
              \E i \in DOMAIN results[c] : Items[c][i] = p /\ results[c][i] \in {"ok", "failed"}
=============================================================================
