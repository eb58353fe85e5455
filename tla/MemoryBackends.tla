--------------------------- MODULE MemoryBackends ---------------------------
(***************************************************************************)
(* The stores squad memory may be kept in: a directory, an Azure table, a  *)
(* Graph drive, behind the destinations an operator declared.  One process *)
(* serves the callers, who read an entry and write it back with a line of  *)
(* their own, and the readers of resources/list.  The services are modelled *)
(* from how the stores use them.                                           *)
(*                                                                         *)
(* An ETag is <<n, content>>: a version and the content it was computed    *)
(* from in the directory, a number the service never repeats elsewhere.    *)
(* The table store asks for entities without metadata, and so reads none:  *)
(* what it makes of that is the empty string, here EmptyEtag.              *)
(***************************************************************************)
EXTENDS Naturals, SequencesExt, FiniteSets

CONSTANTS
    Targets,       \* the declared destinations
    DefaultTarget, \* the one a call selects by naming none
    KindsOf,       \* [Targets -> SUBSET {"file", "table", "graph"}]
    Named,         \* the names callers give, "" for none
    Callers,       \* calls of the memory tools in progress
    Listers,       \* calls of resources/list in progress
    Names,         \* the paths of the project, in the order of the services
    FolderOf,      \* [the paths -> folder]: "" is the project's own
    PageSize,      \* entries in one answer of a service
    MaxCalls,      \* bound on calls begun
    MaxTroubles    \* bound on failed requests, crashes and changes by hand

ASSUME TargetsAssumption == /\ DefaultTarget \in Targets
                            /\ KindsOf \in [Targets -> SUBSET {"file", "table", "graph"}]
                            /\ "" \notin Targets
ASSUME PagesAssumption == /\ PageSize \in Nat \ {0}
                          /\ Names \in Seq(DOMAIN FolderOf) /\ Names # <<>>
ASSUME BoundsAssumption == {MaxCalls, MaxTroubles} \subseteq Nat

VARIABLES
    kind,       \* [Targets -> what holds it]
    doc,        \* [Targets -> [Paths -> Entry]]
    issued,     \* [Targets -> ETags the service has given out]
    tableThere, \* [Targets -> the table was created]
    ensured,    \* [Targets -> tableEnsured]
    call,       \* [Callers -> Call]
    listing,    \* [Listers -> Listing]
    calls, troubles

service == <<doc, issued, tableThere, ensured>>
vars == <<kind, service, call, listing, calls, troubles>>

Paths == ToSet(Names)
Folders == {FolderOf[p] : p \in Paths} \cup {""}
NoEtag == <<0, <<>>>>
EmptyEtag == <<0, <<"">>>>
NoEntry == [etag |-> NoEtag, content |-> <<>>]
There(e) == e.etag # NoEtag

\* What was left by an earlier process.
Old(k) == [etag |-> <<1, IF k = "file" THEN <<"hand">> ELSE <<>>>>, content |-> <<"hand">>]

\* `since` counts the troubles there were when the caller began.
Idle == [pc |-> "idle", name |-> "", target |-> DefaultTarget, path |-> Names[1],
         seen |-> NoEntry, conditional |-> FALSE, current |-> NoEntry, since |-> 0,
         answer |-> "none"]
AtRest == [pc |-> "idle", found |-> {}, todo |-> {}, folder |-> "", after |-> 0,
           stable |-> {}, cut |-> FALSE]

Init ==
    /\ kind \in {k \in [Targets -> {"file", "table", "graph"}] :
                    \A t \in Targets : k[t] \in KindsOf[t]}
    /\ \E used \in BOOLEAN :
          LET old(t) == used /\ t = DefaultTarget IN
          /\ doc = [t \in Targets |-> [p \in Paths |-> IF old(t) THEN Old(kind[t]) ELSE NoEntry]]
          /\ issued = [t \in Targets |-> IF old(t) THEN 1 ELSE 0]
          /\ tableThere = [t \in Targets |-> old(t)]
    /\ ensured = [t \in Targets |-> "unset"]
    /\ call = [c \in Callers |-> Idle] /\ listing = [l \in Listers |-> AtRest]
    /\ calls = 0 /\ troubles = 0

At(c, pc, kinds) == call[c].pc = pc /\ kind[call[c].target] \in kinds
Doc(c) == doc[call[c].target][call[c].path]
Goto(c, pc) == call' = [call EXCEPT ![c].pc = pc]
Answer(c, a) == call' = [call EXCEPT ![c].pc = "idle", ![c].answer = a]
Trouble == troubles < MaxTroubles /\ troubles' = troubles + 1
-----------------------------------------------------------------------------
\* resolve: no name selects the default, an unknown one nothing.
Resolve(name) == IF name = "" THEN {DefaultTarget} ELSE {name} \cap Targets

\* A call reads first, or writes without an ETag.
Begin(c) ==
    /\ call[c].pc = "idle" /\ calls < MaxCalls
    /\ calls' = calls + 1
    /\ \E name \in Named, p \in Paths, first \in {"read", "write"} :
          IF Resolve(name) = {}
          THEN call' = [call EXCEPT ![c] = [Idle EXCEPT !.answer = "unknown target"]]
          ELSE \E t \in Resolve(name) :
                  call' = [call EXCEPT ![c] =
                      [Idle EXCEPT !.pc = first, !.name = name, !.target = t, !.path = p,
                                   !.since = troubles, !.answer = "pending"]]
    /\ UNCHANGED <<kind, service, listing, troubles>>

\* A caller whose write was accepted writes again, under the ETag it was answered.
Again(c) ==
    /\ call[c].pc = "idle" /\ call[c].answer = "ok" /\ calls < MaxCalls
    /\ calls' = calls + 1
    /\ call' = [call EXCEPT ![c].pc = "write", ![c].conditional = TRUE, ![c].answer = "pending"]
    /\ UNCHANGED <<kind, service, listing, troubles>>

\* fromEntity: the entity of the table has no odata.etag.
AsRead(t, e) == IF kind[t] = "table" /\ There(e) THEN [e EXCEPT !.etag = EmptyEtag] ELSE e

\* What was read is to be written back, if it was there under its ETag.
WriteBack(c, e) ==
    call' = [call EXCEPT ![c].pc = "write", ![c].seen = e, ![c].conditional = There(e)]

\* The directory and the table answer a read in one step.
ReadEntry(c) ==
    /\ At(c, "read", {"file", "table"})
    /\ WriteBack(c, AsRead(call[c].target, Doc(c)))
    /\ UNCHANGED <<kind, service, listing, calls, troubles>>

\* Mutant: the content is fetched before the ETag.
ContentFirst(e, first) == [etag |-> e.etag, content |-> first.content]
\* A read of the drive asks for the item and its ETag, then for the content.
ItemThenContent(e, first) == [etag |-> first.etag, content |-> e.content]

ReadItem(c) ==
    /\ At(c, "read", {"graph"})
    /\ IF There(Doc(c)) THEN call' = [call EXCEPT ![c].pc = "content", ![c].seen = Doc(c)]
                        ELSE WriteBack(c, NoEntry)
    /\ UNCHANGED <<kind, service, listing, calls, troubles>>

ReadContent(c) ==
    /\ At(c, "content", {"graph"})
    /\ WriteBack(c, IF There(Doc(c)) THEN ItemThenContent(Doc(c), call[c].seen) ELSE NoEntry)
    /\ UNCHANGED <<kind, service, listing, calls, troubles>>
-----------------------------------------------------------------------------
(* Writes. *)

NewContent(c) == Append(call[c].seen.content, c)

\* The directory numbers the versions of an entry, the services all they store.
NextEtag(t, p, content) ==
    IF kind[t] = "file" THEN <<doc[t][p].etag[1] + 1, content>> ELSE <<issued[t] + 1, <<>>>>

NextEntry(t, p, content) == [etag |-> NextEtag(t, p, content), content |-> content]

Store(t, p, content) ==
    /\ doc' = [doc EXCEPT ![t][p] = NextEntry(t, p, content)]
    /\ issued' = [issued EXCEPT ![t] = @ + 1]

\* The answer of an accepted write has the new ETag, the table's too.
Accept(c) ==
    call' = [call EXCEPT ![c].pc = "idle", ![c].answer = "ok",
                ![c].seen = NextEntry(call[c].target, call[c].path, NewContent(c))]

Matches(c) == call[c].conditional => Doc(c).etag = call[c].seen.etag

\* Mutant: a lost compare answers with what the caller had read.
CurrentAsRead(c) == call[c].seen
Current(c) == Doc(c)

Conflict(c) == call' = [call EXCEPT ![c].pc = "idle", ![c].answer = "conflict",
                                    ![c].current = AsRead(call[c].target, Current(c))]

\* FileSquadMemoryStore.write: compared and written in one go.
WriteFile(c) ==
    /\ At(c, "write", {"file"})
    /\ IF Matches(c)
       THEN Store(call[c].target, call[c].path, NewContent(c)) /\ Accept(c)
       ELSE Conflict(c) /\ UNCHANGED <<doc, issued>>
    /\ UNCHANGED <<kind, tableThere, ensured, listing, calls, troubles>>

\* ensureTable: the first write asks for the table, the others wait with it.
EnsureTable(c) ==
    LET t == call[c].target IN
    /\ At(c, "write", {"table"})
    /\ IF ensured[t] = "ready" THEN Goto(c, "put") /\ UNCHANGED ensured
       ELSE Goto(c, "ensure") /\ ensured' = [ensured EXCEPT ![t] = IF @ = "unset" THEN "asked" ELSE @]
    /\ UNCHANGED <<kind, doc, issued, tableThere, listing, calls, troubles>>

Waiting(t) == {c \in Callers : call[c].pc = "ensure" /\ call[c].target = t}

TableIsThere(t) ==
    /\ ensured[t] = "asked"
    /\ tableThere' = [tableThere EXCEPT ![t] = TRUE]
    /\ ensured' = [ensured EXCEPT ![t] = "ready"]
    /\ call' = [c \in Callers |-> IF c \in Waiting(t) THEN [call[c] EXCEPT !.pc = "put"]
                                  ELSE call[c]]
    /\ UNCHANGED <<kind, doc, issued, listing, calls, troubles>>

\* Mutants: the rejected promise stays; a settled one is taken for a table.
MemoKept == "rejected"
MemoSettled == "ready"
AfterRefusal == "unset"

TableRefused(t) ==
    /\ ensured[t] = "asked" /\ Trouble
    /\ ensured' = [ensured EXCEPT ![t] = AfterRefusal]
    /\ call' = [c \in Callers |-> IF c \in Waiting(t)
                                  THEN [call[c] EXCEPT !.pc = "idle", !.answer = "error"]
                                  ELSE call[c]]
    /\ UNCHANGED <<kind, doc, issued, tableThere, listing, calls>>

\* An If-Match without a value: whether the service takes it for no condition,
\* for one that fails or for a bad request is its own affair.
EmptyIfMatch(c) == call[c].conditional /\ call[c].seen.etag = EmptyEtag

\* Insert-or-replace, or an update under If-Match.  404 is the answer of a
\* missing table too.
PutEntity(c) ==
    /\ At(c, "put", {"table"})
    /\ \/ /\ tableThere[call[c].target] /\ (Matches(c) \/ EmptyIfMatch(c))
          /\ Store(call[c].target, call[c].path, NewContent(c))
          /\ \/ Accept(c) /\ UNCHANGED troubles
             \/ Answer(c, "error") /\ Trouble
       \/ /\ ~(tableThere[call[c].target] /\ Matches(c))
          /\ \/ call[c].conditional /\ Goto(c, "current")
             \/ (EmptyIfMatch(c) \/ ~call[c].conditional) /\ Answer(c, "error")
          /\ UNCHANGED <<doc, issued, troubles>>
    /\ UNCHANGED <<kind, tableThere, ensured, listing, calls>>

FetchCurrent(c) ==
    /\ At(c, "current", {"table"})
    /\ Conflict(c)
    /\ UNCHANGED <<kind, service, listing, calls, troubles>>

\* An upload; what the service answers for an item that is gone, 412 or
\* another status, is its own affair.
PutContent(c) ==
    /\ At(c, "write", {"graph"})
    /\ \/ /\ Matches(c)
          /\ Store(call[c].target, call[c].path, NewContent(c))
          /\ \/ Accept(c) /\ UNCHANGED troubles
             \/ Answer(c, "error") /\ Trouble
       \/ /\ ~Matches(c)
          /\ \/ Goto(c, "current")
             \/ ~There(Doc(c)) /\ Answer(c, "error")
          /\ UNCHANGED <<doc, issued, troubles>>
    /\ UNCHANGED <<kind, tableThere, ensured, listing, calls>>

\* The item is read back as read does; that it cannot be is no error.
ReadBack(c) ==
    /\ At(c, "current", {"graph"})
    /\ \/ Conflict(c) /\ UNCHANGED troubles
       \/ Trouble /\ call' = [call EXCEPT ![c].pc = "idle", ![c].answer = "conflict"]
    /\ UNCHANGED <<kind, service, listing, calls>>
-----------------------------------------------------------------------------
(* resources/list, of the default destination. *)

Present(folder, after) ==
    {i \in DOMAIN Names : /\ i > after /\ FolderOf[Names[i]] = folder
                          /\ There(doc[DefaultTarget][Names[i]])}
\* The next entries the service returns, in its order.
Page(all) == {i \in all : Cardinality({j \in all : j < i}) < PageSize}
AsPaths(indices) == {Names[i] : i \in indices}
Stored(t) == {p \in Paths : There(doc[t][p])}

BeginList(l) ==
    /\ listing[l].pc = "idle" /\ calls < MaxCalls
    /\ calls' = calls + 1
    /\ listing' = [listing EXCEPT ![l] =
           [AtRest EXCEPT !.pc = "list", !.todo = Folders \ {""}, !.stable = Stored(DefaultTarget)]]
    /\ UNCHANGED <<kind, service, call, troubles>>

\* The directory is walked in one go.
ListFiles(l) ==
    /\ listing[l].pc = "list" /\ kind[DefaultTarget] = "file"
    /\ listing' = [listing EXCEPT ![l].pc = "done", ![l].found = Stored(DefaultTarget)]
    /\ UNCHANGED <<kind, service, call, calls, troubles>>

\* One query; its continuation is not followed.
ListEntities(l) ==
    LET all == {i \in DOMAIN Names : There(doc[DefaultTarget][Names[i]])} IN
    /\ listing[l].pc = "list" /\ kind[DefaultTarget] = "table"
    /\ listing' = [listing EXCEPT ![l].pc = "done", ![l].found = AsPaths(Page(all)),
                                  ![l].cut = Page(all) # all]
    /\ UNCHANGED <<kind, service, call, calls, troubles>>

\* Mutant: one page of every folder.
OnePage(all) == FALSE
More(all) == Page(all) # all

\* The folders are walked one by one, each page by page.
ListChildren(l) ==
    LET here == Present(listing[l].folder, listing[l].after)
        page == Page(here)
    IN
    /\ listing[l].pc = "list" /\ kind[DefaultTarget] = "graph"
    /\ \/ /\ More(here)
          /\ listing' = [listing EXCEPT ![l].found = @ \cup AsPaths(page),
                                        ![l].after = CHOOSE i \in page : \A j \in page : j <= i]
       \/ /\ ~More(here) /\ listing[l].todo # {}
          /\ \E next \in listing[l].todo :
                listing' = [listing EXCEPT ![l].found = @ \cup AsPaths(page),
                                ![l].folder = next, ![l].after = 0, ![l].todo = @ \ {next}]
       \/ /\ ~More(here) /\ listing[l].todo = {}
          /\ listing' = [listing EXCEPT ![l].found = @ \cup AsPaths(page), ![l].pc = "done"]
    /\ UNCHANGED <<kind, service, call, calls, troubles>>
-----------------------------------------------------------------------------
(* What goes wrong. *)

RequestFails(c) ==
    /\ call[c].pc \in {"read", "content", "put", "current", "write"}
    /\ kind[call[c].target] # "file" /\ Trouble
    /\ ~At(c, "current", {"graph"}) /\ ~At(c, "write", {"table"})
    /\ Answer(c, "error")
    /\ UNCHANGED <<kind, service, listing, calls>>

\* Somebody edits or deletes the file in the drive.
ByHand(t, p) ==
    /\ kind[t] = "graph" /\ There(doc[t][p]) /\ Trouble
    /\ \/ Store(t, p, Append(doc[t][p].content, "hand")) /\ UNCHANGED listing
       \/ /\ doc' = [doc EXCEPT ![t][p] = NoEntry] /\ UNCHANGED issued
          /\ listing' = [l \in Listers |-> [listing[l] EXCEPT
                             !.stable = IF t = DefaultTarget THEN @ \ {p} ELSE @]]
    /\ UNCHANGED <<kind, tableThere, ensured, call, calls>>

\* The process stops, perhaps in the middle of writing a file: what is left of
\* it does not parse and counts as absent.
Crash ==
    /\ Trouble
    /\ \/ UNCHANGED doc
       \/ \E c \in Callers : /\ At(c, "write", {"file"}) /\ Matches(c)
                             /\ doc' = [doc EXCEPT ![call[c].target][call[c].path] = NoEntry]
    /\ ensured' = [t \in Targets |-> "unset"]
    /\ call' = [c \in Callers |-> IF call[c].pc = "idle" THEN call[c]
                                  ELSE [call[c] EXCEPT !.pc = "idle", !.answer = "error"]]
    /\ listing' = [l \in Listers |-> AtRest]
    /\ UNCHANGED <<kind, issued, tableThere, calls>>

Step(c) == \/ Begin(c) \/ Again(c) \/ ReadEntry(c) \/ ReadItem(c) \/ ReadContent(c) \/ WriteFile(c)
           \/ EnsureTable(c) \/ PutEntity(c) \/ FetchCurrent(c) \/ PutContent(c) \/ ReadBack(c)
           \/ RequestFails(c)
List(l) == BeginList(l) \/ ListFiles(l) \/ ListEntities(l) \/ ListChildren(l)

Next == \/ \E c \in Callers : Step(c)
        \/ \E l \in Listers : List(l)
        \/ \E t \in Targets : TableIsThere(t) \/ TableRefused(t)
        \/ \E t \in Targets, p \in Paths : ByHand(t, p)
        \/ Crash

Spec == Init /\ [][Next]_vars
-----------------------------------------------------------------------------
\* The types of the variables.
TypeOK ==
    /\ \A t \in Targets, p \in Paths :
          /\ doc[t][p].content \in Seq(Callers \cup {"hand"})
          /\ doc[t][p].etag[1] \in 0..issued[t]
    /\ ensured \in [Targets -> {"unset", "asked", "ready"}]
    /\ \A c \in Callers : call[c].target \in Targets /\ call[c].path \in Paths
    /\ \A l \in Listers : listing[l].found \cup listing[l].stable \subseteq Paths
    /\ calls \in 0..MaxCalls /\ troubles \in 0..MaxTroubles

\* The entry of c changed because its write was accepted.
Accepted(c) == call[c].pc \in {"write", "put"} /\ Doc(c)' # Doc(c) /\ call'[c].pc = "idle"
               /\ call[c].target = call'[c].target /\ There(Doc(c)')

\* Whatever holds it, an entry is replaced under an ETag only if its content is
\* the one the writer had read or written: nobody's line is lost to a read in
\* two requests, a reused version or a table that was not there.  The exception
\* is the empty ETag that the table's reads give.
CompareSeesContent ==
    [][\A c \in Callers : Accepted(c) /\ call[c].conditional =>
           \/ Doc(c).content = call[c].seen.content
           \/ kind[call[c].target] = "table" /\ call[c].seen.etag = EmptyEtag]_vars

\* A conflict tells the caller of an entry that is not the one it lost with,
\* unless the caller had the empty ETag, which every entry of a table has.
ConflictGivesNewer ==
    \A c \in Callers : call[c].answer = "conflict" /\ There(call[c].current) =>
        \/ call[c].current.etag # call[c].seen.etag
        \/ kind[call[c].target] = "table" /\ call[c].seen.etag = EmptyEtag

\* A call fails only with a failure since its caller began: no failure is
\* remembered, and no write goes out to a table that does not exist.  The
\* exception is a put under the empty ETag.
ErrorNeedsTrouble ==
    [][\A c \in Callers : call[c].answer = "pending" /\ call'[c].answer = "error" =>
           \/ troubles' > call[c].since
           \/ call[c].pc = "put" /\ call[c].seen.etag = EmptyEtag]_vars

\* A list has every entry that was there from its first request to its last,
\* whatever was written meanwhile, unless the one page of a table was full.
ListComplete ==
    \A l \in Listers : listing[l].pc = "done" =>
        listing[l].stable \subseteq listing[l].found \/ listing[l].cut
=============================================================================
