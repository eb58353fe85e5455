-------------------------- MODULE MemoryBackendsProofs --------------------------
(***************************************************************************)
(* Theorems about MemoryBackends, for every set of destinations, callers,  *)
(* listers and paths, every page size and any bounds.                      *)
(*                                                                         *)
(* BackendsInv says what an ETag stands for.  In the directory it carries  *)
(* the content; the services never repeat a number, so that what a call    *)
(* has seen under an ETag is what the entry holds as long as it keeps that *)
(* ETag (Basis).  Where each call is says what it knows (Progress), and    *)
(* where each list is which folders it has behind it (Walked).             *)
(***************************************************************************)
EXTENDS MemoryBackends, DataFacts, SequenceTheorems


Kinds == {"file", "table", "graph"}
Text == Seq(Callers \cup {"hand"})
Entries == [etag : (Nat \X Text) \cup {EmptyEtag}, content : Text]
CallsType == [pc : {"idle", "read", "content", "write", "ensure", "put", "current"},
              name : Named \cup {""}, target : Targets, path : Paths, seen : Entries,
              conditional : BOOLEAN, current : Entries, since : Nat,
              answer : {"none", "pending", "unknown target", "ok", "conflict", "error"}]
ListsType == [pc : {"idle", "list", "done"}, found : SUBSET Paths, todo : SUBSET Folders,
              folder : Folders, after : Nat, stable : SUBSET Paths, cut : BOOLEAN]

TypeInv ==
    /\ kind \in [Targets -> Kinds]
    /\ doc \in [Targets -> [Paths -> Entries]]
    /\ issued \in [Targets -> Nat]
    /\ tableThere \in [Targets -> BOOLEAN]
    /\ ensured \in [Targets -> {"unset", "asked", "ready"}]
    /\ call \in [Callers -> CallsType]
    /\ listing \in [Listers -> ListsType]
    /\ calls \in 0..MaxCalls /\ troubles \in 0..MaxTroubles

\* An entry and its ETag, as a store of kind k gives them out.
Formed(k, e) == \/ e = NoEntry
                \/ e.etag[1] # 0 /\ e.etag[2] = IF k = "file" THEN e.content ELSE <<>>

StoreInv ==
    /\ \A t \in Targets, p \in Paths :
          /\ Formed(kind[t], doc[t][p]) /\ doc[t][p].etag[1] <= issued[t]
          /\ kind[t] = "table" /\ ~tableThere[t] => doc[t][p] = NoEntry
    /\ \A t \in Targets : ensured[t] = "ready" => tableThere[t]

\* A call that has the empty ETag, which only a table gives.
Blind(c) == kind[call[c].target] = "table" /\ call[c].seen.etag = EmptyEtag

\* What a call has seen under an ETag is what the entry holds under it.
Basis(c) ==
    /\ call[c].since <= troubles
    /\ call[c].conditional => There(call[c].seen)
    /\ call[c].seen.etag[1] <= issued[call[c].target]
    /\ kind[call[c].target] = "file" => Formed("file", call[c].seen)
    /\ call[c].seen.etag = EmptyEtag => Blind(c)
    /\ There(call[c].seen) /\ call[c].seen.etag = Doc(c).etag => call[c].seen.content = Doc(c).content

\* What a call knows where it is: the entry it lost with is not what it had
\* read, and an entry of the drive that is gone was deleted meanwhile.
Progress(c) ==
    /\ call[c].pc # "idle" => call[c].answer = "pending"
    /\ call[c].pc # "idle" \/ call[c].answer = "ok" => call[c].current = NoEntry
    /\ call[c].answer = "ok" => There(call[c].seen)
    /\ call[c].pc = "put" => tableThere[call[c].target]
    /\ call[c].pc = "current" => /\ call[c].conditional /\ kind[call[c].target] # "file"
                                 /\ Doc(c).etag # call[c].seen.etag
    /\ /\ call[c].pc \in {"content", "write"} \/ call[c].answer = "ok"
       /\ kind[call[c].target] = "graph" /\ There(call[c].seen) /\ ~There(Doc(c))
       => troubles > call[c].since
    /\ call[c].answer = "conflict" /\ There(call[c].current) =>
          call[c].current.etag # call[c].seen.etag \/ Blind(c)

\* A list has found what was there, or has it ahead.
Walked(l) ==
    /\ listing[l].pc = "list" => listing[l].stable \subseteq Stored(DefaultTarget)
    /\ listing[l].pc = "list" /\ kind[DefaultTarget] = "graph" =>
          \A i \in DOMAIN Names : Names[i] \in listing[l].stable =>
              \/ Names[i] \in listing[l].found
              \/ FolderOf[Names[i]] \in listing[l].todo
              \/ FolderOf[Names[i]] = listing[l].folder /\ i > listing[l].after
    /\ listing[l].pc = "done" => listing[l].stable \subseteq listing[l].found \/ listing[l].cut

BackendsInv == /\ TypeInv /\ StoreInv
               /\ \A c \in Callers : Basis(c) /\ Progress(c)
               /\ \A l \in Listers : Walked(l)
-----------------------------------------------------------------------------
(* Operators. *)

LEMMA NamesAndFolders ==
    /\ Names \in Seq(Paths) /\ DOMAIN Names = 1..Len(Names) /\ Len(Names) \in Nat
    /\ Paths = {Names[i] : i \in DOMAIN Names} /\ Paths \subseteq DOMAIN FolderOf
    /\ Names[1] \in Paths /\ "" \in Folders
    /\ \A p \in Paths : FolderOf[p] \in Folders
  <1>1. Names \in Seq(DOMAIN FolderOf) /\ Names # <<>>  BY PagesAssumption
  <1>2. DOMAIN Names = 1..Len(Names) /\ Len(Names) \in Nat /\ Len(Names) # 0  BY <1>1
  <1>3. 1 \in DOMAIN Names  BY <1>2
  <1>4. \A i \in DOMAIN Names : Names[i] \in DOMAIN FolderOf  BY <1>1, <1>2
  <1>5. Paths = {Names[i] : i \in DOMAIN Names}  BY DEF Paths, ToSet
  <1>6. Names \in Seq(Paths)
    <2>1. \A i \in 1..Len(Names) : Names[i] \in Paths  BY <1>2, <1>5
    <2> QED  BY <1>1, <2>1
  <1> QED  BY <1>2, <1>3, <1>4, <1>5, <1>6 DEF Folders

LEMMA Bounds == MaxCalls \in Nat /\ MaxTroubles \in Nat /\ PageSize \in Nat /\ PageSize # 0
  BY BoundsAssumption, PagesAssumption

LEMMA EntryTypes ==
    /\ NoEntry \in Entries /\ NoEntry.etag = <<0, <<>>>> /\ NoEntry.content = <<>>
    /\ ~There(NoEntry) /\ <<"hand">> \in Text /\ <<>> \in Text
    /\ \A k \in Kinds : Old(k) \in Entries /\ Formed(k, Old(k)) /\ Old(k).etag[1] = 1
    /\ \A k \in Kinds, e \in Entries :
          Formed(k, e) => (There(e) <=> e.etag[1] # 0) /\ (~There(e) => e = NoEntry)
  <1>1. <<>> \in Text /\ <<"hand">> \in Text  BY DEF Text
  <1>2. NoEntry.etag = <<0, <<>>>> /\ NoEntry.content = <<>> /\ NoEntry \in Entries
    BY <1>1 DEF NoEntry, NoEtag, Entries
  <1>3. ~There(NoEntry)  BY DEF There, NoEntry
  <1>4. ASSUME NEW k \in Kinds PROVE Old(k) \in Entries /\ Formed(k, Old(k)) /\ Old(k).etag[1] = 1
    BY <1>1 DEF Old, Entries, Formed
  <1>5. ASSUME NEW k \in Kinds, NEW e \in Entries, Formed(k, e)
        PROVE  (There(e) <=> e.etag[1] # 0) /\ (~There(e) => e = NoEntry)
    <2>1. CASE e = NoEntry  BY <1>2, <1>3, <2>1
    <2>2. CASE e # NoEntry
      <3>1. e.etag[1] # 0  BY <1>5, <2>2 DEF Formed
      <3>2. e.etag # NoEtag  BY <3>1 DEF NoEtag
      <3> QED  BY <3>1, <3>2 DEF There
    <2> QED  BY <2>1, <2>2
  <1> QED  BY <1>1, <1>2, <1>3, <1>4, <1>5

LEMMA Etags ==
    /\ EmptyEtag[1] = 0 /\ EmptyEtag # NoEtag
    /\ \A e \in Entries : e.etag[1] \in Nat /\ e.content \in Text
    /\ \A k, e : Formed(k, e) => e.etag # EmptyEtag
  <1>1. EmptyEtag[1] = 0 /\ EmptyEtag # NoEtag
    <2>1. Len(<<"">>) # Len(<<>>)  OBVIOUS
    <2>2. EmptyEtag[2] # NoEtag[2]  BY <2>1 DEF EmptyEtag, NoEtag
    <2> QED  BY <2>2 DEF EmptyEtag
  <1>2. \A e \in Entries : e.etag[1] \in Nat /\ e.content \in Text  BY <1>1 DEF Entries
  <1>3. ASSUME NEW k, NEW e, Formed(k, e) PROVE e.etag # EmptyEtag
    BY <1>1, <1>3, EntryTypes DEF Formed, NoEntry
  <1> QED  BY <1>1, <1>2, <1>3

\* What a read makes of an entry.
LEMMA AsReadIs ==
    ASSUME NEW t, NEW e \in Entries
    PROVE  /\ AsRead(t, e) \in Entries
           /\ \/ AsRead(t, e) = e
              \/ kind[t] = "table" /\ There(e) /\ AsRead(t, e).etag = EmptyEtag
  <1>1. CASE kind[t] = "table" /\ There(e)
    <2>1. AsRead(t, e) = [e EXCEPT !.etag = EmptyEtag]  BY <1>1 DEF AsRead
    <2> QED  BY <1>1, <2>1 DEF Entries
  <1>2. CASE ~(kind[t] = "table" /\ There(e))  BY <1>2 DEF AsRead
  <1> QED  BY <1>1, <1>2

LEMMA RestTypes ==
    /\ Idle \in CallsType /\ AtRest \in ListsType
    /\ Idle.pc = "idle" /\ Idle.answer = "none" /\ Idle.seen = NoEntry /\ Idle.current = NoEntry
    /\ Idle.conditional = FALSE /\ Idle.since = 0 /\ AtRest.pc = "idle"
  <1>1. DefaultTarget \in Targets  BY TargetsAssumption
  <1>2. Idle \in CallsType  BY <1>1, EntryTypes, NamesAndFolders DEF Idle, CallsType
  <1>3. AtRest \in ListsType  BY NamesAndFolders DEF AtRest, ListsType
  <1> QED  BY <1>2, <1>3 DEF Idle, AtRest

LEMMA CallFields ==
    ASSUME TypeInv, NEW c \in Callers
    PROVE  /\ call[c] \in CallsType /\ call[c].target \in Targets /\ call[c].path \in Paths
           /\ call[c].seen \in Entries /\ call[c].current \in Entries
           /\ call[c].seen.content \in Text /\ call[c].seen.etag[1] \in Nat
           /\ kind[call[c].target] \in Kinds /\ Doc(c) \in Entries
           /\ Doc(c).content \in Text /\ Doc(c).etag[1] \in Nat
           /\ call[c].since \in Nat /\ call[c].conditional \in BOOLEAN
           /\ NewContent(c) \in Text
  <1>1. call[c] \in CallsType /\ call[c].seen.content \in Text  BY DEF TypeInv, CallsType, Entries
  <1>2. Append(call[c].seen.content, c) \in Text  BY <1>1, AppendProperties DEF Text
  <1>3. call[c].target \in Targets /\ call[c].path \in Paths /\ call[c].seen \in Entries
        /\ call[c].current \in Entries /\ call[c].since \in Nat /\ call[c].conditional \in BOOLEAN
    BY <1>1 DEF CallsType
  <1>4. Doc(c) \in Entries /\ kind[call[c].target] \in Kinds  BY <1>3 DEF TypeInv, Doc
  <1> QED  BY <1>1, <1>2, <1>3, <1>4, Etags DEF NewContent

\* What is to be stored has a type, and an ETag that is new to the services.
LEMMA NextIs ==
    ASSUME TypeInv, StoreInv, NEW t \in Targets, NEW p \in Paths, NEW content \in Text
    PROVE  LET e == NextEntry(t, p, content) IN
           /\ e \in Entries /\ e.content = content /\ There(e) /\ Formed(kind[t], e)
           /\ e.etag[1] # 0 /\ e.etag[1] <= issued[t] + 1
           /\ kind[t] # "file" => e.etag[1] = issued[t] + 1
  <1> DEFINE e == NextEntry(t, p, content)
             tag == NextEtag(t, p, content)
  <1>1. doc[t][p].etag[1] \in Nat /\ issued[t] \in Nat /\ doc[t][p].etag[1] <= issued[t]
    BY Etags DEF TypeInv, StoreInv
  <1>2. /\ tag \in Nat \X Text /\ tag[1] # 0 /\ tag[1] <= issued[t] + 1
        /\ tag[2] = IF kind[t] = "file" THEN content ELSE <<>>
        /\ kind[t] # "file" => tag[1] = issued[t] + 1
    <2>1. CASE kind[t] = "file"
      <3>1. tag = <<doc[t][p].etag[1] + 1, content>>  BY <2>1 DEF NextEtag
      <3> QED  BY <1>1, <2>1, <3>1
    <2>2. CASE kind[t] # "file"
      <3>1. tag = <<issued[t] + 1, <<>>>>  BY <2>2 DEF NextEtag
      <3> QED  BY <1>1, <2>2, <3>1, EntryTypes
    <2> QED  BY <2>1, <2>2
  <1> HIDE DEF tag
  <1>3. e \in Entries /\ e.content = content /\ e.etag = tag
    BY <1>2 DEF Entries, NextEntry, tag
  <1>4. There(e)
    <2>1. NoEtag[1] = 0  BY DEF NoEtag
    <2> QED  BY <1>2, <1>3, <2>1 DEF There
  <1>5. Formed(kind[t], e)  BY <1>2, <1>3 DEF Formed
  <1> QED  BY <1>2, <1>3, <1>4, <1>5

\* Storing it changes nothing else.
LEMMA StoredEntry ==
    ASSUME TypeInv, StoreInv, NEW t \in Targets, NEW p \in Paths, NEW content \in Text,
           Store(t, p, content)
    PROVE  LET e == doc'[t][p] IN
           /\ doc' \in [Targets -> [Paths -> Entries]] /\ issued' \in [Targets -> Nat]
           /\ e = NextEntry(t, p, content) /\ There(e) /\ Formed(kind[t], e)
           /\ e.etag[1] # 0 /\ e.etag[1] <= issued[t] + 1
           /\ kind[t] # "file" => e.etag[1] = issued[t] + 1
           /\ issued'[t] = issued[t] + 1
           /\ \A u \in Targets : u # t => issued'[u] = issued[u] /\ doc'[u] = doc[u]
           /\ \A q \in Paths : q # p => doc'[t][q] = doc[t][q]
  <1> DEFINE e == NextEntry(t, p, content)
  <1>1. issued[t] \in Nat  BY DEF TypeInv
  <1>2. /\ e \in Entries /\ There(e) /\ Formed(kind[t], e)
        /\ e.etag[1] # 0 /\ e.etag[1] <= issued[t] + 1
        /\ kind[t] # "file" => e.etag[1] = issued[t] + 1
    BY NextIs
  <1>3. doc' = [doc EXCEPT ![t][p] = e] /\ issued' = [issued EXCEPT ![t] = @ + 1]
    BY DEF Store
  <1> HIDE DEF e
  <1>4. doc'[t][p] = e /\ doc' \in [Targets -> [Paths -> Entries]]
    BY <1>2, <1>3 DEF TypeInv
  <1>5. issued'[t] = issued[t] + 1 /\ issued' \in [Targets -> Nat]  BY <1>1, <1>3 DEF TypeInv
  <1>6. /\ \A u \in Targets : u # t => issued'[u] = issued[u] /\ doc'[u] = doc[u]
        /\ \A q \in Paths : q # p => doc'[t][q] = doc[t][q]
    BY <1>3 DEF TypeInv
  <1> QED  BY <1>2, <1>4, <1>5, <1>6 DEF e
-----------------------------------------------------------------------------
(* Types. *)

Places == {"idle", "read", "content", "write", "ensure", "put", "current"}
Answers == {"none", "pending", "unknown target", "ok", "conflict", "error"}

LEMMA CallUpdates ==
    ASSUME TypeInv, NEW c \in Callers
    PROVE  /\ \A where \in Places : Goto(c, where) => call' \in [Callers -> CallsType]
           /\ \A a \in Answers : Answer(c, a) => call' \in [Callers -> CallsType]
           /\ \A e \in Entries : WriteBack(c, e) => call' \in [Callers -> CallsType]
           /\ Conflict(c) => call' \in [Callers -> CallsType]
           /\ NextEntry(call[c].target, call[c].path, NewContent(c)) \in Entries /\ Accept(c)
                 => call' \in [Callers -> CallsType]
           /\ Again(c) => call' \in [Callers -> CallsType]
           /\ call' = [call EXCEPT ![c].pc = "idle", ![c].answer = "conflict"]
                 => call' \in [Callers -> CallsType]
           /\ call' = [call EXCEPT ![c].pc = "content", ![c].seen = Doc(c)]
                 => call' \in [Callers -> CallsType]
  <1>1. call[c] \in CallsType /\ call \in [Callers -> CallsType] /\ Doc(c) \in Entries
    BY CallFields DEF TypeInv
  <1>2. \A e \in Entries : There(e) \in BOOLEAN  BY DEF There
  <1>3. ASSUME NEW where \in Places, Goto(c, where) PROVE call' \in [Callers -> CallsType]
    <2> DEFINE v == [call[c] EXCEPT !.pc = where]
    <2>1. v \in CallsType  BY <1>1 DEF CallsType, Places
    <2>2. call' = [call EXCEPT ![c] = v]  BY <1>1, <1>3 DEF Goto
    <2> QED  BY <1>1, <2>1, <2>2
  <1>4. ASSUME NEW a \in Answers, Answer(c, a) PROVE call' \in [Callers -> CallsType]
    <2> DEFINE v == [call[c] EXCEPT !.pc = "idle", !.answer = a]
    <2>1. v \in CallsType  BY <1>1 DEF CallsType, Answers
    <2>2. call' = [call EXCEPT ![c] = v]  BY <1>1, <1>4 DEF Answer
    <2> QED  BY <1>1, <2>1, <2>2
  <1>5. ASSUME NEW e \in Entries, WriteBack(c, e) PROVE call' \in [Callers -> CallsType]
    <2>1. call' = [call EXCEPT ![c].pc = "write", ![c].seen = e, ![c].conditional = There(e)]
      BY <1>5 DEF WriteBack
    <2>2. There(e) \in BOOLEAN  BY <1>2
    <2> DEFINE v == [call[c] EXCEPT !.pc = "write", !.seen = e, !.conditional = There(e)]
    <2>3. v \in CallsType  BY <1>1, <2>2 DEF CallsType
    <2>4. call' = [call EXCEPT ![c] = v]  BY <1>1, <2>1
    <2> QED  BY <1>1, <2>3, <2>4
  <1>6. ASSUME Conflict(c) PROVE call' \in [Callers -> CallsType]
    <2> DEFINE e == AsRead(call[c].target, Doc(c))
               v == [call[c] EXCEPT !.pc = "idle", !.answer = "conflict", !.current = e]
    <2>1. e \in Entries  BY <1>1, AsReadIs
    <2>2. call' = [call EXCEPT ![c].pc = "idle", ![c].answer = "conflict", ![c].current = e]
      BY <1>6 DEF Conflict, Current
    <2> HIDE DEF e
    <2>3. v \in CallsType  BY <1>1, <2>1 DEF CallsType
    <2>4. call' = [call EXCEPT ![c] = v]  BY <1>1, <2>2
    <2> QED  BY <1>1, <2>3, <2>4
  <1>7. ASSUME call' = [call EXCEPT ![c].pc = "idle", ![c].answer = "conflict"]
         PROVE call' \in [Callers -> CallsType]
    <2> DEFINE v == [call[c] EXCEPT !.pc = "idle", !.answer = "conflict"]
    <2>1. v \in CallsType  BY <1>1 DEF CallsType
    <2>2. call' = [call EXCEPT ![c] = v]  BY <1>1, <1>7
    <2> QED  BY <1>1, <2>1, <2>2
  <1>8. ASSUME call' = [call EXCEPT ![c].pc = "content", ![c].seen = Doc(c)]
         PROVE call' \in [Callers -> CallsType]
    <2> DEFINE v == [call[c] EXCEPT !.pc = "content", !.seen = Doc(c)]
    <2>1. v \in CallsType  BY <1>1 DEF CallsType
    <2>2. call' = [call EXCEPT ![c] = v]  BY <1>1, <1>8
    <2> QED  BY <1>1, <2>1, <2>2
  <1>9. ASSUME NEW e \in Entries,
               call' = [call EXCEPT ![c].pc = "idle", ![c].answer = "ok", ![c].seen = e]
        PROVE  call' \in [Callers -> CallsType]
    <2> DEFINE v == [call[c] EXCEPT !.pc = "idle", !.answer = "ok", !.seen = e]
    <2>1. v \in CallsType  BY <1>1 DEF CallsType
    <2>2. call' = [call EXCEPT ![c] = v]  BY <1>1, <1>9
    <2> QED  BY <1>1, <2>1, <2>2
  <1>10. ASSUME Again(c) PROVE call' \in [Callers -> CallsType]
    <2> DEFINE v == [call[c] EXCEPT !.pc = "write", !.conditional = TRUE, !.answer = "pending"]
    <2>1. v \in CallsType  BY <1>1 DEF CallsType
    <2>2. call' = [call EXCEPT ![c] = v]  BY <1>1, <1>10 DEF Again
    <2> QED  BY <1>1, <2>1, <2>2
  <1> QED  BY <1>3, <1>4, <1>5, <1>6, <1>7, <1>8, <1>9, <1>10 DEF Accept

LEMMA TroubleTypes ==
    TypeInv => /\ troubles \in Nat /\ (Trouble => troubles' \in 0..MaxTroubles /\ troubles' > troubles)
  BY Bounds DEF TypeInv, Trouble

\* A call that begins is of a declared destination, by its name or for want
\* of one.
LEMMA BeginTypes ==
    ASSUME TypeInv, NEW c \in Callers, Begin(c)
    PROVE  /\ call' \in [Callers -> CallsType] /\ calls' \in 0..MaxCalls
           /\ \A d \in Callers : d # c => call'[d] = call[d]
           /\ call'[c].seen = NoEntry /\ call'[c].current = NoEntry /\ ~call'[c].conditional
           /\ \/ call'[c].pc = "idle" /\ call'[c].answer = "unknown target" /\ call'[c].since = 0
              \/ call'[c].pc \in {"read", "write"} /\ call'[c].answer = "pending"
                 /\ call'[c].since = troubles
  <1>1. calls' \in 0..MaxCalls
    <2>1. calls < MaxCalls /\ calls' = calls + 1  BY DEF Begin
    <2>2. calls \in 0..MaxCalls  BY DEF TypeInv
    <2> QED  BY <2>1, <2>2, Bounds
  <1>2. Idle \in CallsType /\ troubles \in Nat  BY RestTypes, TroubleTypes
  <1>3. PICK name \in Named, p \in Paths, first \in {"read", "write"} :
           IF Resolve(name) = {}
           THEN call' = [call EXCEPT ![c] = [Idle EXCEPT !.answer = "unknown target"]]
           ELSE \E t \in Resolve(name) :
                   call' = [call EXCEPT ![c] =
                       [Idle EXCEPT !.pc = first, !.name = name, !.target = t, !.path = p,
                                    !.since = troubles, !.answer = "pending"]]
    BY DEF Begin
  <1>4. Resolve(name) \subseteq Targets  BY TargetsAssumption DEF Resolve
  <1>5. \E v \in CallsType :
           /\ call' = [call EXCEPT ![c] = v]
           /\ v.seen = NoEntry /\ v.current = NoEntry /\ v.conditional = FALSE
           /\ \/ v.pc = "idle" /\ v.answer = "unknown target" /\ v.since = 0
              \/ v.pc \in {"read", "write"} /\ v.answer = "pending" /\ v.since = troubles
    <2>1. CASE Resolve(name) = {}
      <3> DEFINE v == [Idle EXCEPT !.answer = "unknown target"]
      <3>1. v \in CallsType  BY <1>2 DEF CallsType
      <3>2. v.seen = NoEntry /\ v.current = NoEntry /\ v.conditional = FALSE /\ v.pc = "idle"
            /\ v.answer = "unknown target" /\ v.since = 0
        BY <1>2, RestTypes DEF CallsType
      <3>3. call' = [call EXCEPT ![c] = v]  BY <1>3, <2>1
      <3> QED  BY <3>1, <3>2, <3>3
    <2>2. CASE Resolve(name) # {}
      <3>1. PICK t \in Resolve(name) :
               call' = [call EXCEPT ![c] =
                   [Idle EXCEPT !.pc = first, !.name = name, !.target = t, !.path = p,
                                !.since = troubles, !.answer = "pending"]]
        BY <1>3, <2>2
      <3> DEFINE v == [Idle EXCEPT !.pc = first, !.name = name, !.target = t, !.path = p,
                                   !.since = troubles, !.answer = "pending"]
      <3>2. t \in Targets  BY <1>4
      <3>3. v \in CallsType  BY <1>2, <3>2 DEF CallsType
      <3>4. v.seen = NoEntry /\ v.current = NoEntry /\ v.conditional = FALSE
            /\ v.pc = first /\ v.answer = "pending" /\ v.since = troubles
        BY <1>2, RestTypes DEF CallsType
      <3>5. call' = [call EXCEPT ![c] = v]  BY <3>1
      <3> QED  BY <3>3, <3>4, <3>5
    <2> QED  BY <2>1, <2>2
  <1>6. PICK v \in CallsType :
           /\ call' = [call EXCEPT ![c] = v]
           /\ v.seen = NoEntry /\ v.current = NoEntry /\ v.conditional = FALSE
           /\ \/ v.pc = "idle" /\ v.answer = "unknown target" /\ v.since = 0
              \/ v.pc \in {"read", "write"} /\ v.answer = "pending" /\ v.since = troubles
    BY <1>5
  <1>7. call \in [Callers -> CallsType]  BY DEF TypeInv
  <1>8. call' \in [Callers -> CallsType] /\ call'[c] = v
        /\ \A d \in Callers : d # c => call'[d] = call[d]
    BY <1>6, <1>7
  <1> QED  BY <1>1, <1>6, <1>8
-----------------------------------------------------------------------------
(* Pages. *)

\* A page that is not all there is has some of it, and is followed by the rest.
LEMMA PageIsFirst ==
    ASSUME NEW all \in SUBSET DOMAIN Names
    PROVE  /\ Page(all) \subseteq all
           /\ Page(all) # all =>
                 LET last == CHOOSE i \in Page(all) : \A j \in Page(all) : j <= i
                 IN  last \in Nat /\ \A i \in all \ Page(all) : i > last
  <1> DEFINE page == Page(all)
             before(i) == {j \in all : j < i}
  <1>1. page = {i \in all : Cardinality(before(i)) < PageSize}  BY DEF Page
  <1>2. DOMAIN Names = 1..Len(Names) /\ Len(Names) \in Nat  BY NamesAndFolders
  <1>3. IsFiniteSet(all) /\ all \subseteq 0..Len(Names) /\ all \subseteq Nat
    <2>1. all \subseteq 1..Len(Names)  BY <1>2
    <2>2. IsFiniteSet(1..Len(Names))  BY <1>2, FS_Interval
    <2>3. 1..Len(Names) \subseteq 0..Len(Names) /\ 0..Len(Names) \subseteq Nat  BY <1>2
    <2> QED  BY <2>1, <2>2, <2>3, FS_Subset
  <1>4. \A i \in all : IsFiniteSet(before(i)) /\ Cardinality(before(i)) \in Nat
    BY <1>3, FS_Subset, FS_CardinalityType
  <1>5. ASSUME NEW i \in all, NEW j \in all, i <= j PROVE Cardinality(before(i)) <= Cardinality(before(j))
    <2>1. before(i) \subseteq before(j)
      <3>1. ASSUME NEW k \in all, k < i PROVE k < j
        <4>1. k \in Nat /\ i \in Nat /\ j \in Nat  BY <1>3
        <4> QED  BY <3>1, <4>1, <1>5
      <3> QED  BY <3>1
    <2> QED  BY <1>4, <2>1, FS_Subset
  <1>6. page \subseteq all  BY <1>1
  <1>7. ASSUME page # all PROVE page # {}
    <2>1. all # {}  BY <1>6, <1>7
    <2>2. PICK i \in all : \A j \in all : i <= j  BY <1>3, <2>1, LeastElement
    <2>3. before(i) = {}
      <3>1. ASSUME NEW j \in all PROVE ~(j < i)
        <4>1. i <= j /\ i \in Nat /\ j \in Nat  BY <1>3, <2>2
        <4> QED  BY <4>1
      <3> QED  BY <3>1
    <2>4. Cardinality(before(i)) = 0  BY <2>3, FS_EmptySet
    <2>5. 0 < PageSize  BY Bounds
    <2> QED  BY <1>1, <2>4, <2>5
  <1>8. ASSUME page # all
        PROVE  LET last == CHOOSE i \in page : \A j \in page : j <= i
               IN  last \in Nat /\ \A i \in all \ page : i > last
    <2> DEFINE last == CHOOSE i \in page : \A j \in page : j <= i
    <2>1. page # {} /\ page \subseteq 0..Len(Names)  BY <1>3, <1>6, <1>7, <1>8
    <2> HIDE DEF page
    <2>2. \E i \in page : \A j \in page : j <= i  BY <1>2, <2>1, GreatestElement
    <2>3. last \in page  BY <2>2
    <2> HIDE DEF last
    <2>4. last \in all /\ last \in Nat  BY <1>3, <1>6, <2>3
    <2>5. ASSUME NEW i \in all \ page PROVE i > last
      <3>1. i \in Nat  BY <1>3
      <3>2. ~(Cardinality(before(i)) < PageSize) /\ Cardinality(before(last)) < PageSize
        BY <1>1, <2>3
      <3>3. Cardinality(before(i)) \in Nat /\ Cardinality(before(last)) \in Nat /\ PageSize \in Nat
        BY <1>4, <2>4, Bounds
      <3>4. i <= last => Cardinality(before(i)) <= Cardinality(before(last))
        BY <1>5, <2>4
      <3> HIDE DEF before
      <3> QED  BY <2>4, <3>1, <3>2, <3>3, <3>4
    <2> QED  BY <2>4, <2>5 DEF last
  <1> QED  BY <1>6, <1>8

LEMMA PresentTypes ==
    ASSUME NEW folder, NEW after
    PROVE  /\ Present(folder, after) \subseteq DOMAIN Names
           /\ \A i \in DOMAIN Names : Names[i] \in Stored(DefaultTarget)
                 /\ FolderOf[Names[i]] = folder /\ i > after => i \in Present(folder, after)
  BY DEF Present, Stored

LEMMA FoundTypes ==
    /\ \A I : I \subseteq DOMAIN Names => AsPaths(I) \subseteq Paths
    /\ \A t \in Targets : Stored(t) \subseteq Paths
  BY NamesAndFolders DEF AsPaths, Stored

LEMMA ListTypes ==
    ASSUME TypeInv, NEW l \in Listers, List(l)
    PROVE  listing' \in [Listers -> ListsType] /\ calls' \in 0..MaxCalls
  <1>1. listing \in [Listers -> ListsType] /\ listing[l] \in ListsType /\ calls \in 0..MaxCalls
    BY DEF TypeInv
  <1>2. DefaultTarget \in Targets  BY TargetsAssumption
  <1>3. /\ listing[l].found \subseteq Paths /\ listing[l].todo \subseteq Folders
        /\ listing[l].folder \in Folders /\ listing[l].after \in Nat
    BY <1>1 DEF ListsType
  <1> DEFINE OK(v) == listing' = [listing EXCEPT ![l] = v] /\ v \in ListsType
  <1>4. ASSUME NEW v, OK(v) PROVE listing' \in [Listers -> ListsType]
    BY <1>1, <1>4
  <1>5. CASE BeginList(l)
    <2> DEFINE v == [AtRest EXCEPT !.pc = "list", !.todo = Folders \ {""},
                                   !.stable = Stored(DefaultTarget)]
    <2>1. v \in ListsType  BY <1>2, RestTypes, FoundTypes DEF ListsType
    <2>2. listing' = [listing EXCEPT ![l] = v]  BY <1>5 DEF BeginList
    <2>3. calls < MaxCalls /\ calls' = calls + 1  BY <1>5 DEF BeginList
    <2>4. calls' \in 0..MaxCalls  BY <1>1, <2>3, Bounds
    <2> QED  BY <1>1, <2>1, <2>2, <2>4
  <1>6. CASE ListFiles(l)
    <2> DEFINE v == [listing[l] EXCEPT !.pc = "done", !.found = Stored(DefaultTarget)]
    <2>1. v \in ListsType  BY <1>1, <1>2, FoundTypes DEF ListsType
    <2>2. listing' = [listing EXCEPT ![l] = v]  BY <1>1, <1>6 DEF ListFiles
    <2> QED  BY <1>1, <1>6, <2>1, <2>2 DEF ListFiles
  <1>7. CASE ListEntities(l)
    <2> DEFINE all == {i \in DOMAIN Names : There(doc[DefaultTarget][Names[i]])}
               v == [listing[l] EXCEPT !.pc = "done", !.found = AsPaths(Page(all)),
                                       !.cut = Page(all) # all]
    <2>1. AsPaths(Page(all)) \subseteq Paths  BY FoundTypes, PageIsFirst
    <2>2. (Page(all) # all) \in BOOLEAN  OBVIOUS
    <2>3. v \in ListsType  BY <1>1, <2>1, <2>2 DEF ListsType
    <2>4. listing' = [listing EXCEPT ![l] = v]  BY <1>1, <1>7 DEF ListEntities
    <2>5. calls' = calls  BY <1>7 DEF ListEntities
    <2> HIDE DEF v
    <2> QED  BY <1>1, <2>3, <2>4, <2>5
  <1>8. CASE ListChildren(l)
    <2> DEFINE here == Present(listing[l].folder, listing[l].after)
               page == Page(here)
               last == CHOOSE i \in page : \A j \in page : j <= i
    <2>1. here \subseteq DOMAIN Names  BY PresentTypes
    <2> HIDE DEF here
    <2>2. page \subseteq DOMAIN Names /\ (page # here => last \in Nat)  BY <2>1, PageIsFirst
    <2> HIDE DEF page
    <2>3. listing[l].found \cup AsPaths(page) \subseteq Paths  BY <1>3, <2>2, FoundTypes
    <2>4. CASE /\ page # here
               /\ listing' = [listing EXCEPT ![l].found = @ \cup AsPaths(page), ![l].after = last]
      <3> DEFINE v == [listing[l] EXCEPT !.found = @ \cup AsPaths(page), !.after = last]
      <3> HIDE DEF last
      <3>1. v \in ListsType  BY <1>1, <2>2, <2>3, <2>4 DEF ListsType
      <3>2. listing' = [listing EXCEPT ![l] = v]  BY <1>1, <2>4
      <3> QED  BY <1>1, <1>8, <3>1, <3>2 DEF ListChildren
    <2>5. ASSUME NEW next \in listing[l].todo,
                 listing' = [listing EXCEPT ![l].found = @ \cup AsPaths(page),
                                ![l].folder = next, ![l].after = 0, ![l].todo = @ \ {next}]
          PROVE  listing' \in [Listers -> ListsType] /\ calls' \in 0..MaxCalls
      <3> DEFINE v == [listing[l] EXCEPT !.found = @ \cup AsPaths(page),
                                !.folder = next, !.after = 0, !.todo = @ \ {next}]
      <3>1. v \in ListsType  BY <1>1, <1>3, <2>3, <2>5 DEF ListsType
      <3>2. listing' = [listing EXCEPT ![l] = v]  BY <1>1, <2>5
      <3> QED  BY <1>1, <1>8, <3>1, <3>2 DEF ListChildren
    <2>6. CASE listing' = [listing EXCEPT ![l].found = @ \cup AsPaths(page), ![l].pc = "done"]
      <3> DEFINE v == [listing[l] EXCEPT !.found = @ \cup AsPaths(page), !.pc = "done"]
      <3>1. v \in ListsType  BY <1>1, <2>3 DEF ListsType
      <3>2. listing' = [listing EXCEPT ![l] = v]  BY <1>1, <2>6
      <3> QED  BY <1>1, <1>8, <3>1, <3>2 DEF ListChildren
    <2> QED  BY <1>8, <2>4, <2>5, <2>6 DEF ListChildren, More, here, page
  <1> QED  BY <1>5, <1>6, <1>7, <1>8 DEF List
-----------------------------------------------------------------------------
(* The stores. *)

\* How an entry may change: not, to nothing, or to one with a new ETag.
Moved(t, p) ==
    \/ doc'[t][p] = doc[t][p]
    \/ doc'[t][p] = NoEntry /\ kind[t] = "file"
    \/ doc'[t][p] = NoEntry /\ kind[t] = "graph" /\ troubles' > troubles
    \/ There(doc'[t][p]) /\ (kind[t] # "file" => doc'[t][p].etag[1] > issued[t])
Moves ==
    /\ kind' = kind /\ troubles <= troubles'
    /\ \A t \in Targets : issued[t] <= issued'[t] /\ (tableThere[t] => tableThere'[t])
    /\ \A t \in Targets, p \in Paths : Moved(t, p)

LEMMA StaysPut ==
    ASSUME TypeInv, StoreInv, kind' = kind, UNCHANGED service, troubles <= troubles'
    PROVE  StoreInv' /\ Moves
  <1>1. UNCHANGED <<doc, issued, tableThere, ensured>>  BY DEF service
  <1>2. \A t \in Targets : issued[t] <= issued[t]  BY DEF TypeInv
  <1> QED  BY <1>1, <1>2 DEF StoreInv, Moves, Moved

LEMMA StoreMoves ==
    ASSUME TypeInv, StoreInv, NEW t \in Targets, NEW p \in Paths, NEW content \in Text,
           Store(t, p, content), kind' = kind, troubles <= troubles',
           UNCHANGED <<tableThere, ensured>>, kind[t] = "table" => tableThere[t]
    PROVE  StoreInv' /\ Moves
  <1> DEFINE e == doc'[t][p]
  <1>1. /\ There(e) /\ Formed(kind[t], e)
        /\ e.etag[1] <= issued[t] + 1
        /\ kind[t] # "file" => e.etag[1] = issued[t] + 1
        /\ issued'[t] = issued[t] + 1
        /\ \A u \in Targets : u # t => issued'[u] = issued[u] /\ doc'[u] = doc[u]
        /\ \A q \in Paths : q # p => doc'[t][q] = doc[t][q]
    BY StoredEntry
  <1>2. \A u \in Targets : issued[u] \in Nat  BY DEF TypeInv
  <1>3. \A u \in Targets, q \in Paths : doc[u][q].etag[1] \in Nat
    BY Etags DEF TypeInv
  <1>4. ASSUME NEW u \in Targets, NEW q \in Paths
        PROVE  /\ Formed(kind'[u], doc'[u][q]) /\ doc'[u][q].etag[1] <= issued'[u]
               /\ kind'[u] = "table" /\ ~tableThere'[u] => doc'[u][q] = NoEntry
               /\ issued[u] <= issued'[u] /\ Moved(u, q)
    <2>1. CASE u = t /\ q = p
      <3>1. e.etag[1] <= issued'[t] /\ issued[t] <= issued'[t]
            /\ (kind[t] # "file" => e.etag[1] > issued[t])
        BY <1>1, <1>2
      <3> QED  BY <1>1, <2>1, <3>1 DEF Moved
    <2>2. CASE ~(u = t /\ q = p)
      <3>1. doc'[u][q] = doc[u][q]  BY <1>1, <2>2
      <3>2. issued'[u] \in {issued[u], issued[u] + 1}  BY <1>1
      <3>3. doc[u][q].etag[1] <= issued[u]  BY DEF StoreInv
      <3>4. doc'[u][q].etag[1] <= issued'[u] /\ issued[u] <= issued'[u]
        BY <1>2, <1>3, <3>1, <3>2, <3>3
      <3>5. Formed(kind[u], doc[u][q]) /\ (kind[u] = "table" /\ ~tableThere[u] => doc[u][q] = NoEntry)
        BY DEF StoreInv
      <3> QED  BY <3>1, <3>4, <3>5 DEF Moved
    <2> QED  BY <2>1, <2>2
  <1>5. StoreInv'  BY <1>4 DEF StoreInv
  <1>6. Moves  BY <1>4, NamesAndFolders DEF Moves
  <1> QED  BY <1>5, <1>6

\* An entry of the directory or of the drive is lost.
LEMMA DeleteMoves ==
    ASSUME TypeInv, StoreInv, NEW t \in Targets, NEW p \in Paths,
           doc' = [doc EXCEPT ![t][p] = NoEntry], kind' = kind,
           UNCHANGED <<issued, tableThere>>, troubles <= troubles',
           ensured' = ensured \/ ensured' = [u \in Targets |-> "unset"],
           kind[t] = "file" \/ (kind[t] = "graph" /\ troubles' > troubles)
    PROVE  StoreInv' /\ Moves /\ doc' \in [Targets -> [Paths -> Entries]]
  <1>1. doc'[t][p] = NoEntry /\ doc' \in [Targets -> [Paths -> Entries]]
        /\ \A u \in Targets, q \in Paths : doc'[u][q] \in {NoEntry, doc[u][q]}
    BY EntryTypes DEF TypeInv
  <1>2. \A u \in Targets, q \in Paths : ~(u = t /\ q = p) => doc'[u][q] = doc[u][q]
    BY DEF TypeInv
  <1>3. \A u \in Targets : issued[u] \in Nat  BY DEF TypeInv
  <1>4. NoEntry.etag[1] = 0  BY EntryTypes
  <1>5. ASSUME NEW u \in Targets, NEW q \in Paths
        PROVE  /\ Formed(kind'[u], doc'[u][q]) /\ doc'[u][q].etag[1] <= issued'[u]
               /\ kind'[u] = "table" /\ ~tableThere'[u] => doc'[u][q] = NoEntry
               /\ issued[u] <= issued'[u] /\ Moved(u, q)
    <2>1. 0 <= issued[u] /\ issued[u] <= issued[u]  BY <1>3
    <2>2. Moved(u, q)  BY <1>1, <1>2 DEF Moved
    <2>3. Formed(kind[u], doc[u][q]) /\ (kind[u] = "table" /\ ~tableThere[u] => doc[u][q] = NoEntry)
          /\ doc[u][q].etag[1] <= issued[u]
      BY DEF StoreInv
    <2> QED  BY <1>1, <1>4, <2>1, <2>2, <2>3 DEF Formed
  <1>6. \A u \in Targets : ensured'[u] = "ready" => tableThere'[u]  BY DEF StoreInv
  <1>7. StoreInv'  BY <1>5, <1>6 DEF StoreInv
  <1>8. Moves  BY <1>5, NamesAndFolders DEF Moves
  <1> QED  BY <1>1, <1>7, <1>8

\* A step of a call that leaves the stores alone.
LEMMA ReadTypes ==
    ASSUME TypeInv, StoreInv, NEW c \in Callers,
           \/ Begin(c) \/ Again(c) \/ ReadEntry(c) \/ ReadItem(c) \/ ReadContent(c) \/ FetchCurrent(c)
           \/ ReadBack(c) \/ RequestFails(c)
    PROVE  TypeInv' /\ StoreInv' /\ Moves
  <1>1. /\ kind' = kind /\ UNCHANGED service /\ listing' = listing
        /\ troubles' = troubles \/ Trouble
    BY DEF Begin, Again, ReadEntry, ReadItem, ReadContent, FetchCurrent, ReadBack, RequestFails
  <1>2. calls' \in 0..MaxCalls
    <2>1. CASE Again(c)
      <3>1. calls < MaxCalls /\ calls' = calls + 1  BY <2>1 DEF Again
      <3>2. calls \in 0..MaxCalls  BY DEF TypeInv
      <3> QED  BY <3>1, <3>2, Bounds
    <2>2. CASE ~Again(c)
      BY <2>2, BeginTypes
         DEF TypeInv, ReadEntry, ReadItem, ReadContent, FetchCurrent, ReadBack, RequestFails
    <2> QED  BY <2>1, <2>2
  <1>3. troubles <= troubles' /\ troubles' \in 0..MaxTroubles
    <2>1. troubles \in 0..MaxTroubles /\ troubles \in Nat  BY TroubleTypes DEF TypeInv
    <2> QED  BY <1>1, <2>1, TroubleTypes
  <1>4. call' \in [Callers -> CallsType]
    <2>1. Doc(c) \in Entries /\ call[c].seen \in Entries  BY CallFields
    <2>2. ItemThenContent(Doc(c), call[c].seen) \in Entries  BY <2>1 DEF ItemThenContent, Entries
    <2>3. CASE Begin(c)  BY <2>3, BeginTypes
    <2>4. CASE ReadEntry(c)
      <3>1. AsRead(call[c].target, Doc(c)) \in Entries  BY <2>1, AsReadIs
      <3> QED  BY <2>4, <3>1, CallUpdates DEF ReadEntry
    <2>5. CASE ReadItem(c)  BY <2>5, EntryTypes, CallUpdates DEF ReadItem
    <2>6. CASE ReadContent(c)
      <3>1. (IF There(Doc(c)) THEN ItemThenContent(Doc(c), call[c].seen) ELSE NoEntry) \in Entries
        BY <2>2, EntryTypes
      <3> QED  BY <2>6, <3>1, CallUpdates DEF ReadContent
    <2>7. CASE FetchCurrent(c)  BY <2>7, CallUpdates DEF FetchCurrent
    <2>8. CASE ReadBack(c)  BY <2>8, CallUpdates DEF ReadBack
    <2>9. CASE RequestFails(c)
      <3>1. Answer(c, "error")  BY <2>9 DEF RequestFails
      <3> QED  BY <3>1, CallUpdates DEF Answers
    <2>10. CASE Again(c)  BY <2>10, CallUpdates
    <2> QED  BY <2>3, <2>4, <2>5, <2>6, <2>7, <2>8, <2>9, <2>10
  <1>5. StoreInv' /\ Moves  BY <1>1, <1>3, StaysPut
  <1>6. TypeInv'  BY <1>1, <1>2, <1>3, <1>4 DEF TypeInv, service
  <1> QED  BY <1>5, <1>6

\* The writes of a call.
LEMMA WriteTypes ==
    ASSUME TypeInv, StoreInv, NEW c \in Callers, WriteFile(c) \/ PutEntity(c) \/ PutContent(c)
    PROVE  TypeInv' /\ StoreInv' /\ Moves
  <1>1. /\ kind' = kind /\ UNCHANGED <<tableThere, ensured, listing, calls>>
        /\ troubles' = troubles \/ Trouble
    BY DEF WriteFile, PutEntity, PutContent
  <1>2. troubles <= troubles' /\ troubles' \in 0..MaxTroubles
    <2>1. troubles \in 0..MaxTroubles /\ troubles \in Nat  BY TroubleTypes DEF TypeInv
    <2> QED  BY <1>1, <2>1, TroubleTypes
  <1>3. call' \in [Callers -> CallsType]
    <2>1. Answer(c, "error") \/ Accept(c) \/ Conflict(c) \/ Goto(c, "current")
      BY DEF WriteFile, PutEntity, PutContent
    <2>2. NextEntry(call[c].target, call[c].path, NewContent(c)) \in Entries
      BY CallFields, NextIs
    <2> QED  BY <2>1, <2>2, CallUpdates DEF Answers, Places
  <1> DEFINE t == call[c].target
             p == call[c].path
  <1>4. t \in Targets /\ p \in Paths /\ NewContent(c) \in Text  BY CallFields
  <1>5. \/ Store(t, p, NewContent(c)) /\ (kind[t] = "table" => tableThere[t])
        \/ UNCHANGED <<doc, issued>>
    BY DEF WriteFile, PutEntity, PutContent, At
  <1>6. doc' \in [Targets -> [Paths -> Entries]] /\ issued' \in [Targets -> Nat]
    BY <1>4, <1>5, StoredEntry DEF TypeInv
  <1>7. StoreInv' /\ Moves
    <2>1. CASE Store(t, p, NewContent(c)) /\ (kind[t] = "table" => tableThere[t])
      BY <1>1, <1>2, <1>4, <2>1, StoreMoves
    <2>2. CASE UNCHANGED <<doc, issued>>
      BY <1>1, <1>2, <2>2, StaysPut DEF service
    <2> QED  BY <1>5, <2>1, <2>2
  <1>8. TypeInv'  BY <1>1, <1>2, <1>3, <1>6 DEF TypeInv
  <1> QED  BY <1>7, <1>8

\* The table is asked for.
LEMMA TableTypes ==
    ASSUME TypeInv, StoreInv,
           \/ \E c \in Callers : EnsureTable(c)
           \/ \E t \in Targets : TableIsThere(t) \/ TableRefused(t)
    PROVE  TypeInv' /\ StoreInv' /\ Moves
  <1>1. /\ kind' = kind /\ UNCHANGED <<doc, issued, listing, calls>>
        /\ troubles' = troubles \/ Trouble
    BY DEF EnsureTable, TableIsThere, TableRefused
  <1>2. troubles <= troubles' /\ troubles' \in 0..MaxTroubles
    <2>1. troubles \in 0..MaxTroubles /\ troubles \in Nat  BY TroubleTypes DEF TypeInv
    <2> QED  BY <1>1, <2>1, TroubleTypes
  <1>3. /\ tableThere' \in [Targets -> BOOLEAN]
        /\ ensured' \in [Targets -> {"unset", "asked", "ready"}]
        /\ \A t \in Targets : tableThere[t] => tableThere'[t]
        /\ \A t \in Targets : ensured'[t] = "ready" => tableThere'[t]
    <2>1. ASSUME NEW c \in Callers, EnsureTable(c)
          PROVE  /\ tableThere' = tableThere
                 /\ ensured' \in [Targets -> {"unset", "asked", "ready"}]
                 /\ \A t \in Targets : ensured'[t] = "ready" => ensured[t] = "ready"
      BY <2>1 DEF EnsureTable, TypeInv
    <2>2. ASSUME NEW t \in Targets, TableIsThere(t)
          PROVE  /\ tableThere' \in [Targets -> BOOLEAN]
                 /\ ensured' \in [Targets -> {"unset", "asked", "ready"}]
                 /\ \A u \in Targets : tableThere[u] => tableThere'[u]
                 /\ tableThere'[t] /\ \A u \in Targets : u # t => ensured'[u] = ensured[u]
      BY <2>2 DEF TableIsThere, TypeInv
    <2>3. ASSUME NEW t \in Targets, TableRefused(t)
          PROVE  /\ tableThere' = tableThere
                 /\ ensured' \in [Targets -> {"unset", "asked", "ready"}]
                 /\ \A u \in Targets : ensured'[u] = "ready" => ensured[u] = "ready"
      BY <2>3 DEF TableRefused, TypeInv, AfterRefusal
    <2>4. \A u \in Targets : ensured[u] = "ready" => tableThere[u]  BY DEF StoreInv
    <2>5. tableThere \in [Targets -> BOOLEAN]  BY DEF TypeInv
    <2>6. CASE \E c \in Callers : EnsureTable(c)  BY <2>1, <2>4, <2>5, <2>6
    <2>7. CASE \E t \in Targets : TableIsThere(t)  BY <2>2, <2>4, <2>5, <2>7
    <2>8. CASE \E t \in Targets : TableRefused(t)  BY <2>3, <2>4, <2>5, <2>8
    <2> QED  BY <2>6, <2>7, <2>8
  <1>4. call' \in [Callers -> CallsType]
    <2>1. call \in [Callers -> CallsType]  BY DEF TypeInv
    <2>2. ASSUME NEW c \in Callers, EnsureTable(c) PROVE call' \in [Callers -> CallsType]
      <3>1. Goto(c, "put") \/ Goto(c, "ensure")  BY <2>2 DEF EnsureTable
      <3> QED  BY <3>1, CallUpdates DEF Places
    <2>3. ASSUME NEW t \in Targets, TableIsThere(t) PROVE call' \in [Callers -> CallsType]
      <3>1. call' = [c \in Callers |-> IF c \in Waiting(t) THEN [call[c] EXCEPT !.pc = "put"]
                                       ELSE call[c]]
        BY <2>3 DEF TableIsThere
      <3>2. \A c \in Callers : [call[c] EXCEPT !.pc = "put"] \in CallsType  BY <2>1 DEF CallsType
      <3> QED  BY <2>1, <3>1, <3>2
    <2>4. ASSUME NEW t \in Targets, TableRefused(t) PROVE call' \in [Callers -> CallsType]
      <3>1. call' = [c \in Callers |-> IF c \in Waiting(t)
                                       THEN [call[c] EXCEPT !.pc = "idle", !.answer = "error"]
                                       ELSE call[c]]
        BY <2>4 DEF TableRefused
      <3>2. \A c \in Callers : [call[c] EXCEPT !.pc = "idle", !.answer = "error"] \in CallsType
        BY <2>1 DEF CallsType
      <3> QED  BY <2>1, <3>1, <3>2
    <2> QED  BY <2>2, <2>3, <2>4
  <1>5. TypeInv'  BY <1>1, <1>2, <1>3, <1>4 DEF TypeInv
  <1>6. StoreInv'
    BY <1>1, <1>3 DEF StoreInv, TypeInv
  <1>7. \A t \in Targets : issued[t] <= issued[t]  BY DEF TypeInv
  <1>8. Moves  BY <1>1, <1>2, <1>3, <1>7 DEF Moves, Moved
  <1> QED  BY <1>5, <1>6, <1>8

LEMMA ByHandTypes ==
    ASSUME TypeInv, StoreInv, NEW t \in Targets, NEW p \in Paths, ByHand(t, p)
    PROVE  TypeInv' /\ StoreInv' /\ Moves
  <1>1. kind' = kind /\ UNCHANGED <<tableThere, ensured, call, calls>> /\ kind[t] = "graph" /\ Trouble
    BY DEF ByHand
  <1>2. troubles' > troubles /\ troubles <= troubles' /\ troubles' \in 0..MaxTroubles
    BY <1>1, TroubleTypes DEF Trouble
  <1>3. CASE Store(t, p, Append(doc[t][p].content, "hand")) /\ UNCHANGED listing
    <2>1. doc[t][p].content \in Text  BY DEF TypeInv, Entries
    <2>2. Append(doc[t][p].content, "hand") \in Text  BY <2>1, AppendProperties DEF Text
    <2>3. StoreInv' /\ Moves  BY <1>1, <1>2, <1>3, <2>2, StoreMoves
    <2>4. doc' \in [Targets -> [Paths -> Entries]] /\ issued' \in [Targets -> Nat]
      BY <1>3, <2>2, StoredEntry
    <2> QED  BY <1>1, <1>2, <1>3, <2>3, <2>4 DEF TypeInv
  <1>4. CASE /\ doc' = [doc EXCEPT ![t][p] = NoEntry] /\ UNCHANGED issued
             /\ listing' = [l \in Listers |-> [listing[l] EXCEPT
                                !.stable = IF t = DefaultTarget THEN @ \ {p} ELSE @]]
    <2>1. StoreInv' /\ Moves /\ doc' \in [Targets -> [Paths -> Entries]]
      BY <1>1, <1>2, <1>4, DeleteMoves
    <2>2. listing' \in [Listers -> ListsType]
      <3>1. ASSUME NEW l \in Listers
            PROVE  [listing[l] EXCEPT !.stable = IF t = DefaultTarget THEN @ \ {p} ELSE @] \in ListsType
        <4>1. listing[l] \in ListsType  BY DEF TypeInv
        <4> QED  BY <4>1 DEF ListsType
      <3> QED  BY <1>4, <3>1
    <2> QED  BY <1>1, <1>2, <1>4, <2>1, <2>2 DEF TypeInv
  <1> QED  BY <1>3, <1>4 DEF ByHand

LEMMA CrashTypes ==
    ASSUME TypeInv, StoreInv, Crash
    PROVE  TypeInv' /\ StoreInv' /\ Moves
  <1>1. kind' = kind /\ UNCHANGED <<issued, tableThere, calls>> /\ Trouble
        /\ ensured' = [t \in Targets |-> "unset"] /\ listing' = [l \in Listers |-> AtRest]
    BY DEF Crash
  <1>2. troubles' > troubles /\ troubles <= troubles' /\ troubles' \in 0..MaxTroubles
    BY <1>1, TroubleTypes DEF Trouble
  <1>3. call' \in [Callers -> CallsType]
    <2>1. call' = [c \in Callers |-> IF call[c].pc = "idle" THEN call[c]
                                     ELSE [call[c] EXCEPT !.pc = "idle", !.answer = "error"]]
      BY DEF Crash
    <2>2. ASSUME NEW c \in Callers PROVE [call[c] EXCEPT !.pc = "idle", !.answer = "error"] \in CallsType
      BY CallFields DEF CallsType
    <2> QED  BY <2>1, <2>2 DEF TypeInv
  <1>4. StoreInv' /\ Moves /\ doc' \in [Targets -> [Paths -> Entries]]
    <2>1. CASE UNCHANGED doc
      <3>1. \A t \in Targets : issued[t] <= issued[t]  BY DEF TypeInv
      <3>2. StoreInv'  BY <1>1, <2>1 DEF StoreInv
      <3> QED  BY <1>1, <1>2, <2>1, <3>1, <3>2 DEF Moves, Moved, TypeInv
    <2>2. ASSUME NEW c \in Callers, At(c, "write", {"file"}), Matches(c),
                 doc' = [doc EXCEPT ![call[c].target][call[c].path] = NoEntry]
          PROVE  StoreInv' /\ Moves /\ doc' \in [Targets -> [Paths -> Entries]]
      <3>1. call[c].target \in Targets /\ call[c].path \in Paths  BY CallFields
      <3>2. kind[call[c].target] = "file"  BY <2>2 DEF At
      <3> QED  BY <1>1, <1>2, <2>2, <3>1, <3>2, DeleteMoves
    <2> QED  BY <2>1, <2>2 DEF Crash
  <1>5. listing' \in [Listers -> ListsType]  BY <1>1, RestTypes
  <1>6. TypeInv'  BY <1>1, <1>2, <1>3, <1>4, <1>5 DEF TypeInv
  <1> QED  BY <1>4, <1>6

LEMMA StoreStep ==
    ASSUME TypeInv, StoreInv, [Next]_vars
    PROVE  TypeInv' /\ StoreInv' /\ Moves
  <1>1. troubles \in Nat /\ troubles <= troubles  BY TroubleTypes
  <1>2. CASE UNCHANGED vars
    <2>1. UNCHANGED <<kind, service, call, listing, calls, troubles>>  BY <1>2 DEF vars
    <2>2. TypeInv'  BY <2>1 DEF TypeInv, service
    <2> QED  BY <1>1, <2>1, <2>2, StaysPut
  <1>3. ASSUME NEW c \in Callers, Step(c) PROVE TypeInv' /\ StoreInv' /\ Moves
    <2>1. CASE \/ Begin(c) \/ Again(c) \/ ReadEntry(c) \/ ReadItem(c) \/ ReadContent(c) \/ FetchCurrent(c)
               \/ ReadBack(c) \/ RequestFails(c)
      BY <2>1, ReadTypes
    <2>2. CASE WriteFile(c) \/ PutEntity(c) \/ PutContent(c)  BY <2>2, WriteTypes
    <2>3. CASE EnsureTable(c)  BY <2>3, TableTypes
    <2> QED  BY <1>3, <2>1, <2>2, <2>3 DEF Step
  <1>4. ASSUME NEW l \in Listers, List(l) PROVE TypeInv' /\ StoreInv' /\ Moves
    <2>1. UNCHANGED <<kind, service, call, troubles>>
      BY <1>4 DEF List, BeginList, ListFiles, ListEntities, ListChildren
    <2>2. listing' \in [Listers -> ListsType] /\ calls' \in 0..MaxCalls  BY <1>4, ListTypes
    <2>3. TypeInv'  BY <2>1, <2>2 DEF TypeInv, service
    <2> QED  BY <1>1, <2>1, <2>3, StaysPut
  <1>5. ASSUME NEW t \in Targets, TableIsThere(t) \/ TableRefused(t)
        PROVE  TypeInv' /\ StoreInv' /\ Moves
    BY <1>5, TableTypes
  <1>6. ASSUME NEW t \in Targets, NEW p \in Paths, ByHand(t, p)
        PROVE  TypeInv' /\ StoreInv' /\ Moves
    BY <1>6, ByHandTypes
  <1>7. CASE Crash  BY <1>7, CrashTypes
  <1> QED  BY <1>2, <1>3, <1>4, <1>5, <1>6, <1>7 DEF Next
-----------------------------------------------------------------------------
(* The calls. *)

\* While a call keeps what it was made of, what it knows of the stores holds.
LEMMA BasisKept ==
    ASSUME TypeInv, StoreInv, TypeInv', StoreInv', Moves, NEW c \in Callers, Basis(c),
           call'[c].target = call[c].target, call'[c].path = call[c].path,
           call'[c].seen = call[c].seen, call'[c].conditional = call[c].conditional,
           call'[c].since = call[c].since
    PROVE  /\ Basis(c)'
           /\ /\ kind[call[c].target] # "file" /\ Doc(c).etag # call[c].seen.etag
              /\ call[c].conditional
              => Doc(c)'.etag # call[c].seen.etag
           /\ /\ kind[call[c].target] = "graph" /\ There(Doc(c)) /\ ~There(Doc(c)')
              => troubles' > troubles
  <1> DEFINE t == call[c].target
             p == call[c].path
             e == doc[t][p]
             f == doc'[t][p]
             s == call[c].seen
  <1>1. /\ t \in Targets /\ p \in Paths /\ s \in Entries /\ s.etag[1] \in Nat /\ call[c].since \in Nat
        /\ call[c].conditional \in BOOLEAN /\ kind[t] \in Kinds
    BY CallFields
  <1>2. e \in Entries /\ f \in Entries /\ issued[t] \in Nat /\ issued'[t] \in Nat
        /\ troubles \in Nat /\ troubles' \in Nat
    <2>1. doc[t][p] \in Entries /\ issued[t] \in Nat  BY <1>1 DEF TypeInv
    <2>2. doc'[t][p] \in Entries /\ issued'[t] \in Nat  BY <1>1 DEF TypeInv
    <2>3. troubles \in 0..MaxTroubles /\ troubles' \in 0..MaxTroubles  BY DEF TypeInv
    <2> QED  BY <2>1, <2>2, <2>3, Bounds
  <1>3. Formed(kind[t], e) /\ Formed(kind[t], f) /\ kind' = kind
    BY <1>1 DEF StoreInv, Moves
  <1>4. Doc(c) = e /\ Doc(c)' = f  BY <1>1 DEF Doc
  <1>5. Moved(t, p) /\ issued[t] <= issued'[t] /\ troubles <= troubles'  BY <1>1 DEF Moves
  <1>6. /\ call[c].since <= troubles /\ (call[c].conditional => There(s)) /\ s.etag[1] <= issued[t]
        /\ (s.etag = EmptyEtag => kind[t] = "table")
        /\ (kind[t] = "file" => Formed("file", s))
        /\ (There(s) /\ s.etag = e.etag => s.content = e.content)
    BY <1>4 DEF Basis, Blind
  <1>7. call[c].since <= troubles' /\ s.etag[1] <= issued'[t]
    BY <1>1, <1>2, <1>5, <1>6
  <1>8. ~There(NoEntry) /\ NoEntry.etag = NoEtag  BY DEF There, NoEntry
  <1>9. ASSUME There(s), s.etag = f.etag PROVE s.content = f.content
    <2>1. There(f)  BY <1>9 DEF There
    <2>2. CASE kind[t] = "file"
      <3>1. s # NoEntry /\ f # NoEntry  BY <1>8, <1>9, <2>1
      <3>2. s.etag[2] = s.content  BY <1>6, <2>2, <3>1 DEF Formed
      <3>3. f.etag[2] = f.content  BY <1>3, <2>2, <3>1 DEF Formed
      <3> QED  BY <1>9, <3>2, <3>3
    <2>3. CASE f = e  BY <1>6, <1>9, <2>3
    <2>4. CASE kind[t] # "file" /\ f.etag[1] > issued[t]
      BY <1>1, <1>2, <1>6, <1>9, <2>4
    <2> QED  BY <1>5, <1>8, <2>1, <2>2, <2>3, <2>4 DEF Moved
  <1>10. Basis(c)'  BY <1>3, <1>4, <1>6, <1>7, <1>9 DEF Basis, Blind
  <1>11. ASSUME kind[t] # "file", e.etag # s.etag, call[c].conditional PROVE f.etag # s.etag
    <2>1. CASE f = e  BY <1>11, <2>1
    <2>2. CASE f = NoEntry  BY <1>6, <1>8, <1>11, <2>2 DEF There
    <2>3. CASE f.etag[1] > issued[t]  BY <1>1, <1>2, <1>6, <2>3
    <2> QED  BY <1>5, <1>11, <2>1, <2>2, <2>3 DEF Moved
  <1>12. ASSUME kind[t] = "graph", There(e), ~There(f) PROVE troubles' > troubles
    <2>1. f # e  BY <1>12
    <2> QED  BY <1>5, <1>12, <2>1 DEF Moved
  <1> QED  BY <1>4, <1>10, <1>11, <1>12

Settled == /\ TypeInv /\ StoreInv /\ TypeInv' /\ StoreInv' /\ Moves
           /\ \A c \in Callers : Basis(c) /\ Progress(c)

\* A call that did not move.
LEMMA CallStays ==
    ASSUME Settled, NEW c \in Callers, call'[c] = call[c]
    PROVE  Basis(c)' /\ Progress(c)'
  <1>1. /\ Basis(c)'
        /\ /\ kind[call[c].target] # "file" /\ Doc(c).etag # call[c].seen.etag
           /\ call[c].conditional
           => Doc(c)'.etag # call[c].seen.etag
        /\ /\ kind[call[c].target] = "graph" /\ There(Doc(c)) /\ ~There(Doc(c)')
           => troubles' > troubles
    BY BasisKept DEF Settled
  <1>2. Progress(c) /\ Basis(c) /\ kind' = kind /\ troubles <= troubles'
    BY DEF Settled, Moves
  <1>3. call[c].target \in Targets /\ call[c].since \in Nat /\ call[c].since <= troubles
    BY CallFields DEF Settled, Basis
  <1>4. tableThere[call[c].target] => tableThere'[call[c].target]  BY <1>3 DEF Settled, Moves
  <1>5. troubles \in Nat /\ troubles' \in Nat
    <2>1. troubles \in 0..MaxTroubles /\ troubles' \in 0..MaxTroubles  BY DEF Settled, TypeInv
    <2> QED  BY <2>1, Bounds
  <1>6. /\ call[c].pc \in {"content", "write"} \/ call[c].answer = "ok"
        /\ kind[call[c].target] = "graph" /\ There(call[c].seen) /\ ~There(Doc(c)')
        => troubles' > call[c].since
    <2>1. CASE There(Doc(c))  BY <1>1, <1>3, <1>5, <2>1
    <2>2. CASE ~There(Doc(c))  BY <1>2, <1>3, <1>5, <2>2 DEF Progress
    <2> QED  BY <2>1, <2>2
  <1> QED  BY <1>1, <1>2, <1>4, <1>6 DEF Progress, Blind

\* A call that failed.
LEMMA CallEnds ==
    ASSUME Settled, NEW c \in Callers,
           call'[c] = [call[c] EXCEPT !.pc = "idle", !.answer = "error"]
    PROVE  Basis(c)' /\ Progress(c)' /\ call'[c].pc = "idle" /\ call'[c].answer = "error"
  <1>1. call[c] \in CallsType  BY CallFields DEF Settled
  <1>2. /\ call'[c].target = call[c].target /\ call'[c].path = call[c].path
        /\ call'[c].seen = call[c].seen /\ call'[c].conditional = call[c].conditional
        /\ call'[c].since = call[c].since /\ call'[c].pc = "idle" /\ call'[c].answer = "error"
    BY <1>1 DEF CallsType
  <1>3. Basis(c)'  BY <1>2, BasisKept DEF Settled
  <1> QED  BY <1>2, <1>3 DEF Progress

\* A call whose write was accepted has the entry it stored.
LEMMA CallAccepts ==
    ASSUME Settled, NEW c \in Callers, call[c].pc # "idle", Accept(c),
           Store(call[c].target, call[c].path, NewContent(c))
    PROVE  Basis(c)' /\ Progress(c)' /\ call'[c].answer = "ok"
  <1> DEFINE t == call[c].target
             p == call[c].path
             e == NextEntry(t, p, NewContent(c))
  <1>1. call[c] \in CallsType /\ call \in [Callers -> CallsType] /\ t \in Targets /\ p \in Paths
        /\ NewContent(c) \in Text /\ call[c].since \in Nat
    BY CallFields DEF Settled, TypeInv
  <1>2. /\ doc'[t][p] = e /\ There(e) /\ Formed(kind[t], e) /\ e.etag[1] # 0
        /\ e.etag[1] <= issued'[t]
    BY <1>1, StoredEntry DEF Settled
  <1>3. call' = [call EXCEPT ![c].pc = "idle", ![c].answer = "ok", ![c].seen = e]  BY DEF Accept
  <1> HIDE DEF e
  <1>4. /\ call'[c].target = t /\ call'[c].path = p /\ call'[c].seen = e
        /\ call'[c].conditional = call[c].conditional /\ call'[c].since = call[c].since
        /\ call'[c].pc = "idle" /\ call'[c].answer = "ok" /\ call'[c].current = call[c].current
    BY <1>1, <1>3 DEF CallsType
  <1>5. Doc(c)' = e /\ kind' = kind  BY <1>2, <1>4 DEF Doc, Settled, Moves
  <1>6. call[c].since <= troubles'
    <2>1. call[c].since <= troubles /\ troubles <= troubles'  BY DEF Settled, Basis, Moves
    <2>2. troubles \in Nat /\ troubles' \in Nat
      <3>1. troubles \in 0..MaxTroubles /\ troubles' \in 0..MaxTroubles  BY DEF Settled, TypeInv
      <3> QED  BY <3>1, Bounds
    <2> QED  BY <1>1, <2>1, <2>2
  <1>7. e.etag # EmptyEtag  BY <1>2, Etags
  <1>8. Basis(c)'  BY <1>2, <1>4, <1>5, <1>6, <1>7 DEF Basis
  <1>9. call[c].current = NoEntry  BY DEF Settled, Progress
  <1> QED  BY <1>2, <1>4, <1>5, <1>8, <1>9 DEF Progress

\* A call that was told of a conflict, and of an entry it had not read.
LEMMA CallConflicts ==
    ASSUME Settled, NEW c \in Callers, NEW e \in Entries,
           There(e) => e.etag # call[c].seen.etag \/ Blind(c),
           call'[c] = [call[c] EXCEPT !.pc = "idle", !.answer = "conflict", !.current = e]
    PROVE  Basis(c)' /\ Progress(c)' /\ call'[c].pc = "idle" /\ call'[c].answer = "conflict"
  <1>1. call[c] \in CallsType  BY CallFields DEF Settled
  <1>2. /\ call'[c].target = call[c].target /\ call'[c].path = call[c].path
        /\ call'[c].seen = call[c].seen /\ call'[c].conditional = call[c].conditional
        /\ call'[c].since = call[c].since /\ call'[c].pc = "idle" /\ call'[c].answer = "conflict"
        /\ call'[c].current = e
    BY <1>1 DEF CallsType
  <1>3. Basis(c)' /\ kind' = kind  BY <1>2, BasisKept DEF Settled, Moves
  <1> QED  BY <1>2, <1>3 DEF Progress, Blind

\* A call on its way to the service: the table is there when it puts, and its
\* ETag is a lost one when it asks what the entry is now.
LEMMA CallGoes ==
    ASSUME Settled, NEW c \in Callers, NEW where \in {"ensure", "put", "current"},
           call[c].pc # "idle",
           call'[c] = [call[c] EXCEPT !.pc = where],
           where = "put" => tableThere'[call[c].target],
           where = "current" => /\ kind[call[c].target] # "file" /\ call[c].conditional
                                /\ Doc(c).etag # call[c].seen.etag
    PROVE  Basis(c)' /\ Progress(c)' /\ call'[c].answer = "pending"
  <1>1. call[c] \in CallsType  BY CallFields DEF Settled
  <1>2. /\ call'[c].target = call[c].target /\ call'[c].path = call[c].path
        /\ call'[c].seen = call[c].seen /\ call'[c].conditional = call[c].conditional
        /\ call'[c].since = call[c].since /\ call'[c].pc = where
        /\ call'[c].answer = call[c].answer /\ call'[c].current = call[c].current
    BY <1>1 DEF CallsType
  <1>3. /\ Basis(c)'
        /\ /\ kind[call[c].target] # "file" /\ Doc(c).etag # call[c].seen.etag
           /\ call[c].conditional
           => Doc(c)'.etag # call[c].seen.etag
    BY <1>2, BasisKept DEF Settled
  <1>4. Progress(c) /\ kind' = kind  BY DEF Settled, Moves
  <1>5. call[c].answer = "pending" /\ call[c].current = NoEntry  BY <1>4 DEF Progress
  <1> QED  BY <1>2, <1>3, <1>4, <1>5 DEF Progress

\* A call that has read: an entry, nothing, or the item and then the content.
LEMMA CallReads ==
    ASSUME Settled, NEW c \in Callers, UNCHANGED <<kind, service, troubles>>,
           NEW where \in {"content", "write"}, NEW s \in Entries, NEW if \in BOOLEAN,
           call[c].pc # "idle", if => There(s),
           call'[c] = [call[c] EXCEPT !.pc = where, !.seen = s, !.conditional = if],
           \/ s = Doc(c) \/ s = NoEntry
           \/ kind[call[c].target] = "table" /\ There(Doc(c)) /\ s.etag = EmptyEtag
           \/ /\ kind[call[c].target] = "graph" /\ There(Doc(c))
              /\ s = ItemThenContent(Doc(c), call[c].seen)
    PROVE  Basis(c)' /\ Progress(c)' /\ call'[c].pc # "idle" /\ call'[c].answer = "pending"
  <1>1. call[c] \in CallsType /\ Doc(c) \in Entries /\ call[c].target \in Targets
        /\ call[c].path \in Paths /\ call[c].seen \in Entries
    BY CallFields DEF Settled
  <1>2. /\ call'[c].target = call[c].target /\ call'[c].path = call[c].path
        /\ call'[c].seen = s /\ call'[c].conditional = if
        /\ call'[c].since = call[c].since /\ call'[c].pc = where
        /\ call'[c].answer = call[c].answer /\ call'[c].current = call[c].current
    BY <1>1 DEF CallsType
  <1>3. Doc(c)' = Doc(c) /\ issued' = issued /\ kind' = kind /\ troubles' = troubles
    BY <1>2 DEF Doc, service
  <1>4. Basis(c) /\ Progress(c)  BY DEF Settled
  <1>5. Formed(kind[call[c].target], Doc(c)) /\ Doc(c).etag[1] <= issued[call[c].target]
        /\ issued[call[c].target] \in Nat
    BY <1>1 DEF Settled, StoreInv, Doc, TypeInv
  <1>6. /\ s.etag[1] <= issued[call[c].target]
        /\ kind[call[c].target] = "file" => Formed("file", s)
        /\ s.etag = EmptyEtag => kind[call[c].target] = "table"
        /\ There(s) /\ s.etag = Doc(c).etag => s.content = Doc(c).content
        /\ There(s) => There(Doc(c))
    <2>1. CASE s = Doc(c)  BY <1>5, <2>1, Etags
    <2>2. CASE s = NoEntry
      <3>1. NoEntry.etag[1] = 0 /\ ~There(NoEntry) /\ NoEntry.etag # EmptyEtag
        BY EntryTypes, Etags DEF NoEntry
      <3> QED  BY <1>5, <2>2, <3>1 DEF Formed
    <2>4. CASE kind[call[c].target] = "table" /\ There(Doc(c)) /\ s.etag = EmptyEtag
      BY <1>5, <2>4, Etags
    <2>3. CASE /\ kind[call[c].target] = "graph" /\ There(Doc(c))
               /\ s = ItemThenContent(Doc(c), call[c].seen)
      <3>1. s.etag = call[c].seen.etag /\ s.content = Doc(c).content
        BY <2>3 DEF ItemThenContent
      <3> QED  BY <1>4, <2>3, <3>1 DEF Basis, Blind
    <2> QED  BY <2>1, <2>2, <2>3, <2>4
  <1>7. Basis(c)'  BY <1>2, <1>3, <1>4, <1>6 DEF Basis, Blind
  <1>8. call[c].answer = "pending" /\ call[c].current = NoEntry  BY <1>4 DEF Progress
  <1> QED  BY <1>2, <1>3, <1>6, <1>7, <1>8 DEF Progress

Compared(c) ==
    Accepted(c) /\ call[c].conditional => Doc(c).content = call[c].seen.content \/ Blind(c)
Excused(c) ==
    call[c].answer = "pending" /\ call'[c].answer = "error" =>
        troubles' > call[c].since \/ (call[c].pc = "put" /\ call[c].seen.etag = EmptyEtag)

LEMMA NoWrite ==
    ASSUME NEW c \in Callers, UNCHANGED doc, call'[c].path = call[c].path
    PROVE  Compared(c)
  BY DEF Compared, Accepted, Doc

LEMMA MatchingWrite ==
    ASSUME Settled, NEW c \in Callers, Matches(c)
    PROVE  Compared(c)
  BY DEF Settled, Basis, Matches, Compared

LEMMA Excuse ==
    ASSUME Settled, NEW c \in Callers, Trouble
    PROVE  Excused(c)
  <1>1. call[c].since <= troubles /\ call[c].since \in Nat  BY CallFields DEF Settled, Basis
  <1>2. troubles \in Nat /\ troubles' = troubles + 1  BY TroubleTypes DEF Settled, Trouble
  <1> QED  BY <1>1, <1>2 DEF Excused

LEMMA OwnReads ==
    ASSUME Settled, NEW c \in Callers,
           Begin(c) \/ Again(c) \/ ReadEntry(c) \/ ReadItem(c) \/ ReadContent(c)
    PROVE  Basis(c)' /\ Progress(c)' /\ Compared(c) /\ Excused(c)
  <1>1. call[c] \in CallsType /\ call \in [Callers -> CallsType] /\ Doc(c) \in Entries
        /\ call[c].seen \in Entries /\ call[c].conditional \in BOOLEAN
    BY CallFields DEF Settled, TypeInv
  <1>2. CASE Begin(c)
    <2>1. /\ call'[c].seen = NoEntry /\ call'[c].current = NoEntry /\ ~call'[c].conditional
          /\ \/ call'[c].pc = "idle" /\ call'[c].answer = "unknown target" /\ call'[c].since = 0
             \/ call'[c].pc \in {"read", "write"} /\ call'[c].answer = "pending"
                /\ call'[c].since = troubles
      BY <1>2, BeginTypes DEF Settled
    <2>2. call[c].pc = "idle" /\ troubles' = troubles  BY <1>2 DEF Begin
    <2>3. troubles \in Nat  BY TroubleTypes DEF Settled
    <2>4. NoEntry.etag[1] = 0 /\ ~There(NoEntry) /\ NoEntry.etag # EmptyEtag
      BY EntryTypes, Etags DEF NoEntry
    <2>5. call'[c].target \in Targets /\ issued' \in [Targets -> Nat]
      <3>1. call'[c] \in CallsType  BY DEF Settled, TypeInv
      <3>2. call'[c].target \in Targets  BY <3>1 DEF CallsType
      <3> QED  BY <3>2 DEF Settled, TypeInv
    <2>6. issued'[call'[c].target] \in Nat  BY <2>5
    <2>7. Basis(c)'
      <3>1. call'[c].since <= troubles' /\ call'[c].seen.etag[1] <= issued'[call'[c].target]
        <4>1. call'[c].since \in {0, troubles}  BY <2>1
        <4>2. call'[c].seen.etag[1] = 0  BY <2>1, <2>4
        <4>3. 0 <= troubles /\ troubles <= troubles  BY <2>3
        <4>4. 0 <= issued'[call'[c].target]  BY <2>6
        <4> QED  BY <2>2, <4>1, <4>2, <4>3, <4>4
      <3> QED  BY <2>1, <2>4, <3>1 DEF Basis, Formed
    <2>8. Progress(c)'  BY <2>1, <2>4 DEF Progress
    <2>9. Compared(c) /\ Excused(c)  BY <2>1, <2>2 DEF Compared, Accepted, Excused
    <2> QED  BY <2>7, <2>8, <2>9
  <1>3. ASSUME ReadEntry(c) \/ ReadItem(c) \/ ReadContent(c)
        PROVE  Basis(c)' /\ Progress(c)' /\ Compared(c) /\ Excused(c)
    <2>1. UNCHANGED <<kind, service, troubles>> /\ call[c].pc \in {"read", "content"}
      BY <1>3 DEF ReadEntry, ReadItem, ReadContent, At
    <2>2. ASSUME NEW s \in Entries, WriteBack(c, s),
                 \/ s = Doc(c) \/ s = NoEntry
                 \/ kind[call[c].target] = "table" /\ There(Doc(c)) /\ s.etag = EmptyEtag
                 \/ /\ kind[call[c].target] = "graph" /\ There(Doc(c))
                    /\ s = ItemThenContent(Doc(c), call[c].seen)
          PROVE  Basis(c)' /\ Progress(c)' /\ call'[c].answer = "pending"
      <3>1. There(s) \in BOOLEAN  BY DEF There
      <3>2. call'[c] = [call[c] EXCEPT !.pc = "write", !.seen = s, !.conditional = There(s)]
        BY <1>1, <2>2 DEF WriteBack
      <3>3. PICK if \in BOOLEAN : if = There(s)  BY <3>1
      <3>4. call'[c] = [call[c] EXCEPT !.pc = "write", !.seen = s, !.conditional = if]
        BY <3>2, <3>3
      <3>5. call[c].pc # "idle" /\ (if => There(s))  BY <2>1, <3>3
      <3>6. CASE s = Doc(c)  BY <2>1, <3>4, <3>5, <3>6, CallReads
      <3>7. CASE s = NoEntry  BY <2>1, <3>4, <3>5, <3>7, CallReads
      <3>8. CASE /\ kind[call[c].target] = "graph" /\ There(Doc(c))
                 /\ s = ItemThenContent(Doc(c), call[c].seen)
        BY <2>1, <3>4, <3>5, <3>8, CallReads
      <3>9. CASE kind[call[c].target] = "table" /\ There(Doc(c)) /\ s.etag = EmptyEtag
        BY <2>1, <3>4, <3>5, <3>9, CallReads
      <3> QED  BY <2>2, <3>6, <3>7, <3>8, <3>9
    <2>3. Basis(c)' /\ Progress(c)' /\ call'[c].answer = "pending"
      <3>1. CASE ReadEntry(c)
        <4>1. WriteBack(c, AsRead(call[c].target, Doc(c)))  BY <3>1 DEF ReadEntry
        <4> QED  BY <1>1, <2>2, <4>1, AsReadIs
      <3>2. CASE ReadItem(c)
        <4>1. CASE There(Doc(c))
          <5>1. call' = [call EXCEPT ![c].pc = "content", ![c].seen = Doc(c)]
            BY <3>2, <4>1 DEF ReadItem
          <5>2. call'[c] = [call[c] EXCEPT !.pc = "content", !.seen = Doc(c),
                                           !.conditional = call[c].conditional]
            BY <1>1, <5>1 DEF CallsType
          <5> QED  BY <1>1, <2>1, <4>1, <5>2, CallReads
        <4>2. CASE ~There(Doc(c))  BY <2>2, <3>2, <4>2, EntryTypes DEF ReadItem
        <4> QED  BY <4>1, <4>2
      <3>3. CASE ReadContent(c)
        <4>1. ItemThenContent(Doc(c), call[c].seen) \in Entries
          BY <1>1 DEF ItemThenContent, Entries
        <4>2. kind[call[c].target] = "graph"  BY <3>3 DEF ReadContent, At
        <4>3. CASE There(Doc(c))
          <5>1. WriteBack(c, ItemThenContent(Doc(c), call[c].seen))  BY <3>3, <4>3 DEF ReadContent
          <5> QED  BY <2>2, <4>1, <4>2, <4>3, <5>1
        <4>4. CASE ~There(Doc(c))
          <5>1. WriteBack(c, NoEntry)  BY <3>3, <4>4 DEF ReadContent
          <5> QED  BY <2>2, <5>1, EntryTypes
        <4> QED  BY <4>3, <4>4
      <3> QED  BY <1>3, <3>1, <3>2, <3>3
    <2> QED  BY <2>1, <2>3 DEF Compared, Accepted, Excused
  <1>4. CASE Again(c)
    <2>1. call[c].pc = "idle" /\ call[c].answer = "ok" /\ UNCHANGED <<kind, service, troubles>>
      BY <1>4 DEF Again
    <2>2. call'[c] = [call[c] EXCEPT !.pc = "write", !.conditional = TRUE, !.answer = "pending"]
      BY <1>1, <1>4 DEF Again
    <2>3. /\ call'[c].target = call[c].target /\ call'[c].path = call[c].path
          /\ call'[c].seen = call[c].seen /\ call'[c].conditional = TRUE
          /\ call'[c].since = call[c].since /\ call'[c].pc = "write"
          /\ call'[c].answer = "pending" /\ call'[c].current = call[c].current
      BY <1>1, <2>2 DEF CallsType
    <2>4. Doc(c)' = Doc(c) /\ issued' = issued /\ kind' = kind /\ troubles' = troubles
      BY <2>1, <2>3 DEF Doc, service
    <2>5. Basis(c) /\ Progress(c)  BY DEF Settled
    <2>6. There(call[c].seen) /\ call[c].current = NoEntry  BY <2>1, <2>5 DEF Progress
    <2>7. Basis(c)'  BY <2>3, <2>4, <2>5, <2>6 DEF Basis, Blind
    <2>8. Progress(c)'  BY <2>1, <2>3, <2>4, <2>5, <2>6 DEF Progress
    <2> QED  BY <2>1, <2>3, <2>7, <2>8 DEF Compared, Accepted, Excused
  <1> QED  BY <1>2, <1>3, <1>4

LEMMA AnswerIs ==
    ASSUME Settled, NEW c \in Callers
    PROVE  /\ \A a : Answer(c, a) => call'[c] = [call[c] EXCEPT !.pc = "idle", !.answer = a]
           /\ \A where : Goto(c, where) => call'[c] = [call[c] EXCEPT !.pc = where]
           /\ Conflict(c) => call'[c] = [call[c] EXCEPT !.pc = "idle", !.answer = "conflict",
                                              !.current = AsRead(call[c].target, Doc(c))]
           /\ \A a : Answer(c, a) => call'[c].path = call[c].path
           /\ Conflict(c) => call'[c].path = call[c].path
  <1>1. call \in [Callers -> CallsType] /\ call[c] \in CallsType
    BY CallFields DEF Settled, TypeInv
  <1>2. ASSUME NEW a, Answer(c, a)
        PROVE  call'[c] = [call[c] EXCEPT !.pc = "idle", !.answer = a] /\ call'[c].path = call[c].path
    BY <1>1, <1>2 DEF Answer, CallsType
  <1>3. ASSUME NEW where, Goto(c, where) PROVE call'[c] = [call[c] EXCEPT !.pc = where]
    BY <1>1, <1>3 DEF Goto, CallsType
  <1>4. ASSUME Conflict(c)
        PROVE  /\ call'[c] = [call[c] EXCEPT !.pc = "idle", !.answer = "conflict",
                                              !.current = AsRead(call[c].target, Doc(c))]
               /\ call'[c].path = call[c].path
    BY <1>1, <1>4 DEF Conflict, Current, CallsType
  <1> QED  BY <1>2, <1>3, <1>4

LEMMA OwnWrites ==
    ASSUME Settled, NEW c \in Callers,
           \/ WriteFile(c) \/ EnsureTable(c) \/ PutEntity(c) \/ FetchCurrent(c)
           \/ PutContent(c) \/ ReadBack(c) \/ RequestFails(c)
    PROVE  Basis(c)' /\ Progress(c)' /\ Compared(c) /\ Excused(c)
  <1> DEFINE Goal == Basis(c)' /\ Progress(c)' /\ Compared(c) /\ Excused(c)
  <1>1. call[c] \in CallsType /\ Doc(c) \in Entries /\ call[c].target \in Targets
        /\ call[c].seen \in Entries /\ call[c].conditional \in BOOLEAN
    BY CallFields DEF Settled
  <1>2. Basis(c) /\ Progress(c) /\ kind' = kind /\ ~There(NoEntry)
    BY EntryTypes DEF Settled, Moves
  <1>3. tableThere[call[c].target] => tableThere'[call[c].target]  BY <1>1 DEF Settled, Moves
  <1>4. /\ Accept(c) /\ call[c].pc # "idle"
        /\ Store(call[c].target, call[c].path, NewContent(c))
        => Basis(c)' /\ Progress(c)' /\ Excused(c)
    BY CallAccepts DEF Excused
  <1>5. Answer(c, "error") => Basis(c)' /\ Progress(c)'
    BY AnswerIs, CallEnds
  <1>6. Conflict(c) /\ Doc(c).etag # call[c].seen.etag
          => Basis(c)' /\ Progress(c)' /\ Excused(c)
    <2> DEFINE e == AsRead(call[c].target, Doc(c))
    <2>1. e \in Entries /\ (e = Doc(c) \/ (kind[call[c].target] = "table" /\ e.etag = EmptyEtag))
      BY <1>1, AsReadIs
    <2>2. ASSUME Conflict(c)
          PROVE  call'[c] = [call[c] EXCEPT !.pc = "idle", !.answer = "conflict", !.current = e]
      BY <2>2, AnswerIs
    <2> HIDE DEF e
    <2>3. Doc(c).etag # call[c].seen.etag => e.etag # call[c].seen.etag \/ Blind(c)
      BY <2>1 DEF Blind
    <2> QED  BY <2>1, <2>2, <2>3, CallConflicts DEF Excused
  <1>7. ~Matches(c) => call[c].conditional /\ Doc(c).etag # call[c].seen.etag  BY DEF Matches
  <1>8. CASE WriteFile(c)
    <2>1. CASE Matches(c)  BY <1>4, <1>8, <2>1, MatchingWrite DEF WriteFile, At
    <2>2. CASE ~Matches(c)
      <3>1. Conflict(c) /\ UNCHANGED doc  BY <1>8, <2>2 DEF WriteFile
      <3> QED  BY <1>6, <1>7, <2>2, <3>1, AnswerIs, NoWrite
    <2> QED  BY <2>1, <2>2
  <1>9. CASE EnsureTable(c)
    <2>1. UNCHANGED doc /\ call[c].pc = "write"  BY <1>9 DEF EnsureTable, At
    <2>2. PICK where \in {"ensure", "put"} : Goto(c, where) /\ (where = "put" => ensured[call[c].target] = "ready")
      BY <1>9 DEF EnsureTable
    <2>3. where = "put" => tableThere'[call[c].target]
      BY <1>1, <1>3, <2>2 DEF Settled, StoreInv
    <2>4. call'[c] = [call[c] EXCEPT !.pc = where]  BY <2>2, AnswerIs
    <2>5. Basis(c)' /\ Progress(c)' /\ call'[c].answer = "pending"
      BY <2>1, <2>2, <2>3, <2>4, CallGoes
    <2>6. call'[c].path = call[c].path  BY <1>1, <2>4 DEF CallsType
    <2> QED  BY <2>1, <2>5, <2>6, NoWrite DEF Excused
  <1>10. ASSUME Goto(c, "current"), UNCHANGED doc, call[c].pc # "idle",
                kind[call[c].target] # "file", ~Matches(c)
         PROVE  Goal
    <2>1. call'[c] = [call[c] EXCEPT !.pc = "current"]  BY <1>10, AnswerIs
    <2>2. Basis(c)' /\ Progress(c)' /\ call'[c].answer = "pending"
      BY <1>7, <1>10, <2>1, CallGoes
    <2>3. call'[c].path = call[c].path  BY <1>1, <2>1 DEF CallsType
    <2> QED  BY <1>10, <2>2, <2>3, NoWrite DEF Excused
  <1>11. CASE PutEntity(c)
    <2>1. call[c].pc = "put" /\ kind[call[c].target] # "file"  BY <1>11 DEF PutEntity, At
    <2>2. tableThere[call[c].target]  BY <1>2, <2>1 DEF Progress
    <2>3. \/ /\ Matches(c) \/ EmptyIfMatch(c)
             /\ Store(call[c].target, call[c].path, NewContent(c))
             /\ Accept(c) \/ (Answer(c, "error") /\ Trouble)
          \/ ~Matches(c) /\ UNCHANGED doc /\ Goto(c, "current")
          \/ ~Matches(c) /\ UNCHANGED doc /\ Answer(c, "error")
             /\ (EmptyIfMatch(c) \/ ~call[c].conditional)
      BY <1>11, <2>2 DEF PutEntity
    <2>4. CASE /\ Matches(c) \/ EmptyIfMatch(c)
               /\ Store(call[c].target, call[c].path, NewContent(c))
               /\ Accept(c) \/ (Answer(c, "error") /\ Trouble)
      <3>1. EmptyIfMatch(c) => Compared(c)  BY <1>2 DEF EmptyIfMatch, Compared, Basis
      <3>2. Compared(c)  BY <2>4, <3>1, MatchingWrite
      <3> QED  BY <1>4, <1>5, <2>1, <2>4, <3>2, Excuse
    <2>5. CASE ~Matches(c) /\ UNCHANGED doc /\ Goto(c, "current")
      BY <1>10, <2>1, <2>5
    <2>6. CASE ~Matches(c) /\ UNCHANGED doc /\ Answer(c, "error")
               /\ (EmptyIfMatch(c) \/ ~call[c].conditional)
      <3>1. EmptyIfMatch(c)  BY <1>7, <2>6
      <3>2. Excused(c)  BY <2>1, <3>1 DEF Excused, EmptyIfMatch
      <3> QED  BY <1>5, <2>6, <3>2, AnswerIs, NoWrite
    <2> QED  BY <2>3, <2>4, <2>5, <2>6
  <1>12. CASE FetchCurrent(c)
    <2>1. Conflict(c) /\ UNCHANGED doc /\ call[c].pc = "current"
      BY <1>12 DEF FetchCurrent, At, service
    <2>2. Doc(c).etag # call[c].seen.etag  BY <1>2, <2>1 DEF Progress
    <2> QED  BY <1>6, <2>1, <2>2, AnswerIs, NoWrite
  <1>13. CASE PutContent(c)
    <2>1. call[c].pc = "write" /\ kind[call[c].target] = "graph"  BY <1>13 DEF PutContent, At
    <2>2. CASE Matches(c)
      <3>1. /\ Store(call[c].target, call[c].path, NewContent(c))
            /\ Accept(c) \/ (Answer(c, "error") /\ Trouble)
        BY <1>13, <2>2 DEF PutContent
      <3> QED  BY <1>4, <1>5, <2>1, <2>2, <3>1, MatchingWrite, Excuse
    <2>3. CASE ~Matches(c) /\ Goto(c, "current")
      <3>1. UNCHANGED doc  BY <1>13, <2>3 DEF PutContent
      <3> QED  BY <1>10, <2>1, <2>3, <3>1
    <2>4. CASE ~Matches(c) /\ ~There(Doc(c)) /\ Answer(c, "error")
      <3>1. UNCHANGED <<doc, troubles>>  BY <1>13, <2>4 DEF PutContent
      <3>2. There(call[c].seen)  BY <1>2, <1>7, <2>4 DEF Basis
      <3>3. troubles > call[c].since  BY <1>2, <2>1, <2>4, <3>2 DEF Progress
      <3> QED  BY <1>5, <2>4, <3>1, <3>3, AnswerIs, NoWrite DEF Excused
    <2> QED  BY <1>13, <2>2, <2>3, <2>4 DEF PutContent
  <1>14. CASE ReadBack(c)
    <2>1. call[c].pc = "current" /\ UNCHANGED doc  BY <1>14 DEF ReadBack, At, service
    <2>2. Doc(c).etag # call[c].seen.etag /\ call[c].current = NoEntry  BY <1>2, <2>1 DEF Progress
    <2>3. CASE Conflict(c)  BY <1>6, <2>1, <2>2, <2>3, AnswerIs, NoWrite
    <2>4. CASE call' = [call EXCEPT ![c].pc = "idle", ![c].answer = "conflict"]
      <3>1. call \in [Callers -> CallsType]  BY DEF Settled, TypeInv
      <3>2. call'[c] = [call[c] EXCEPT !.pc = "idle", !.answer = "conflict", !.current = NoEntry]
        BY <1>1, <2>2, <2>4, <3>1 DEF CallsType
      <3>3. Basis(c)' /\ Progress(c)' /\ call'[c].answer = "conflict"
        BY <1>2, <3>2, CallConflicts, EntryTypes
      <3>4. call'[c].path = call[c].path  BY <1>1, <3>2 DEF CallsType
      <3> QED  BY <2>1, <3>3, <3>4, NoWrite DEF Excused
    <2> QED  BY <1>14, <2>3, <2>4 DEF ReadBack
  <1>15. CASE RequestFails(c)
    <2>1. Answer(c, "error") /\ Trouble /\ UNCHANGED doc  BY <1>15 DEF RequestFails, service
    <2> QED  BY <1>5, <2>1, AnswerIs, NoWrite, Excuse
  <1> QED  BY <1>8, <1>9, <1>11, <1>12, <1>13, <1>14, <1>15

\* What a step does to a call that is not the one that takes it.
LEMMA OthersMove ==
    ASSUME Settled, NEW c \in Callers, NEW d \in Callers, Step(d), d # c
    PROVE  call'[c] = call[c]
  <1>1. call \in [Callers -> CallsType]  BY DEF Settled, TypeInv
  <1>2. CASE Begin(d)  BY <1>2, BeginTypes DEF Settled
  <1>3. CASE \/ \E a : Answer(d, a)
             \/ \E where : Goto(d, where)
             \/ \E e : WriteBack(d, e)
             \/ Conflict(d) \/ Accept(d) \/ Again(d)
             \/ call' = [call EXCEPT ![d].pc = "content", ![d].seen = Doc(d)]
             \/ call' = [call EXCEPT ![d].pc = "idle", ![d].answer = "conflict"]
    BY <1>1, <1>3 DEF Answer, Goto, WriteBack, Conflict, Accept, Again
  <1> QED  BY <1>2, <1>3 DEF Step, ReadEntry, ReadItem, ReadContent, WriteFile, EnsureTable,
             PutEntity, FetchCurrent, PutContent, ReadBack, RequestFails

LEMMA CallStep ==
    ASSUME Settled, [Next]_vars, NEW c \in Callers
    PROVE  Basis(c)' /\ Progress(c)' /\ Compared(c) /\ Excused(c)
  <1> DEFINE Goal == Basis(c)' /\ Progress(c)' /\ Compared(c) /\ Excused(c)
  <1>1. call \in [Callers -> CallsType] /\ call[c] \in CallsType  BY DEF Settled, TypeInv
  <1>2. ASSUME call'[c] = call[c] PROVE Goal
    <2>1. call[c].answer = "pending" /\ call[c].answer = "error" => FALSE  OBVIOUS
    <2>2. Compared(c)
      <3>1. call[c].pc \in {"write", "put"} => call[c].pc # "idle"  OBVIOUS
      <3> QED  BY <1>2, <3>1 DEF Compared, Accepted
    <2>3. Excused(c)  BY <1>2 DEF Excused
    <2> QED  BY <1>2, <2>2, <2>3, CallStays
  <1>3. ASSUME call'[c] = [call[c] EXCEPT !.pc = "idle", !.answer = "error"], Trouble,
               \A p : Doc(c)' # Doc(c) => ~There(Doc(c)')
        PROVE  Goal
    <2>1. Basis(c)' /\ Progress(c)'  BY <1>3, CallEnds
    <2>2. Compared(c)  BY <1>3 DEF Compared, Accepted
    <2> QED  BY <1>3, <2>1, <2>2, Excuse
  <1>4. CASE UNCHANGED vars  BY <1>2, <1>4 DEF vars
  <1>5. CASE Step(c)  BY <1>5, OwnReads, OwnWrites DEF Step
  <1>6. ASSUME NEW d \in Callers, Step(d), d # c PROVE Goal  BY <1>2, <1>6, OthersMove
  <1>7. ASSUME NEW l \in Listers, List(l) PROVE Goal
    <2>1. call' = call  BY <1>7 DEF List, BeginList, ListFiles, ListEntities, ListChildren
    <2> QED  BY <1>2, <2>1
  <1>8. ASSUME NEW t \in Targets, TableIsThere(t) PROVE Goal
    <2>1. CASE c \notin Waiting(t)
      <3>1. call'[c] = call[c]  BY <1>8, <2>1 DEF TableIsThere
      <3> QED  BY <1>2, <3>1
    <2>2. CASE c \in Waiting(t)
      <3>1. call'[c] = [call[c] EXCEPT !.pc = "put"]  BY <1>8, <2>2 DEF TableIsThere
      <3>2. call[c].pc = "ensure" /\ call[c].target = t  BY <2>2 DEF Waiting
      <3>3. tableThere'[t]  BY <1>8 DEF TableIsThere, Settled, TypeInv
      <3>4. Basis(c)' /\ Progress(c)' /\ call'[c].answer = "pending"
        BY <3>1, <3>2, <3>3, CallGoes
      <3>5. call'[c].pc = "put"  BY <1>1, <3>1 DEF CallsType
      <3> QED  BY <3>4, <3>5 DEF Compared, Accepted, Excused
    <2> QED  BY <2>1, <2>2
  <1>9. ASSUME NEW t \in Targets, TableRefused(t) PROVE Goal
    <2>1. CASE c \notin Waiting(t)
      <3>1. call'[c] = call[c]  BY <1>9, <2>1 DEF TableRefused
      <3> QED  BY <1>2, <3>1
    <2>2. CASE c \in Waiting(t)
      <3>1. call'[c] = [call[c] EXCEPT !.pc = "idle", !.answer = "error"] /\ Trouble
        BY <1>9, <2>2 DEF TableRefused
      <3>2. call[c].pc = "ensure"  BY <2>2 DEF Waiting
      <3>3. Basis(c)' /\ Progress(c)'  BY <3>1, CallEnds
      <3> QED  BY <3>1, <3>2, <3>3, Excuse DEF Compared, Accepted
    <2> QED  BY <2>1, <2>2
  <1>10. ASSUME NEW t \in Targets, NEW p \in Paths, ByHand(t, p) PROVE Goal
    BY <1>2, <1>10 DEF ByHand
  <1>11. CASE Crash
    <2>1. Trouble  BY <1>11 DEF Crash
    <2>2. call'[c] = IF call[c].pc = "idle" THEN call[c]
                     ELSE [call[c] EXCEPT !.pc = "idle", !.answer = "error"]
      BY <1>11 DEF Crash
    <2>3. CASE call[c].pc = "idle"  BY <1>2, <2>2, <2>3
    <2>4. CASE call[c].pc # "idle"
      <3>1. call'[c] = [call[c] EXCEPT !.pc = "idle", !.answer = "error"]  BY <2>2, <2>4
      <3>2. call'[c].target = call[c].target /\ call'[c].path = call[c].path
            /\ call[c].target \in Targets /\ call[c].path \in Paths
        BY <1>1, <3>1 DEF CallsType
      <3>3. \A t \in Targets, p \in Paths : doc'[t][p] \in {doc[t][p], NoEntry}
        <4>1. doc \in [Targets -> [Paths -> Entries]]  BY DEF Settled, TypeInv
        <4> QED  BY <1>11, <4>1 DEF Crash
      <3>4. Doc(c)' \in {Doc(c), NoEntry}  BY <3>2, <3>3 DEF Doc
      <3>5. ~There(NoEntry)  BY EntryTypes
      <3> QED  BY <1>3, <2>1, <3>1, <3>4, <3>5
    <2> QED  BY <2>3, <2>4
  <1> QED  BY <1>4, <1>5, <1>6, <1>7, <1>8, <1>9, <1>10, <1>11 DEF Next
-----------------------------------------------------------------------------
(* The lists. *)

\* A list whose entry is all the same is ahead of what it was.
LEMMA WalkStays ==
    ASSUME TypeInv, StoreInv, Moves, NEW l \in Listers, Walked(l), listing'[l] = listing[l],
           listing[l].pc = "list" => \A p \in listing[l].stable :
               There(doc[DefaultTarget][p]) => There(doc'[DefaultTarget][p])
    PROVE  Walked(l)'
  <1>1. kind' = kind  BY DEF Moves
  <1>2. listing[l].pc = "list" => listing[l].stable \subseteq Stored(DefaultTarget)'
    BY DEF Walked, Stored
  <1> QED  BY <1>1, <1>2 DEF Walked

LEMMA WalkSteps ==
    ASSUME TypeInv, StoreInv, Moves, NEW l \in Listers, Walked(l), List(l)
    PROVE  Walked(l)'
  <1>1. listing \in [Listers -> ListsType] /\ listing[l] \in ListsType  BY DEF TypeInv
  <1>2. UNCHANGED <<kind, doc>>
    BY DEF List, BeginList, ListFiles, ListEntities, ListChildren, service
  <1>3. Stored(DefaultTarget)' = Stored(DefaultTarget)  BY <1>2 DEF Stored
  <1>4. \A i \in DOMAIN Names : i \in Nat /\ i > 0 /\ Names[i] \in Paths
    <2>1. DOMAIN Names = 1..Len(Names) /\ Len(Names) \in Nat  BY NamesAndFolders
    <2>2. \A i \in 1..Len(Names) : i \in Nat /\ i > 0  BY <2>1
    <2> QED  BY <2>1, <2>2, NamesAndFolders
  <1>5. CASE BeginList(l)
    <2>1. listing'[l] = [AtRest EXCEPT !.pc = "list", !.todo = Folders \ {""},
                                       !.stable = Stored(DefaultTarget)]
      BY <1>1, <1>5 DEF BeginList
    <2>2. /\ listing'[l].pc = "list" /\ listing'[l].stable = Stored(DefaultTarget)
          /\ listing'[l].todo = Folders \ {""} /\ listing'[l].folder = "" /\ listing'[l].after = 0
      BY <2>1 DEF AtRest
    <2>3. \A i \in DOMAIN Names : FolderOf[Names[i]] \in Folders  BY <1>4, NamesAndFolders
    <2>4. \A i \in DOMAIN Names : \/ FolderOf[Names[i]] \in listing'[l].todo
                                  \/ FolderOf[Names[i]] = listing'[l].folder /\ i > listing'[l].after
      BY <1>4, <2>2, <2>3
    <2> QED  BY <1>3, <2>2, <2>4 DEF Walked
  <1>6. CASE ListFiles(l)
    <2>1. /\ listing'[l].pc = "done" /\ listing'[l].found = Stored(DefaultTarget)
          /\ listing'[l].stable = listing[l].stable /\ listing[l].pc = "list"
      BY <1>1, <1>6 DEF ListFiles, ListsType
    <2> QED  BY <2>1 DEF Walked
  <1>7. CASE ListEntities(l)
    <2> DEFINE all == {i \in DOMAIN Names : There(doc[DefaultTarget][Names[i]])}
               full == Page(all) # all
    <2>1. /\ listing' = [listing EXCEPT ![l].pc = "done", ![l].found = AsPaths(Page(all)),
                                        ![l].cut = full]
          /\ listing[l].pc = "list"
      BY <1>7 DEF ListEntities
    <2>2. Stored(DefaultTarget) \subseteq AsPaths(all)
      BY NamesAndFolders DEF Stored, AsPaths
    <2>3. full \in BOOLEAN /\ (~full => Page(all) = all)  OBVIOUS
    <2> HIDE DEF all, full
    <2>4. /\ listing'[l].pc = "done" /\ listing'[l].found = AsPaths(Page(all))
          /\ listing'[l].stable = listing[l].stable /\ listing'[l].cut = full
      BY <1>1, <2>1 DEF ListsType
    <2>5. listing[l].stable \subseteq Stored(DefaultTarget)  BY <2>1 DEF Walked
    <2> QED  BY <2>2, <2>3, <2>4, <2>5 DEF Walked
  <1>8. CASE ListChildren(l)
    <2> DEFINE here == Present(listing[l].folder, listing[l].after)
               page == Page(here)
               last == CHOOSE i \in page : \A j \in page : j <= i
    <2>1. listing[l].pc = "list" /\ kind[DefaultTarget] = "graph"  BY <1>8 DEF ListChildren
    <2>2. listing[l].stable \subseteq Stored(DefaultTarget)  BY <2>1 DEF Walked
    <2>3. \A i \in DOMAIN Names : Names[i] \in listing[l].stable =>
              \/ Names[i] \in listing[l].found
              \/ FolderOf[Names[i]] \in listing[l].todo
              \/ i \in here
      BY <2>1, <2>2, PresentTypes DEF Walked
    <2>4. here \subseteq DOMAIN Names /\ \A i \in here : FolderOf[Names[i]] = listing[l].folder
      BY DEF Present
    <2>5. /\ \/ /\ page # here
                /\ listing' = [listing EXCEPT ![l].found = @ \cup AsPaths(page), ![l].after = last]
             \/ /\ page = here
                /\ \E next \in listing[l].todo :
                      listing' = [listing EXCEPT ![l].found = @ \cup AsPaths(page),
                                      ![l].folder = next, ![l].after = 0, ![l].todo = @ \ {next}]
             \/ /\ page = here /\ listing[l].todo = {}
                /\ listing' = [listing EXCEPT ![l].found = @ \cup AsPaths(page), ![l].pc = "done"]
      BY <1>8 DEF ListChildren, More
    <2> HIDE DEF here
    <2>6. page \subseteq here /\ (page # here => \A i \in here \ page : i > last)
      BY <2>4, PageIsFirst
    <2> HIDE DEF page, last
    <2>7. \A i \in page : Names[i] \in AsPaths(page)  BY DEF AsPaths
    <2>8. CASE /\ page # here
               /\ listing' = [listing EXCEPT ![l].found = @ \cup AsPaths(page), ![l].after = last]
      <3>1. /\ listing'[l].pc = "list" /\ listing'[l].found = listing[l].found \cup AsPaths(page)
            /\ listing'[l].after = last /\ listing'[l].folder = listing[l].folder
            /\ listing'[l].todo = listing[l].todo /\ listing'[l].stable = listing[l].stable
        BY <1>1, <2>1, <2>8 DEF ListsType
      <3>2. \A i \in DOMAIN Names : Names[i] \in listing'[l].stable =>
                \/ Names[i] \in listing'[l].found
                \/ FolderOf[Names[i]] \in listing'[l].todo
                \/ FolderOf[Names[i]] = listing'[l].folder /\ i > listing'[l].after
        BY <2>3, <2>4, <2>6, <2>7, <2>8, <3>1
      <3> QED  BY <1>3, <2>2, <3>1, <3>2 DEF Walked
    <2>9. ASSUME NEW next \in listing[l].todo, page = here,
                 listing' = [listing EXCEPT ![l].found = @ \cup AsPaths(page),
                                 ![l].folder = next, ![l].after = 0, ![l].todo = @ \ {next}]
          PROVE  Walked(l)'
      <3>1. /\ listing'[l].pc = "list" /\ listing'[l].found = listing[l].found \cup AsPaths(page)
            /\ listing'[l].after = 0 /\ listing'[l].folder = next
            /\ listing'[l].todo = listing[l].todo \ {next} /\ listing'[l].stable = listing[l].stable
        BY <1>1, <2>1, <2>9 DEF ListsType
      <3>2. \A i \in DOMAIN Names : Names[i] \in listing'[l].stable =>
                \/ Names[i] \in listing'[l].found
                \/ FolderOf[Names[i]] \in listing'[l].todo
                \/ FolderOf[Names[i]] = listing'[l].folder /\ i > listing'[l].after
        BY <1>4, <2>3, <2>7, <2>9, <3>1
      <3> QED  BY <1>3, <2>2, <3>1, <3>2 DEF Walked
    <2>10. CASE /\ page = here /\ listing[l].todo = {}
                /\ listing' = [listing EXCEPT ![l].found = @ \cup AsPaths(page), ![l].pc = "done"]
      <3>1. /\ listing'[l].pc = "done" /\ listing'[l].found = listing[l].found \cup AsPaths(page)
            /\ listing'[l].stable = listing[l].stable
        BY <1>1, <2>10 DEF ListsType
      <3>2. listing[l].stable \subseteq Paths  BY <1>1 DEF ListsType
      <3>3. \A p \in listing[l].stable : \E i \in DOMAIN Names : p = Names[i]
        BY <3>2, NamesAndFolders
      <3>4. listing'[l].stable \subseteq listing'[l].found
        <4>1. ASSUME NEW p \in listing[l].stable PROVE p \in listing'[l].found
          <5>1. PICK i \in DOMAIN Names : p = Names[i]  BY <3>3
          <5>2. p \in listing[l].found \/ i \in here  BY <2>3, <2>10, <5>1
          <5> QED  BY <2>7, <2>10, <3>1, <5>1, <5>2
        <4> QED  BY <3>1, <4>1
      <3> QED  BY <3>1, <3>4 DEF Walked
    <2> QED  BY <2>5, <2>8, <2>9, <2>10
  <1> QED  BY <1>5, <1>6, <1>7, <1>8 DEF List

LEMMA WalkStep ==
    ASSUME TypeInv, StoreInv, Moves, [Next]_vars, \A l \in Listers : Walked(l), NEW l \in Listers
    PROVE  Walked(l)'
  <1>1. DefaultTarget \in Targets  BY TargetsAssumption
  <1>2. listing \in [Listers -> ListsType] /\ listing[l] \in ListsType  BY DEF TypeInv
  <1>3. ASSUME listing'[l] = listing[l], UNCHANGED doc PROVE Walked(l)'
    BY <1>3, WalkStays
  <1>4. ASSUME NEW c \in Callers, Step(c) PROVE Walked(l)'
    <2>1. listing' = listing
      BY <1>4 DEF Step, Begin, Again, ReadEntry, ReadItem, ReadContent, WriteFile, EnsureTable,
                  PutEntity, FetchCurrent, PutContent, ReadBack, RequestFails
    <2>2. UNCHANGED doc \/ Store(call[c].target, call[c].path, NewContent(c))
      BY <1>4 DEF Step, Begin, Again, ReadEntry, ReadItem, ReadContent, WriteFile, EnsureTable,
                  PutEntity, FetchCurrent, PutContent, ReadBack, RequestFails, service
    <2>3. CASE UNCHANGED doc  BY <1>3, <2>1, <2>3
    <2>4. CASE Store(call[c].target, call[c].path, NewContent(c))
      <3> DEFINE t == call[c].target
                 p == call[c].path
      <3>1. t \in Targets /\ p \in Paths /\ NewContent(c) \in Text  BY CallFields
      <3>2. /\ There(doc'[t][p]) /\ \A u \in Targets : u # t => doc'[u] = doc[u]
            /\ \A q \in Paths : q # p => doc'[t][q] = doc[t][q]
        BY <2>4, <3>1, StoredEntry
      <3>3. \A q \in Paths : There(doc[DefaultTarget][q]) => There(doc'[DefaultTarget][q])
        BY <1>1, <3>2
      <3>4. listing[l].stable \subseteq Paths  BY <1>2 DEF ListsType
      <3> QED  BY <2>1, <3>3, <3>4, WalkStays
    <2> QED  BY <2>2, <2>3, <2>4
  <1>5. ASSUME NEW k \in Listers, List(k) PROVE Walked(l)'
    <2>1. CASE k = l  BY <1>5, <2>1, WalkSteps
    <2>2. CASE k # l
      <3>1. listing'[l] = listing[l] /\ UNCHANGED doc
        BY <1>2, <1>5, <2>2 DEF List, BeginList, ListFiles, ListEntities, ListChildren, service
      <3> QED  BY <1>3, <3>1
    <2> QED  BY <2>1, <2>2
  <1>6. ASSUME NEW t \in Targets, TableIsThere(t) \/ TableRefused(t) PROVE Walked(l)'
    BY <1>3, <1>6 DEF TableIsThere, TableRefused
  <1>7. ASSUME NEW t \in Targets, NEW p \in Paths, ByHand(t, p) PROVE Walked(l)'
    <2>1. CASE Store(t, p, Append(doc[t][p].content, "hand")) /\ UNCHANGED listing
      <3>1. doc[t][p].content \in Text  BY DEF TypeInv, Entries
      <3>2. Append(doc[t][p].content, "hand") \in Text  BY <3>1, AppendProperties DEF Text
      <3>3. /\ There(doc'[t][p]) /\ \A u \in Targets : u # t => doc'[u] = doc[u]
            /\ \A q \in Paths : q # p => doc'[t][q] = doc[t][q]
        BY <2>1, <3>2, StoredEntry
      <3>4. \A q \in Paths : There(doc[DefaultTarget][q]) => There(doc'[DefaultTarget][q])
        BY <1>1, <3>3
      <3>5. listing[l].stable \subseteq Paths  BY <1>2 DEF ListsType
      <3> QED  BY <2>1, <3>4, <3>5, WalkStays
    <2>2. CASE /\ doc' = [doc EXCEPT ![t][p] = NoEntry]
               /\ listing' = [k \in Listers |-> [listing[k] EXCEPT
                                 !.stable = IF t = DefaultTarget THEN @ \ {p} ELSE @]]
      <3>1. /\ listing'[l].pc = listing[l].pc /\ listing'[l].found = listing[l].found
            /\ listing'[l].todo = listing[l].todo /\ listing'[l].folder = listing[l].folder
            /\ listing'[l].after = listing[l].after /\ listing'[l].cut = listing[l].cut
            /\ listing'[l].stable = IF t = DefaultTarget THEN listing[l].stable \ {p}
                                    ELSE listing[l].stable
        BY <1>2, <2>2 DEF ListsType
      <3>2. listing'[l].stable \subseteq listing[l].stable  BY <3>1
      <3>3. \A q \in Paths : (t = DefaultTarget /\ q = p) \/ doc'[DefaultTarget][q] = doc[DefaultTarget][q]
        BY <1>1, <2>2 DEF TypeInv
      <3>4. listing[l].pc = "list" => listing'[l].stable \subseteq Stored(DefaultTarget)'
        BY <3>1, <3>3 DEF Walked, Stored
      <3>5. kind' = kind  BY DEF Moves
      <3> QED  BY <3>1, <3>2, <3>4, <3>5 DEF Walked
    <2> QED  BY <1>7, <2>1, <2>2 DEF ByHand
  <1>8. CASE Crash
    <2>1. listing'[l] = AtRest  BY <1>8 DEF Crash
    <2>2. AtRest.pc = "idle"  BY DEF AtRest
    <2> QED  BY <2>1, <2>2 DEF Walked
  <1>9. CASE UNCHANGED vars  BY <1>3, <1>9 DEF vars, service
  <1> QED  BY <1>4, <1>5, <1>6, <1>7, <1>8, <1>9 DEF Next
-----------------------------------------------------------------------------
(* Theorems. *)

LEMMA BackendsStart == Init => BackendsInv
  <1> SUFFICES ASSUME Init PROVE BackendsInv
    OBVIOUS
  <1>1. DefaultTarget \in Targets /\ KindsOf \in [Targets -> SUBSET {"file", "table", "graph"}]
    BY TargetsAssumption
  <1>2. PICK used \in BOOLEAN :
           /\ doc = [t \in Targets |-> [p \in Paths |->
                        IF used /\ t = DefaultTarget THEN Old(kind[t]) ELSE NoEntry]]
           /\ issued = [t \in Targets |-> IF used /\ t = DefaultTarget THEN 1 ELSE 0]
           /\ tableThere = [t \in Targets |-> used /\ t = DefaultTarget]
    BY DEF Init
  <1>3. kind \in [Targets -> Kinds]  BY DEF Init, Kinds
  <1>4. ensured = [t \in Targets |-> "unset"] /\ call = [c \in Callers |-> Idle]
        /\ listing = [l \in Listers |-> AtRest] /\ calls = 0 /\ troubles = 0
    BY DEF Init
  <1>5. \A t \in Targets : Old(kind[t]) \in Entries /\ Formed(kind[t], Old(kind[t]))
                           /\ Old(kind[t]).etag[1] = 1
    BY <1>3, EntryTypes
  <1>6. NoEntry \in Entries /\ NoEntry.etag[1] = 0 /\ ~There(NoEntry) /\ \A k : Formed(k, NoEntry)
    BY EntryTypes DEF Formed
  <1>7. TypeInv
    <2>1. doc \in [Targets -> [Paths -> Entries]] /\ issued \in [Targets -> Nat]
          /\ tableThere \in [Targets -> BOOLEAN]
      BY <1>2, <1>5, <1>6
    <2>2. calls \in 0..MaxCalls /\ troubles \in 0..MaxTroubles  BY <1>4, Bounds
    <2>3. call \in [Callers -> CallsType] /\ listing \in [Listers -> ListsType]
      BY <1>4, RestTypes
    <2>4. ensured \in [Targets -> {"unset", "asked", "ready"}]  BY <1>4
    <2> QED  BY <1>3, <2>1, <2>2, <2>3, <2>4 DEF TypeInv
  <1>8. StoreInv
    <2>1. ASSUME NEW t \in Targets, NEW p \in Paths
          PROVE  /\ Formed(kind[t], doc[t][p]) /\ doc[t][p].etag[1] <= issued[t]
                 /\ kind[t] = "table" /\ ~tableThere[t] => doc[t][p] = NoEntry
      <3>1. CASE used /\ t = DefaultTarget
        <4>1. doc[t][p] = Old(kind[t]) /\ issued[t] = 1 /\ tableThere[t]  BY <1>2, <3>1
        <4> QED  BY <1>5, <4>1
      <3>2. CASE ~(used /\ t = DefaultTarget)  BY <1>2, <1>6, <3>2
      <3> QED  BY <3>1, <3>2
    <2> QED  BY <1>4, <2>1 DEF StoreInv
  <1>9. ASSUME NEW c \in Callers PROVE Basis(c) /\ Progress(c)
    <2>1. call[c] = Idle /\ call[c].target \in Targets  BY <1>4, <1>7, CallFields
    <2>2. call[c].since <= troubles  BY <1>4, <2>1, RestTypes
    <2>3. issued[call[c].target] \in Nat  BY <1>7, <2>1 DEF TypeInv
    <2>4. call[c].seen.etag[1] <= issued[call[c].target]  BY <1>6, <2>1, <2>3, RestTypes
    <2>5. NoEntry.etag # EmptyEtag  BY <1>6, Etags
    <2>6. Basis(c)  BY <1>6, <2>1, <2>2, <2>4, <2>5, RestTypes DEF Basis
    <2> QED  BY <2>1, <2>6, RestTypes DEF Progress
  <1>10. \A l \in Listers : Walked(l)  BY <1>4, RestTypes DEF Walked
  <1> QED  BY <1>7, <1>8, <1>9, <1>10 DEF BackendsInv

LEMMA BackendsNext ==
    ASSUME BackendsInv, [Next]_vars
    PROVE  BackendsInv' /\ \A c \in Callers : Compared(c) /\ Excused(c)
  <1>1. TypeInv' /\ StoreInv' /\ Moves  BY StoreStep DEF BackendsInv
  <1>2. Settled  BY <1>1 DEF Settled, BackendsInv
  <1>3. \A c \in Callers : Basis(c)' /\ Progress(c)' /\ Compared(c) /\ Excused(c)
    BY <1>2, CallStep
  <1>4. \A l \in Listers : Walked(l)'  BY <1>1, WalkStep DEF BackendsInv
  <1> QED  BY <1>1, <1>3, <1>4 DEF BackendsInv

LEMMA BackendsAlways == Spec => []BackendsInv
  <1>1. BackendsInv /\ [Next]_vars => BackendsInv'  BY BackendsNext
  <1> QED  BY <1>1, BackendsStart, PTL DEF Spec

LEMMA BackendsTyped == BackendsInv => TypeOK
  <1> SUFFICES ASSUME BackendsInv PROVE TypeOK
    OBVIOUS
  <1>1. TypeInv /\ StoreInv  BY DEF BackendsInv
  <1>2. ASSUME NEW t \in Targets, NEW p \in Paths
        PROVE  doc[t][p].content \in Text /\ doc[t][p].etag[1] \in 0..issued[t]
    <2>1. doc[t][p] \in Entries /\ issued[t] \in Nat  BY <1>1 DEF TypeInv
    <2>2. doc[t][p].content \in Text /\ doc[t][p].etag[1] \in Nat  BY <2>1, Etags
    <2>3. doc[t][p].etag[1] <= issued[t]  BY <1>1 DEF StoreInv
    <2> QED  BY <2>1, <2>2, <2>3
  <1>3. \A c \in Callers : call[c].target \in Targets /\ call[c].path \in Paths
    BY <1>1, CallFields
  <1>4. \A l \in Listers : listing[l].found \cup listing[l].stable \subseteq Paths
    <2>1. \A x \in ListsType : x.found \cup x.stable \subseteq Paths  BY DEF ListsType
    <2> QED  BY <1>1, <2>1 DEF TypeInv
  <1> QED  BY <1>1, <1>2, <1>3, <1>4 DEF TypeOK, TypeInv, Text

\* An entry holds text under a version the service has given out, and what a
\* call or a list is about is a declared destination and a path of the project
\* (FileSquadMemoryStore, AzureTableSquadMemoryStore, GraphSquadMemoryStore).
THEOREM BackendsTypeCorrect == Spec => []TypeOK
  BY BackendsAlways, BackendsTyped, PTL

\* Whatever holds it, a write under an ETag that is accepted replaces the
\* content its writer had read or written, unless that ETag is the empty one of
\* a table's reads (write of the three stores).
THEOREM CompareIsOfContent == Spec => CompareSeesContent
  <1>1. BackendsInv /\ [Next]_vars =>
           [\A c \in Callers : Accepted(c) /\ call[c].conditional =>
                \/ Doc(c).content = call[c].seen.content
                \/ kind[call[c].target] = "table" /\ call[c].seen.etag = EmptyEtag]_vars
    BY BackendsNext DEF Compared, Blind
  <1> QED  BY <1>1, BackendsAlways, PTL DEF Spec, CompareSeesContent

\* The entry a conflict reports is not the one its caller lost with, unless the
\* caller had the empty ETag of a table's reads (the conflict branches of write).
THEOREM ConflictsTellNewer == Spec => []ConflictGivesNewer
  <1>1. BackendsInv => ConflictGivesNewer
    BY DEF BackendsInv, Progress, Blind, ConflictGivesNewer
  <1> QED  BY <1>1, BackendsAlways, PTL

\* A call is answered with an error only after a failure since its caller
\* began, or for putting under the empty ETag: a refused table is asked for
\* again, and no put finds its table missing (ensureTable, write).
THEOREM ErrorsHaveCauses == Spec => ErrorNeedsTrouble
  <1>1. BackendsInv /\ [Next]_vars =>
           [\A c \in Callers : call[c].answer = "pending" /\ call'[c].answer = "error" =>
                \/ troubles' > call[c].since
                \/ call[c].pc = "put" /\ call[c].seen.etag = EmptyEtag]_vars
    BY BackendsNext DEF Excused
  <1> QED  BY <1>1, BackendsAlways, PTL DEF Spec, ErrorNeedsTrouble

\* A list has what was there throughout, folder by folder and page by page, but
\* for the one page of a table (list, children of the drive).
THEOREM ListsAreComplete == Spec => []ListComplete
  <1>1. BackendsInv => ListComplete
    BY DEF BackendsInv, Walked, ListComplete
  <1> QED  BY <1>1, BackendsAlways, PTL
=============================================================================
