---------------------- MODULE AzureTableRunStoreProofs ----------------------
(***************************************************************************)
(* Theorems about AzureTableRunStore, for every value of its constants.    *)
(*                                                                         *)
(* They hold with and without ETags in the answers of the queries.  The    *)
(* invariant says what an operation knows between two of its requests:     *)
(* what it is about to put is its own result on a record of its lifetime,  *)
(* and on the current record as long as the ETag it fetched is the current *)
(* one.                                                                    *)
(***************************************************************************)
EXTENDS AzureTableRunStore, TLAPS

USE NoOneAssumption, TimesAssumption, ReplicasAssumption, SwitchAssumption, BoundAssumption

Pending(c) == call[c].answer = "pending"

\* What update and claim make of a record.
Merged(k, rec) == IF k.op = "claim" THEN ClaimedAt(rec, k.at) ELSE Patched(k.op, k.by, rec)

\* A row that is not there is the empty record; one that is was inserted.
Row(e) == /\ ~Exists(e.rec) => e.rec = Absent
          /\ Exists(e.rec) => e.etag > 0

\* What an operation in progress knows of the run it works on.
Started(c) ==
    LET k == call[c] IN
    /\ k.by \in Operators /\ k.at <= now /\ k.since <= table[k.run].etag
    /\ k.op = "create" => table[k.run].etag = 0
    /\ k.op = "create" <=> step[c].pc \in {"ensure", "insert"}
    /\ step[c].pc # "done"

Fetched(c) ==
    LET k == call[c]
        s == step[c]
    IN
    s.pc = "put" =>
        /\ k.op \in Updates \cup Claims
        /\ k.since <= s.tag /\ s.tag <= table[k.run].etag
        /\ \E rec \in seen[c] : /\ Exists(rec) /\ s.next = Merged(k, rec)
                                /\ k.op = "claim" => Claimable(rec, k.at)
        /\ s.tag = table[k.run].etag /\ Exists(table[k.run].rec) =>
              /\ s.next = Merged(k, table[k.run].rec)
              /\ k.op = "claim" => Claimable(table[k.run].rec, k.at)

Doomed(e) == /\ e.etag > 0
             /\ Exists(e.rec) => Expired(e.rec, now)

Found(c) ==
    step[c].pc = "delete" =>
        /\ call[c].op \in {"get", "sweepExpired"}
        /\ \A r \in step[c].todo : Doomed(table[r])

Sound(c) == Pending(c) => Started(c) /\ Fetched(c) /\ Found(c)

\* No two calls create the same run.
OneCreator ==
    \A c, d \in Callers :
        /\ Pending(c) /\ call[c].op = "create"
        /\ Pending(d) /\ call[d].op = "create"
        /\ call[c].run = call[d].run
        => c = d

\* The records a write has seen: of one insert, the current one among them.
SameRun(rec, e) ==
    /\ Exists(rec) => e.etag > 0
    /\ Exists(rec) /\ Exists(e.rec) => rec.expiresAt = e.rec.expiresAt

Watched(c) ==
    LET e == table[call[c].run] IN
    /\ Writing(c) => e.rec \in seen[c] /\ \A rec \in seen[c] : SameRun(rec, e)
    /\ ~Writing(c) => seen[c] = {}

StoreInv ==
    /\ TypeOK
    /\ \A r \in Runs : Row(table[r])
    /\ \A c \in Callers : Sound(c)
    /\ \A c \in Callers : Watched(c)
    /\ OneCreator
-----------------------------------------------------------------------------
(* Types. *)

\* What the operations store is a record.
LEMMA ResultTypes ==
    /\ Absent \in Record
    /\ \A at \in Nat : Fresh(at) \in Record
    /\ \A rec \in Record, at \in Nat : ClaimedAt(rec, at) \in Record
    /\ \A rec \in Record, op \in Updates, by \in Operators \cup {NoOne} :
          Patched(op, by, rec) \in Record
  <1>1. Absent \in Record  BY DEF Absent, Record
  <1>2. \A at \in Nat : Fresh(at) \in Record  BY DEF Fresh, Record
  <1>3. ASSUME NEW rec \in Record, NEW at \in Nat PROVE ClaimedAt(rec, at) \in Record
    <2>1. at + Lease \in Nat  OBVIOUS
    <2> QED  BY <2>1 DEF ClaimedAt, Record
  <1>4. \A rec \in Record, op \in Updates, by \in Operators \cup {NoOne} :
           Patched(op, by, rec) \in Record
    BY DEF Patched, Record, Updates
  <1> QED  BY <1>1, <1>2, <1>3, <1>4

\* A call as this module sees it.
LEMMA CallType ==
    Contract!Call = [op : Ops, run : Runs, by : Operators \cup {NoOne}, at : Nat, since : Nat,
                     answer : {"pending", "done", "refused", "error"}]
  BY DEF Contract!Call, Contract!Ops, Contract!Creations, Contract!Updates, Contract!Claims,
         Contract!Reads, Ops, Creations, Updates, Claims, Reads

\* An answer keeps the types, whatever step the caller is in.
LEMMA AnswerTypes ==
    ASSUME TypeOK, NEW c \in Callers, NEW a \in {"done", "refused", "error"}, Answer(c, a)
    PROVE  call' \in [Callers -> Contract!Call] /\ step' \in [Callers -> Step]
  <1>1. AtRest \in Step  BY ResultTypes DEF AtRest, Step
  <1>2. [call[c] EXCEPT !.answer = a] \in Contract!Call
    BY CallType DEF TypeOK
  <1> QED  BY <1>1, <1>2 DEF TypeOK, Answer

\* The fields a step changes, one shape at a time.
LEMMA StepTypes ==
    ASSUME NEW s \in Step
    PROVE  /\ \A pc \in {"ensure", "insert", "query", "put", "delete", "done"} :
                 [s EXCEPT !.pc = pc] \in Step
           /\ \A tag \in Nat, next \in Record :
                 [s EXCEPT !.pc = "put", !.tag = tag, !.next = next] \in Step
           /\ \A todo \in SUBSET Runs :
                 /\ [s EXCEPT !.todo = todo] \in Step
                 /\ [s EXCEPT !.pc = "delete", !.todo = todo] \in Step
  BY DEF Step

LEMMA TypeInit == Init => TypeOK
  <1>1. AtRest \in Step  BY ResultTypes DEF AtRest, Step
  <1>2. [rec |-> Absent, etag |-> 0] \in Entity  BY ResultTypes DEF Entity
  <1>3. "get" \in Ops  BY DEF Ops, Reads
  <1> SUFFICES ASSUME Init PROVE TypeOK
    OBVIOUS
  <1>4. call \in [Callers -> Contract!Call]
    <2>1. [op : {"get"}, run : Runs, by : {NoOne}, at : {0}, since : {0}, answer : {"error"}]
             \subseteq Contract!Call
      BY <1>3, CallType
    <2> QED  BY <2>1 DEF Init
  <1> QED  BY <1>1, <1>2, <1>4 DEF Init, TypeOK

\* Every variable but the history.
Typed ==
    /\ table \in [Runs -> Entity]
    /\ tableExists \in BOOLEAN
    /\ ensured \in [Replicas -> {"unset", "asked", "ready"}]
    /\ call \in [Callers -> Contract!Call]
    /\ step \in [Callers -> Step]
    /\ now \in Nat /\ calls \in Nat /\ faults \in Nat

\* Begin, and the requests that create the table and the entity.
LEMMA CreateTypes ==
    ASSUME TypeOK
    PROVE  /\ \A c \in Callers : Begin(c) \/ Create(c) => Typed'
           /\ \A p \in Replicas : TableIsThere(p) \/ TableRefused(p) => Typed'
  <1>1. ASSUME NEW c \in Callers, Begin(c) PROVE Typed'
    <2>1. PICK op \in Ops, r \in Runs, by \in Operators :
              /\ call' = [call EXCEPT ![c] = [op |-> op, run |-> r, by |-> by, at |-> now,
                                   since |-> table[r].etag, answer |-> "pending"]]
              /\ step' = [step EXCEPT ![c] =
                            [AtRest EXCEPT !.pc = IF op = "create" THEN "ensure" ELSE "query"]]
      BY <1>1 DEF Begin
    <2>2. table[r].etag \in Nat  BY DEF TypeOK, Typed, Entity
    <2>3. [op |-> op, run |-> r, by |-> by, at |-> now, since |-> table[r].etag,
           answer |-> "pending"] \in Contract!Call
      BY <2>2, CallType DEF TypeOK, Typed
    <2>4. AtRest \in Step  BY ResultTypes DEF AtRest, Step
    <2>5. step' \in [Callers -> Step]
      BY <2>1, <2>4, StepTypes DEF TypeOK, Typed
    <2>6. calls' \in Nat /\ UNCHANGED <<table, tableExists, ensured, now, faults>>
      BY <1>1 DEF Begin, TypeOK, Typed
    <2> QED  BY <2>1, <2>3, <2>5, <2>6 DEF TypeOK, Typed
  <1>2. ASSUME NEW c \in Callers, AskForTable(c) PROVE Typed'
    BY <1>2 DEF AskForTable, TypeOK, Typed
  <1>3. ASSUME NEW c \in Callers, TableEnsured(c) PROVE Typed'
    <2>1. step' \in [Callers -> Step]
      <3>1. step' = [step EXCEPT ![c] = [step[c] EXCEPT !.pc = "insert"]]
        BY <1>3 DEF TableEnsured
      <3>2. step[c] \in Step  BY DEF TypeOK, Typed
      <3>3. [step[c] EXCEPT !.pc = "insert"] \in Step  BY <3>2, StepTypes
      <3> QED  BY <3>1, <3>3 DEF TypeOK, Typed
    <2> QED  BY <1>3, <2>1 DEF TableEnsured, TypeOK, Typed
  <1>4. ASSUME NEW c \in Callers, Insert(c) PROVE Typed'
    <2> DEFINE r == call[c].run
    <2>1. r \in Runs /\ call[c].at \in Nat  BY CallType DEF TypeOK, Typed
    <2>2. table[r] \in Entity  BY <2>1 DEF TypeOK, Typed
    <2>3. [rec |-> Fresh(call[c].at), etag |-> table[r].etag + 1] \in Entity
      <3>1. Fresh(call[c].at) \in Record  BY <2>1, ResultTypes
      <3>2. table[r].etag + 1 \in Nat  BY <2>2 DEF Entity
      <3> QED  BY <3>1, <3>2 DEF Entity
    <2>4. table' = [table EXCEPT ![r] = [rec |-> Fresh(call[c].at), etag |-> table[r].etag + 1]]
      BY <1>4 DEF Insert
    <2>5. table' \in [Runs -> Entity]  BY <2>3, <2>4 DEF TypeOK, Typed
    <2>6. faults' \in Nat /\ call' \in [Callers -> Contract!Call] /\ step' \in [Callers -> Step]
      BY <1>4, AnswerTypes DEF Insert, Served, Fault, TypeOK, Typed
    <2> QED  BY <1>4, <2>5, <2>6 DEF Insert, TypeOK, Typed
  <1>5. ASSUME NEW p \in Replicas, TableIsThere(p) PROVE Typed'
    BY <1>5 DEF TableIsThere, TypeOK, Typed
  <1>6. ASSUME NEW p \in Replicas, TableRefused(p) PROVE Typed'
    <2>1. AtRest \in Step  BY ResultTypes DEF AtRest, Step
    <2>2. \A c \in Callers : [call[c] EXCEPT !.answer = "error"] \in Contract!Call
      BY CallType DEF TypeOK, Typed
    <2>3. call' \in [Callers -> Contract!Call] /\ step' \in [Callers -> Step]
      BY <1>6, <2>1, <2>2 DEF TableRefused, TypeOK, Typed
    <2> QED  BY <1>6, <2>3 DEF TableRefused, MemoCleared, Fault, TypeOK, Typed
  <1> QED  BY <1>1, <1>2, <1>3, <1>4, <1>5, <1>6 DEF Create

\* The two requests of update and claim.
LEMMA WriteTypes ==
    ASSUME TypeOK, NEW c \in Callers, Write(c)
    PROVE  Typed'
  <1> DEFINE r == call[c].run
             e == table[r]
  <1>1. /\ r \in Runs /\ call[c].at \in Nat /\ call[c].by \in Operators \cup {NoOne}
        /\ step[c] \in Step
    BY CallType DEF TypeOK, Typed
  <1>2. e \in Entity /\ e.rec \in Record /\ e.etag \in Nat  BY <1>1 DEF TypeOK, Typed, Entity
  <1> HIDE DEF e
  <1>3. CASE FetchForUpdate(c)
    <2>1. CASE Answer(c, "refused")
      BY <1>3, <2>1, AnswerTypes DEF FetchForUpdate, TypeOK, Typed
    <2>2. CASE /\ UNCHANGED call
               /\ step' = [step EXCEPT ![c] = [step[c] EXCEPT !.pc = "put", !.tag = e.etag,
                              !.next = Patched(call[c].op, call[c].by, e.rec)]]
      <3>1. Patched(call[c].op, call[c].by, e.rec) \in Record
        BY <1>1, <1>2, <1>3, ResultTypes DEF FetchForUpdate
      <3>2. step' \in [Callers -> Step]  BY <1>1, <1>2, <2>2, <3>1, StepTypes DEF TypeOK, Typed
      <3> QED  BY <1>3, <2>2, <3>2 DEF FetchForUpdate, TypeOK, Typed
    <2> QED  BY <1>3, <2>1, <2>2 DEF FetchForUpdate, e
  <1>4. CASE FetchForClaim(c)
    <2>1. CASE Answer(c, "refused")
      BY <1>4, <2>1, AnswerTypes DEF FetchForClaim, TypeOK, Typed
    <2>2. CASE /\ UNCHANGED call
               /\ step' = [step EXCEPT ![c] = [step[c] EXCEPT !.pc = "put", !.tag = e.etag,
                              !.next = ClaimedAt(e.rec, call[c].at)]]
      <3>1. ClaimedAt(e.rec, call[c].at) \in Record  BY <1>1, <1>2, ResultTypes
      <3>2. step' \in [Callers -> Step]  BY <1>1, <1>2, <2>2, <3>1, StepTypes DEF TypeOK, Typed
      <3> QED  BY <1>4, <2>2, <3>2 DEF FetchForClaim, TypeOK, Typed
    <2> QED  BY <1>4, <2>1, <2>2 DEF FetchForClaim, e
  <1>5. CASE Put(c)
    <2>1. CASE /\ UNCHANGED <<table, faults>>
               /\ Answer(c, "error") \/ Answer(c, "refused")
      <3>1. call' \in [Callers -> Contract!Call] /\ step' \in [Callers -> Step]
        BY <2>1, AnswerTypes
      <3> QED  BY <1>5, <2>1, <3>1 DEF Put, TypeOK, Typed
    <2>2. CASE /\ table' = [table EXCEPT ![r] = [rec |-> step[c].next, etag |-> e.etag + 1]]
               /\ Served(c)
      <3>1. [rec |-> step[c].next, etag |-> e.etag + 1] \in Entity
        <4>1. step[c].next \in Record  BY <1>1 DEF Step
        <4>2. e.etag + 1 \in Nat  BY <1>2
        <4> QED  BY <1>2, <4>1, <4>2 DEF Entity
      <3>2. table' \in [Runs -> Entity]  BY <2>2, <3>1 DEF TypeOK, Typed
      <3>3. faults' \in Nat /\ call' \in [Callers -> Contract!Call] /\ step' \in [Callers -> Step]
        BY <2>2, AnswerTypes DEF Served, Fault, TypeOK, Typed
      <3> QED  BY <1>5, <3>2, <3>3 DEF Put, TypeOK, Typed
    <2> QED  BY <1>5, <2>1, <2>2 DEF Put, e
  <1> QED  BY <1>3, <1>4, <1>5 DEF Write

\* The requests of get, listClaimable and sweepExpired, and failed ones.
LEMMA ReadTypes ==
    ASSUME TypeOK, NEW c \in Callers, Read(c) \/ RequestFails(c)
    PROVE  Typed'
  <1>1. call[c].run \in Runs /\ step[c] \in Step  BY CallType DEF TypeOK, Typed
  <1>2. CASE Get(c) \/ List(c) \/ Sweep(c) \/ Deleted(c)
    <2>1. CASE \E a \in {"done", "refused", "error"} : Answer(c, a)
      BY <1>2, <2>1, AnswerTypes DEF Get, List, Sweep, Deleted, TypeOK, Typed
    <2>2. CASE /\ UNCHANGED call
               /\ \E todo \in SUBSET Runs :
                     step' = [step EXCEPT ![c] = [step[c] EXCEPT !.pc = "delete", !.todo = todo]]
      <3>1. PICK todo \in SUBSET Runs :
               step' = [step EXCEPT ![c] = [step[c] EXCEPT !.pc = "delete", !.todo = todo]]
        BY <2>2
      <3>2. [step[c] EXCEPT !.pc = "delete", !.todo = todo] \in Step  BY <1>1, StepTypes
      <3>3. step' \in [Callers -> Step]  BY <3>1, <3>2 DEF TypeOK, Typed
      <3> QED  BY <1>2, <2>2, <3>3 DEF Get, List, Sweep, Deleted, TypeOK, Typed
    <2>3. Get(c) => \/ \E a \in {"done", "refused", "error"} : Answer(c, a)
                    \/ /\ UNCHANGED call
                       /\ step' = [step EXCEPT ![c] =
                             [step[c] EXCEPT !.pc = "delete", !.todo = {call[c].run}]]
      BY DEF Get
    <2>4. Sweep(c) => \/ Answer(c, "error")
                      \/ /\ UNCHANGED call
                         /\ step' = [step EXCEPT ![c] = [step[c] EXCEPT !.pc = "delete",
                                  !.todo = {r \in Runs : Expired(table[r].rec, call[c].at)}]]
      BY DEF Sweep
    <2>5. {call[c].run} \in SUBSET Runs
          /\ {r \in Runs : Expired(table[r].rec, call[c].at)} \in SUBSET Runs
      BY <1>1
    <2>6. List(c) \/ Deleted(c) => \E a \in {"done", "refused", "error"} : Answer(c, a)
      BY DEF List, Deleted
    <2> QED  BY <1>2, <2>1, <2>2, <2>3, <2>4, <2>5, <2>6
  <1>3. CASE Delete(c)
    <2>1. PICK r \in step[c].todo :
              /\ step' = [step EXCEPT ![c] = [step[c] EXCEPT !.todo = step[c].todo \ {r}]]
              /\ \/ table' = [table EXCEPT ![r] = [table[r] EXCEPT !.rec = Absent]] /\ UNCHANGED faults
                 \/ Fault /\ UNCHANGED table
      BY <1>3 DEF Delete
    <2>2. step[c].todo \ {r} \in SUBSET Runs /\ r \in Runs  BY <1>1 DEF Step
    <2>3. step' \in [Callers -> Step]  BY <1>1, <2>1, <2>2, StepTypes DEF TypeOK, Typed
    <2>4. [table[r] EXCEPT !.rec = Absent] \in Entity
      BY <2>2, ResultTypes DEF TypeOK, Typed, Entity
    <2>5. table' \in [Runs -> Entity] /\ faults' \in Nat  BY <2>1, <2>4 DEF TypeOK, Typed, Fault
    <2> QED  BY <1>3, <2>3, <2>5 DEF Delete, TypeOK, Typed
  <1>4. CASE RequestFails(c)
    <2>1. call' \in [Callers -> Contract!Call] /\ step' \in [Callers -> Step]
      BY <1>4, AnswerTypes DEF RequestFails
    <2> QED  BY <1>4, <2>1 DEF RequestFails, Fault, TypeOK, Typed
  <1> QED  BY <1>2, <1>3, <1>4 DEF Read

LEMMA TypeStep == TypeOK /\ [Next]_vars => TypeOK'
  <1> SUFFICES ASSUME TypeOK, [Next]_vars PROVE TypeOK'
    OBVIOUS
  <1>1. ASSUME Tick PROVE Typed'  BY <1>1 DEF Tick, TypeOK, Typed
  <1>2. ASSUME UNCHANGED vars PROVE TypeOK'  BY <1>2 DEF vars, TypeOK
  <1>3. ASSUME Next PROVE TypeOK'
    <2>1. Typed'  BY <1>1, <1>3, CreateTypes, WriteTypes, ReadTypes DEF Next
    <2>2. ASSUME NEW c \in Callers, Writing(c)' PROVE table'[call'[c].run].rec \in Record
      BY <2>1, <2>2, CallType DEF Typed, Entity
    <2>3. seen' \in [Callers -> SUBSET Record]
      BY <1>3, <2>2 DEF Next, Watch, TypeOK
    <2> QED  BY <2>1, <2>3 DEF Typed, TypeOK
  <1> QED  BY <1>2, <1>3

\* Every variable of the table store stays in its type, with or without ETags.
THEOREM StoreTypeCorrect == Spec => []TypeOK
  <1> QED  BY TypeInit, TypeStep, PTL DEF Spec
-----------------------------------------------------------------------------
(* The table. *)

KnownTable ==
    /\ \A p \in Replicas : ensured[p] = "ready" => tableExists
    /\ InsertFindsTable

LEMMA KnownTableStep == TypeOK /\ KnownTable /\ [Next]_vars => KnownTable'
  <1> SUFFICES ASSUME TypeOK, KnownTable, [Next]_vars PROVE KnownTable'
    OBVIOUS
  <1> USE DEF KnownTable, InsertFindsTable, TypeOK, At
  <1>1. ASSUME NEW c \in Callers, UNCHANGED <<tableExists, ensured>>, call' = call,
               NEW s, s.pc # "insert", step' = [step EXCEPT ![c] = s]
        PROVE  KnownTable'
    BY <1>1
  <1>2. ASSUME NEW c \in Callers, UNCHANGED <<tableExists, ensured>>,
               NEW a, Answer(c, a)
        PROVE  KnownTable'
    BY <1>2 DEF Answer, AtRest
  <1>3. ASSUME NEW c \in Callers, Begin(c) PROVE KnownTable'
    <2>1. PICK op \in Ops :
              step' = [step EXCEPT ![c] =
                         [AtRest EXCEPT !.pc = IF op = "create" THEN "ensure" ELSE "query"]]
      BY <1>3 DEF Begin
    <2>2. step'[c].pc # "insert"  BY <2>1 DEF AtRest
    <2>3. \A d \in Callers : d # c => call'[d] = call[d] /\ step'[d] = step[d]
      BY <1>3 DEF Begin
    <2>4. UNCHANGED <<tableExists, ensured>>  BY <1>3 DEF Begin
    <2> QED  BY <2>2, <2>3, <2>4
  <1>4. ASSUME NEW c \in Callers, Create(c) PROVE KnownTable'
    <2>1. CASE AskForTable(c)  BY <2>1 DEF AskForTable
    <2>2. CASE TableEnsured(c)
      <3>1. tableExists  BY <2>2 DEF TableEnsured, TableKnown
      <3> QED  BY <2>2, <3>1 DEF TableEnsured
    <2>3. CASE Insert(c)
      <3>1. \E a : Answer(c, a)  BY <2>3 DEF Insert, Served
      <3> QED  BY <1>2, <2>3, <3>1 DEF Insert
    <2> QED  BY <1>4, <2>1, <2>2, <2>3 DEF Create
  <1>5. ASSUME NEW c \in Callers, Write(c) PROVE KnownTable'
    <2>1. UNCHANGED <<tableExists, ensured>>
      BY <1>5 DEF Write, FetchForUpdate, FetchForClaim, Put
    <2>2. \/ \E a : Answer(c, a)
          \/ \E tag, next : /\ call' = call
                            /\ step' = [step EXCEPT ![c] =
                                  [step[c] EXCEPT !.pc = "put", !.tag = tag, !.next = next]]
      BY <1>5 DEF Write, FetchForUpdate, FetchForClaim, Put, Served
    <2>3. \A tag, next :
             [step[c] EXCEPT !.pc = "put", !.tag = tag, !.next = next].pc = "put"
      BY DEF Step
    <2> QED  BY <1>1, <1>2, <2>1, <2>2, <2>3
  <1>6. ASSUME NEW c \in Callers, Read(c) PROVE KnownTable'
    <2>1. UNCHANGED <<tableExists, ensured>>
      BY <1>6 DEF Read, Get, List, Sweep, Delete, Deleted
    <2>2. \/ \E a : Answer(c, a)
          \/ \E todo : /\ call' = call
                       /\ step' = [step EXCEPT ![c] =
                             [step[c] EXCEPT !.pc = "delete", !.todo = todo]]
          \/ Delete(c)
      BY <1>6 DEF Read, Get, List, Sweep, Deleted
    <2>3. \A todo : [step[c] EXCEPT !.pc = "delete", !.todo = todo].pc = "delete"
      BY DEF Step
    <2>4. CASE Delete(c)  BY <2>1, <2>4 DEF Delete, Step
    <2> QED  BY <1>1, <1>2, <2>1, <2>2, <2>3, <2>4
  <1>7. ASSUME NEW c \in Callers, RequestFails(c) PROVE KnownTable'
    BY <1>2, <1>7 DEF RequestFails
  <1>8. ASSUME NEW p \in Replicas, TableIsThere(p) PROVE KnownTable'
    BY <1>8 DEF TableIsThere
  <1>9. ASSUME NEW p \in Replicas, TableRefused(p) PROVE KnownTable'
    BY <1>9 DEF TableRefused, MemoCleared, AtRest
  <1>10. ASSUME Tick \/ UNCHANGED vars PROVE KnownTable'
    BY <1>10 DEF Tick, vars
  <1> QED
    BY <1>3, <1>4, <1>5, <1>6, <1>7, <1>8, <1>9, <1>10 DEF Next

\* ensureTable is remembered only when the table exists, so no insert is sent
\* before it does: for any number of replicas, callers and failures.
THEOREM InsertsFindTheTable == Spec => []InsertFindsTable
  <1>1. Init => KnownTable
    BY DEF Init, KnownTable, InsertFindsTable, At
  <1>2. KnownTable => InsertFindsTable
    BY DEF KnownTable
  <1> QED  BY <1>1, <1>2, TypeInit, TypeStep, KnownTableStep, PTL DEF Spec
-----------------------------------------------------------------------------
(* What an operation knows between its requests. *)

Rest == /\ \A r \in Runs : Row(table[r])
        /\ \A c \in Callers : Sound(c)
        /\ OneCreator

LEMMA StoreInit == Init => StoreInv
  <1> SUFFICES ASSUME Init PROVE StoreInv
    OBVIOUS
  <1>1. \A c \in Callers : ~Pending(c) /\ ~Writing(c) /\ seen[c] = {}
    BY DEF Init, Pending, Writing
  <1> QED
    BY <1>1, TypeInit DEF Init, StoreInv, Row, Sound, Watched, OneCreator, Absent, Exists

\* What a write has seen stays, and the current record joins it.
Grows == \A d \in Callers :
            Writing(d)' => seen[d] \subseteq seen'[d] /\ table'[call'[d].run].rec \in seen'[d]

\* Expired stays expired, and a call's record in fields.
LEMMA Fields ==
    ASSUME TypeOK
    PROVE  /\ \A c \in Callers : /\ call[c].run \in Runs /\ call[c].op \in Ops
                                 /\ call[c].at \in Nat /\ call[c].since \in Nat
                                 /\ step[c].tag \in Nat /\ step[c].todo \in SUBSET Runs
                                 /\ step[c] \in Step
           /\ \A r \in Runs : /\ table[r].etag \in Nat /\ table[r].rec \in Record
                              /\ table[r].rec.expiresAt \in Nat
                              /\ table[r].rec.leaseExpiresAt \in Nat
           /\ now \in Nat
  <1>1. \A c \in Callers : /\ call[c].run \in Runs /\ call[c].op \in Ops
                           /\ call[c].at \in Nat /\ call[c].since \in Nat
    BY CallType DEF TypeOK
  <1>2. \A c \in Callers : step[c] \in Step /\ step[c].tag \in Nat /\ step[c].todo \in SUBSET Runs
    BY DEF TypeOK, Step
  <1>3. \A r \in Runs : table[r].etag \in Nat /\ table[r].rec \in Record
    BY DEF TypeOK, Entity
  <1>4. \A rec \in Record : rec.expiresAt \in Nat /\ rec.leaseExpiresAt \in Nat
    BY DEF Record
  <1> QED  BY <1>1, <1>2, <1>3, <1>4 DEF TypeOK

\* What a caller that does nothing has seen stays seen.
LEMMA StillSeen ==
    ASSUME Grows, NEW d \in Callers, call'[d] = call[d], Pending(d)
    PROVE  call[d].op \in Updates \cup Claims => seen[d] \subseteq seen'[d]
  BY DEF Grows, Writing, Pending

\* A caller that does nothing while the table is the same.
LEMMA Idles ==
    ASSUME StoreInv, Grows, NEW d \in Callers, call'[d] = call[d], step'[d] = step[d],
           table' = table, now' \in Nat, now <= now'
    PROVE  Sound(d)'
  <1>1. Pending(d)' => Pending(d) /\ Started(d) /\ Fetched(d) /\ Found(d)
    BY DEF StoreInv, Sound, Pending
  <1>2. TypeOK  BY DEF StoreInv
  <1>3. Started(d) => Started(d)'
    BY <1>2, Fields DEF Started
  <1>4. Pending(d) /\ Fetched(d) => Fetched(d)'
    BY StillSeen DEF Fetched
  <1>5. Found(d) => Found(d)'
    BY <1>2, Fields DEF Found, Doomed, Expired
  <1> QED  BY <1>1, <1>3, <1>4, <1>5 DEF Sound

\* A caller that does nothing while another one writes the run r.
LEMMA SeesWrite ==
    ASSUME StoreInv, Grows, NEW d \in Callers, call'[d] = call[d], step'[d] = step[d], now' = now,
           NEW r \in Runs, NEW rec,
           table' = [table EXCEPT ![r] = [rec |-> rec, etag |-> table[r].etag + 1]],
           \/ table[r].etag = 0
           \/ /\ Exists(table[r].rec)
              /\ rec.expiresAt = table[r].rec.expiresAt,
           Pending(d) /\ call[d].op = "create" => call[d].run # r
    PROVE  Sound(d)'
  <1>1. Pending(d)' => Pending(d) /\ Started(d) /\ Fetched(d) /\ Found(d)
    BY DEF StoreInv, Sound, Pending
  <1>2. TypeOK  BY DEF StoreInv
  <1>3. \A q \in Runs : /\ q # r => table'[q] = table[q]
                        /\ q = r => table'[q].rec = rec /\ table'[q].etag = table[q].etag + 1
    BY <1>2 DEF TypeOK
  <1>4. Pending(d) /\ Started(d) => Started(d)'
    BY <1>2, <1>3, Fields DEF Started
  <1>5. Pending(d) /\ Fetched(d) => Fetched(d)'
    <2> SUFFICES ASSUME Pending(d), Fetched(d), step[d].pc = "put" PROVE Fetched(d)'
      BY DEF Fetched
    <2>1. seen[d] \subseteq seen'[d]  BY StillSeen DEF Fetched
    <2>2. CASE call[d].run # r
      <3>1. table'[call[d].run] = table[call[d].run]  BY <1>2, <1>3, <2>2, Fields
      <3> QED  BY <2>1, <3>1 DEF Fetched
    <2>3. CASE call[d].run = r
      <3>1. step[d].tag # table'[r].etag  BY <1>2, <1>3, <2>3, Fields DEF Fetched
      <3> QED  BY <1>2, <1>3, <2>1, <2>3, <3>1, Fields DEF Fetched
    <2> QED  BY <2>2, <2>3
  <1>6. Found(d) => Found(d)'
    <2> SUFFICES ASSUME Found(d), step[d].pc = "delete", NEW q \in step[d].todo
                 PROVE  Doomed(table[q])'
      BY DEF Found
    <2>1. q \in Runs /\ Doomed(table[q])  BY <1>2, Fields DEF Found
    <2>2. CASE q # r  BY <1>3, <2>1, <2>2 DEF Doomed
    <2>3. CASE q = r  BY <1>2, <1>3, <2>1, <2>3, Fields DEF Doomed, Expired
    <2> QED  BY <2>2, <2>3
  <1> QED  BY <1>1, <1>4, <1>5, <1>6 DEF Sound

\* A caller that does nothing while another one deletes the run r.
LEMMA SeesDelete ==
    ASSUME StoreInv, Grows, NEW d \in Callers, call'[d] = call[d], step'[d] = step[d], now' = now,
           NEW r \in Runs, table' = [table EXCEPT ![r].rec = Absent]
    PROVE  Sound(d)'
  <1>1. Pending(d)' => Pending(d) /\ Started(d) /\ Fetched(d) /\ Found(d)
    BY DEF StoreInv, Sound, Pending
  <1>2. TypeOK  BY DEF StoreInv
  <1>3. \A q \in Runs : /\ table'[q].etag = table[q].etag
                        /\ table'[q].rec = table[q].rec \/ ~Exists(table'[q].rec)
    <2>1. \A q \in Runs : table[q] \in Entity  BY <1>2 DEF TypeOK
    <2> QED  BY <1>2, <2>1 DEF TypeOK, Entity, Absent, Exists
  <1>4. Started(d) => Started(d)'
    BY <1>2, <1>3, Fields DEF Started
  <1>5. Pending(d) /\ Fetched(d) => Fetched(d)'
    BY <1>2, <1>3, StillSeen, Fields DEF Fetched, Exists, Absent
  <1>6. Found(d) => Found(d)'
    BY <1>2, <1>3, Fields DEF Found, Doomed, Expired
  <1> QED  BY <1>1, <1>4, <1>5, <1>6 DEF Sound

\* No step but Begin adds a creator.
LEMMA NoNewCreator ==
    ASSUME OneCreator,
           \A c \in Callers : Pending(c)' => /\ Pending(c) /\ call'[c].op = call[c].op
                                             /\ call'[c].run = call[c].run
    PROVE  OneCreator'
  BY DEF OneCreator
\* A caller gets its answer, or takes a local step, while the table is the
\* same: what is left to show is what its new step knows.
LEMMA Quiet ==
    ASSUME StoreInv, Grows, NEW c \in Callers, UNCHANGED <<table, now>>,
           \A d \in Callers \ {c} : call'[d] = call[d] /\ step'[d] = step[d],
           Pending(c)' => Pending(c) /\ call'[c].op = call[c].op /\ call'[c].run = call[c].run,
           Sound(c)'
    PROVE  Rest'
  <1>1. \A d \in Callers \ {c} : Sound(d)'  BY Idles, Fields DEF StoreInv
  <1>2. OneCreator'  BY NoNewCreator DEF StoreInv, Pending
  <1> QED  BY <1>1, <1>2 DEF Rest, StoreInv

LEMMA Answered ==
    ASSUME StoreInv, NEW c \in Callers, NEW a \in {"done", "refused", "error"}, Answer(c, a)
    PROVE  /\ ~Pending(c)' /\ Sound(c)'
           /\ \A d \in Callers \ {c} : call'[d] = call[d] /\ step'[d] = step[d]
  <1>1. call' = [call EXCEPT ![c].answer = a] /\ call \in [Callers -> Contract!Call]
    BY DEF Answer, StoreInv, TypeOK
  <1>2. call'[c].answer = a  BY <1>1, CallType
  <1>3. step' = [step EXCEPT ![c] = AtRest] /\ step \in [Callers -> Step]
    BY DEF Answer, StoreInv, TypeOK
  <1> QED  BY <1>1, <1>2, <1>3 DEF Sound, Pending

LEMMA BeginStep ==
    ASSUME StoreInv, Grows, NEW c \in Callers, Begin(c)
    PROVE  Rest'
  <1>1. PICK op \in Ops, r \in Runs, by \in Operators :
            /\ op = "create" => /\ table[r].etag = 0
                                /\ \A d \in Callers : ~(/\ call[d].answer = "pending"
                                                        /\ call[d].run = r
                                                        /\ call[d].op = "create")
            /\ op \in Updates \cup Claims => table[r].etag > 0
            /\ call' = [call EXCEPT ![c] = [op |-> op, run |-> r, by |-> by, at |-> now,
                                 since |-> table[r].etag, answer |-> "pending"]]
            /\ step' = [step EXCEPT ![c] =
                          [AtRest EXCEPT !.pc = IF op = "create" THEN "ensure" ELSE "query"]]
    BY DEF Begin
  <1>2. TypeOK /\ OneCreator /\ UNCHANGED <<table, now>>  BY DEF StoreInv, Begin
  <1>3. /\ call'[c] = [op |-> op, run |-> r, by |-> by, at |-> now,
                       since |-> table[r].etag, answer |-> "pending"]
        /\ step'[c].pc = IF op = "create" THEN "ensure" ELSE "query"
    BY <1>1, <1>2 DEF TypeOK, AtRest
  <1>4. \A d \in Callers \ {c} : call'[d] = call[d] /\ step'[d] = step[d]
    BY <1>1, <1>2 DEF TypeOK
  <1>5. Started(c)' /\ Fetched(c)' /\ Found(c)'
    <2>1. table' = table /\ now' = now /\ now \in Nat /\ table[r].etag \in Nat
      BY <1>2, Fields
    <2>2. /\ call'[c].op = op /\ call'[c].run = r /\ call'[c].by = by /\ call'[c].at = now
          /\ call'[c].since = table[r].etag
      BY <1>3
    <2>3. op = "create" => table[r].etag = 0  BY <1>1
    <2>4. op = "create" <=> step'[c].pc = "ensure"  BY <1>3
    <2>5. step'[c].pc \in {"ensure", "query"}  BY <1>3
    <2> QED  BY <2>1, <2>2, <2>3, <2>4, <2>5 DEF Started, Fetched, Found
  <1>6. \A d \in Callers \ {c} : Sound(d)'  BY <1>2, <1>4, Idles, Fields
  <1>7. OneCreator'
    <2>1. \A d \in Callers \ {c} : /\ Pending(d)' <=> Pending(d)
                                   /\ call'[d] = call[d]
      BY <1>4 DEF Pending
    <2> QED  BY <1>1, <1>2, <1>3, <2>1 DEF OneCreator, Pending
  <1> QED  BY <1>2, <1>5, <1>6, <1>7 DEF Rest, StoreInv, Sound

LEMMA InsertStep ==
    ASSUME StoreInv, Grows, NEW c \in Callers, Insert(c)
    PROVE  Rest'
  <1> DEFINE r == call[c].run
             rec == Fresh(call[c].at)
  <1>1. TypeOK /\ r \in Runs /\ Pending(c) /\ step[c].pc = "insert"
    BY Fields DEF StoreInv, Insert, At, Pending
  <1>2. /\ table' = [table EXCEPT ![r] = [rec |-> rec, etag |-> table[r].etag + 1]]
        /\ now' = now
    BY DEF Insert
  <1>3. call[c].op = "create" /\ table[r].etag = 0
    BY <1>1 DEF StoreInv, Sound, Started
  <1>4. PICK a \in {"done", "refused", "error"} : Answer(c, a)
    BY DEF Insert, Served
  <1>5. /\ ~Pending(c)' /\ Sound(c)'
        /\ \A d \in Callers \ {c} : call'[d] = call[d] /\ step'[d] = step[d]
    BY <1>4, Answered
  <1>6. \A d \in Callers \ {c} : Pending(d) /\ call[d].op = "create" => call[d].run # r
    BY <1>1, <1>3 DEF StoreInv, OneCreator
  <1> HIDE DEF rec
  <1>7. ASSUME NEW d \in Callers \ {c} PROVE Sound(d)'
    BY <1>1, <1>2, <1>3, <1>5, <1>6, <1>7, SeesWrite
  <1>8. OneCreator'  BY <1>5, NoNewCreator DEF StoreInv, Pending
  <1>9. ASSUME NEW q \in Runs PROVE Row(table[q])'
    <2>1. CASE q = r
      <3>1. table'[q] = [rec |-> rec, etag |-> 1]  BY <1>1, <1>2, <1>3, <2>1 DEF TypeOK
      <3> QED  BY <3>1 DEF Row, rec, Exists, Fresh
    <2>2. CASE q # r  BY <1>2, <1>9, <2>2 DEF StoreInv, Row
    <2> QED  BY <2>1, <2>2
  <1> QED  BY <1>5, <1>7, <1>8, <1>9 DEF Rest

LEMMA FetchStep ==
    ASSUME StoreInv, Grows, NEW c \in Callers, FetchForUpdate(c) \/ FetchForClaim(c)
    PROVE  Rest'
  <1> DEFINE e == table[call[c].run]
             next == Merged(call[c], e.rec)
  <1>1. /\ TypeOK /\ Pending(c) /\ step[c].pc = "query"
        /\ UNCHANGED <<table, now>>
        /\ call[c].op \in Updates \cup Claims
    BY DEF StoreInv, FetchForUpdate, FetchForClaim, At, Pending, Claims
  <1>2. CASE Answer(c, "refused")
    BY <1>1, <1>2, Answered, Quiet
  <1>3. CASE /\ UNCHANGED call /\ Exists(e.rec)
             /\ step' = [step EXCEPT ![c] =
                           [step[c] EXCEPT !.pc = "put", !.tag = e.etag, !.next = next]]
             /\ call[c].op = "claim" => Claimable(e.rec, call[c].at)
    <2> HIDE DEF next
    <2>1. step'[c].pc = "put" /\ step'[c].tag = e.etag /\ step'[c].next = next
      <3>1. step[c] \in Step  BY <1>1, Fields
      <3>2. step'[c] = [step[c] EXCEPT !.pc = "put", !.tag = e.etag, !.next = next]
        BY <1>1, <1>3 DEF TypeOK
      <3> QED  BY <3>1, <3>2 DEF Step
    <2>2. \A d \in Callers \ {c} : call'[d] = call[d] /\ step'[d] = step[d]
      BY <1>1, <1>3 DEF TypeOK
    <2>3. Started(c)  BY <1>1 DEF StoreInv, Sound
    <2>4. Started(c)'
      BY <1>1, <1>3, <2>1, <2>3 DEF Started, Updates, Claims
    <2>5. Fetched(c)'
      <3>1. Writing(c)'  BY <1>1, <1>3 DEF Writing, Pending
      <3>2. e.rec \in seen'[c]  BY <1>1, <1>3, <3>1 DEF Grows
      <3>3. table' = table /\ call' = call  BY <1>1, <1>3
      <3> QED  BY <1>1, <1>3, <2>1, <2>3, <3>2, <3>3, Fields DEF Fetched, Started, next
    <2>6. Sound(c)'  BY <1>1, <1>3, <2>1, <2>4, <2>5 DEF Sound, Found
    <2> QED  BY <1>1, <1>3, <2>2, <2>6, Quiet DEF Pending
  <1>4. FetchForUpdate(c) => <1>2!1 \/ <1>3!1
    BY DEF FetchForUpdate, Merged, Updates
  <1>5. FetchForClaim(c) => <1>2!1 \/ <1>3!1
    BY DEF FetchForClaim, MayClaim, Merged, Claimable, Exists
  <1> QED  BY <1>2, <1>3, <1>4, <1>5
\* What update and claim put keeps the record in place and its time to live.
LEMMA MergedRecord ==
    ASSUME NEW k, k.op \in Updates \cup Claims, NEW rec \in Record, Exists(rec)
    PROVE  Exists(Merged(k, rec)) /\ Merged(k, rec).expiresAt = rec.expiresAt
  BY DEF Merged, ClaimedAt, Patched, Updates, Claims, Exists, Record

\* A PUT puts the result of its call on a record of its lifetime.
LEMMA PutIsOfSeen ==
    ASSUME StoreInv, NEW c \in Callers, Put(c)
    PROVE  /\ call[c].op \in Updates \cup Claims
           /\ \E rec \in seen[c] : /\ Exists(rec) /\ step[c].next = Merged(call[c], rec)
                                   /\ call[c].op = "claim" => Claimable(rec, call[c].at)
  <1>1. Pending(c) /\ step[c].pc = "put"  BY DEF Put, At, Pending
  <1>2. Fetched(c)  BY <1>1 DEF StoreInv, Sound
  <1> QED  BY <1>1, <1>2 DEF Fetched

\* A PUT that goes through and was not overtaken puts it on the current one.
LEMMA PutIsCurrent ==
    ASSUME StoreInv, NEW c \in Callers, Put(c),
           Exists(table[call[c].run].rec), IfMatch(c), ~Overtaken(c)
    PROVE  /\ step[c].next = Merged(call[c], table[call[c].run].rec)
           /\ call[c].op = "claim" => Claimable(table[call[c].run].rec, call[c].at)
  <1>1. Pending(c) /\ step[c].pc = "put"  BY DEF Put, At, Pending
  <1>2. Fetched(c)  BY <1>1 DEF StoreInv, Sound
  <1>3. TypeOK /\ step[c].tag \in Nat /\ table[call[c].run].etag \in Nat
    BY Fields DEF StoreInv
  <1>4. step[c].tag = table[call[c].run].etag
    BY <1>1, <1>2, <1>3 DEF Fetched, IfMatch, Overtaken
  <1> QED  BY <1>1, <1>2, <1>4 DEF Fetched

LEMMA PutStep ==
    ASSUME StoreInv, Grows, NEW c \in Callers, Put(c)
    PROVE  Rest'
  <1> DEFINE r == call[c].run
             next == step[c].next
  <1>1. TypeOK /\ r \in Runs /\ now' = now
    BY Fields DEF StoreInv, Put
  <1>2. PICK a \in {"done", "refused", "error"} : Answer(c, a)
    BY DEF Put, Served
  <1>3. /\ ~Pending(c)' /\ Sound(c)'
        /\ \A d \in Callers \ {c} : call'[d] = call[d] /\ step'[d] = step[d]
    BY <1>2, Answered
  <1>4. CASE UNCHANGED table  BY <1>1, <1>3, <1>4, Quiet
  <1>5. CASE /\ Exists(table[r].rec) /\ IfMatch(c)
             /\ table' = [table EXCEPT ![r] = [rec |-> next, etag |-> table[r].etag + 1]]
    <2>1. table[r].rec \in Record /\ table[r].etag \in Nat /\ table[r].etag > 0
      BY <1>1, <1>5, Fields DEF StoreInv, Row
    <2>2. Exists(next) /\ next.expiresAt = table[r].rec.expiresAt
      <3>1. PICK rec \in seen[c] : Exists(rec) /\ next = Merged(call[c], rec)
        BY PutIsOfSeen
      <3>2. rec \in Record  BY <1>1 DEF TypeOK
      <3>3. call[c].op \in Updates \cup Claims /\ Pending(c)
        BY PutIsOfSeen DEF Put, At, Pending
      <3>4. rec.expiresAt = table[r].rec.expiresAt
        BY <1>5, <3>1, <3>3 DEF StoreInv, Watched, Writing, Pending, SameRun
      <3> QED  BY <3>1, <3>2, <3>3, <3>4, MergedRecord
    <2> HIDE DEF next
    <2>3. \A d \in Callers : Pending(d) /\ call[d].op = "create" => call[d].run # r
      BY <2>1 DEF StoreInv, Sound, Started
    <2>4. ASSUME NEW d \in Callers \ {c} PROVE Sound(d)'
      BY <1>1, <1>3, <1>5, <2>2, <2>3, <2>4, SeesWrite
    <2>5. ASSUME NEW q \in Runs PROVE Row(table[q])'
      <3>1. CASE q = r
        <4>1. table'[q] = [rec |-> next, etag |-> table[r].etag + 1]
          BY <1>1, <1>5, <3>1 DEF TypeOK
        <4> QED  BY <2>1, <2>2, <4>1 DEF Row
      <3>2. CASE q # r  BY <1>5, <2>5, <3>2 DEF StoreInv, Row
      <3> QED  BY <3>1, <3>2
    <2>6. OneCreator'  BY <1>3, NoNewCreator DEF StoreInv, Pending
    <2> QED  BY <1>3, <2>4, <2>5, <2>6 DEF Rest
  <1> QED  BY <1>4, <1>5 DEF Put

\* get, listClaimable, sweepExpired: what they are about to delete is expired.
LEMMA QueryStep ==
    ASSUME StoreInv, Grows, NEW c \in Callers, Get(c) \/ List(c) \/ Sweep(c) \/ Deleted(c)
    PROVE  Rest'
  <1> DEFINE Ends == \E a \in {"done", "refused", "error"} : Answer(c, a)
             Deletes ==
               /\ UNCHANGED call
               /\ call[c].op \in {"get", "sweepExpired"}
               /\ \E todo \in SUBSET Runs :
                     /\ \A r \in todo : Expired(table[r].rec, now)
                     /\ step' = [step EXCEPT ![c] =
                                   [step[c] EXCEPT !.pc = "delete", !.todo = todo]]
  <1>1. TypeOK /\ Pending(c) /\ UNCHANGED <<table, now>>
    BY DEF StoreInv, Get, List, Sweep, Deleted, At, Pending
  <1>2. CASE Ends
    BY <1>1, <1>2, Answered, Quiet
  <1>3. CASE Deletes
    <2>1. PICK todo \in SUBSET Runs :
             /\ \A r \in todo : Expired(table[r].rec, now)
             /\ step' = [step EXCEPT ![c] = [step[c] EXCEPT !.pc = "delete", !.todo = todo]]
      BY <1>3
    <2>2. step'[c].pc = "delete" /\ step'[c].todo = todo
      <3>1. step[c] \in Step  BY <1>1, Fields
      <3>2. step'[c] = [step[c] EXCEPT !.pc = "delete", !.todo = todo]
        BY <1>1, <2>1 DEF TypeOK
      <3> QED  BY <3>1, <3>2 DEF Step
    <2>3. \A d \in Callers \ {c} : call'[d] = call[d] /\ step'[d] = step[d]
      BY <1>1, <1>3, <2>1 DEF TypeOK
    <2>4. Started(c)  BY <1>1 DEF StoreInv, Sound
    <2>5. Started(c)'  BY <1>1, <1>3, <2>2, <2>4 DEF Started
    <2>6. \A r \in todo : Doomed(table[r])
      BY <2>1 DEF Doomed, StoreInv, Row, Expired
    <2>7. Found(c)'  BY <1>1, <1>3, <2>2, <2>6 DEF Found, Doomed
    <2>8. Sound(c)'  BY <2>2, <2>5, <2>7 DEF Sound, Fetched
    <2> QED  BY <1>1, <1>3, <2>3, <2>8, Quiet DEF Pending
  <1>4. ASSUME Get(c), ~Ends PROVE Deletes
    <2> DEFINE todo == {call[c].run}
    <2>1. /\ Expired(table[call[c].run].rec, now) /\ UNCHANGED call /\ call[c].op = "get"
          /\ step' = [step EXCEPT ![c] = [step[c] EXCEPT !.pc = "delete", !.todo = todo]]
      BY <1>4 DEF Get
    <2>2. todo \in SUBSET Runs /\ \A r \in todo : Expired(table[r].rec, now)
      BY <1>1, <2>1, Fields
    <2> HIDE DEF todo
    <2> QED  BY <2>1, <2>2
  <1>5. ASSUME Sweep(c), ~Ends PROVE Deletes
    <2> DEFINE todo == {r \in Runs : Expired(table[r].rec, call[c].at)}
    <2>1. /\ UNCHANGED call /\ call[c].op = "sweepExpired"
          /\ step' = [step EXCEPT ![c] = [step[c] EXCEPT !.pc = "delete", !.todo = todo]]
      BY <1>5 DEF Sweep
    <2>2. call[c].at <= now /\ call[c].at \in Nat /\ now \in Nat
      BY <1>1, Fields DEF StoreInv, Sound, Started
    <2>3. todo \in SUBSET Runs  OBVIOUS
    <2>4. \A r \in todo : Expired(table[r].rec, now)
      BY <1>1, <2>2, Fields DEF Expired
    <2> HIDE DEF todo
    <2> QED  BY <2>1, <2>3, <2>4
  <1>6. List(c) \/ Deleted(c) => Ends
    BY DEF List, Deleted
  <1> QED  BY <1>2, <1>3, <1>4, <1>5, <1>6
LEMMA DeleteStep ==
    ASSUME StoreInv, Grows, NEW c \in Callers, Delete(c)
    PROVE  Rest'
  <1>1. TypeOK /\ Pending(c) /\ step[c].pc = "delete" /\ UNCHANGED <<call, now>>
    BY DEF StoreInv, Delete, At, Pending
  <1>2. PICK r \in step[c].todo :
            /\ step' = [step EXCEPT ![c].todo = step[c].todo \ {r}]
            /\ \/ table' = [table EXCEPT ![r].rec = Absent] /\ UNCHANGED faults
               \/ Fault /\ UNCHANGED table
    BY DEF Delete
  <1>3. r \in Runs  BY <1>1, Fields
  <1>4. \A d \in Callers \ {c} : step'[d] = step[d]  BY <1>1, <1>2 DEF TypeOK
  <1>5. step'[c].pc = "delete" /\ step'[c].todo \subseteq step[c].todo
    BY <1>1, <1>2 DEF TypeOK, Step
  <1>6. Started(c) /\ Found(c)  BY <1>1 DEF StoreInv, Sound
  <1>7. \A q \in Runs : /\ table'[q].etag = table[q].etag
                        /\ table'[q].rec = table[q].rec \/ table'[q].rec = Absent
    <2>1. \A q \in Runs : table[q] \in Entity  BY <1>1 DEF TypeOK
    <2> QED  BY <1>1, <1>2, <2>1 DEF TypeOK, Entity
  <1>8. Sound(c)'
    <2>1. Started(c)'  BY <1>1, <1>5, <1>6, <1>7, Fields DEF Started
    <2>2. Found(c)'
      BY <1>1, <1>5, <1>6, <1>7, Fields DEF Found, Doomed, Absent, Exists
    <2> QED  BY <1>5, <2>1, <2>2 DEF Sound, Fetched
  <1>9. ASSUME NEW d \in Callers \ {c} PROVE Sound(d)'
    <2>1. CASE UNCHANGED table  BY <1>1, <1>4, <1>9, <2>1, Idles, Fields
    <2>2. CASE table' = [table EXCEPT ![r].rec = Absent]
      BY <1>1, <1>3, <1>4, <1>9, <2>2, SeesDelete
    <2> QED  BY <1>2, <2>1, <2>2
  <1>10. \A q \in Runs : Row(table[q])'
    BY <1>7, Fields DEF StoreInv, Row, Absent, Exists
  <1>11. OneCreator'  BY <1>1, NoNewCreator DEF StoreInv, Pending
  <1> QED  BY <1>8, <1>9, <1>10, <1>11 DEF Rest

LEMMA TableStep ==
    ASSUME StoreInv, Grows
    PROVE  /\ \A c \in Callers : AskForTable(c) \/ TableEnsured(c) \/ RequestFails(c) => Rest'
           /\ \A p \in Replicas : TableIsThere(p) \/ TableRefused(p) => Rest'
           /\ Tick \/ UNCHANGED vars => Rest'
  <1>1. TypeOK  BY DEF StoreInv
  <1>2. ASSUME UNCHANGED <<table, call, step>>, now' \in Nat, now <= now' PROVE Rest'
    <2>1. \A d \in Callers : Sound(d)'  BY <1>2, Idles
    <2>2. OneCreator'  BY <1>2, NoNewCreator DEF StoreInv, Pending
    <2> QED  BY <1>2, <2>1, <2>2 DEF Rest, StoreInv
  <1>3. ASSUME NEW c \in Callers, AskForTable(c) PROVE Rest'
    BY <1>1, <1>2, <1>3, Fields DEF AskForTable
  <1>4. ASSUME NEW c \in Callers, TableEnsured(c) PROVE Rest'
    <2>1. /\ Pending(c) /\ step[c].pc = "ensure" /\ UNCHANGED <<table, call, now>>
          /\ step' = [step EXCEPT ![c].pc = "insert"]
      BY <1>4 DEF TableEnsured, At, Pending
    <2>2. \A d \in Callers \ {c} : step'[d] = step[d]  BY <1>1, <2>1 DEF TypeOK
    <2>3. step'[c].pc = "insert"  BY <1>1, <2>1 DEF TypeOK, Step
    <2>4. Sound(c)'  BY <2>1, <2>3 DEF StoreInv, Sound, Started, Fetched, Found, Pending
    <2> QED  BY <2>1, <2>2, <2>4, Quiet DEF Pending
  <1>5. ASSUME NEW c \in Callers, RequestFails(c) PROVE Rest'
    <2>1. Answer(c, "error") /\ UNCHANGED <<table, now>>  BY <1>5 DEF RequestFails
    <2> QED  BY <2>1, Answered, Quiet
  <1>6. ASSUME NEW p \in Replicas, TableIsThere(p) PROVE Rest'
    BY <1>1, <1>2, <1>6, Fields DEF TableIsThere
  <1>7. ASSUME NEW p \in Replicas, TableRefused(p) PROVE Rest'
    <2> DEFINE waiting == {c \in Callers : ReplicaOf[c] = p /\ At(c, "ensure")}
    <2>1. /\ UNCHANGED <<table, now>>
          /\ call' = [c \in Callers |-> IF c \in waiting THEN [call[c] EXCEPT !.answer = "error"]
                                                        ELSE call[c]]
          /\ step' = [c \in Callers |-> IF c \in waiting THEN AtRest ELSE step[c]]
      BY <1>7 DEF TableRefused
    <2> HIDE DEF waiting
    <2>2. ASSUME NEW d \in Callers
          PROVE  \/ ~Pending(d)'
                 \/ call'[d] = call[d] /\ step'[d] = step[d]
      <3>1. CASE d \in waiting
        <4>1. call'[d] = [call[d] EXCEPT !.answer = "error"]  BY <2>1, <2>2, <3>1
        <4>2. call[d] \in Contract!Call  BY <1>1, <2>2 DEF TypeOK
        <4> QED  BY <4>1, <4>2, CallType DEF Pending
      <3>2. CASE d \notin waiting  BY <2>1, <2>2, <3>2
      <3> QED  BY <3>1, <3>2
    <2>3. ASSUME NEW d \in Callers PROVE Sound(d)'
      <3>1. CASE ~Pending(d)'  BY <3>1 DEF Sound
      <3>2. CASE call'[d] = call[d] /\ step'[d] = step[d]
        <4>1. now' \in Nat /\ now <= now'  BY <1>1, <2>1, Fields
        <4> QED  BY <2>1, <2>3, <3>2, <4>1, Idles
      <3> QED  BY <2>2, <2>3, <3>1, <3>2
    <2>4. OneCreator'  BY <2>2, NoNewCreator DEF StoreInv, Pending
    <2> QED  BY <2>1, <2>3, <2>4 DEF Rest, StoreInv
  <1>8. ASSUME Tick PROVE Rest'  BY <1>1, <1>2, <1>8, Fields DEF Tick
  <1>9. ASSUME UNCHANGED vars PROVE Rest'  BY <1>1, <1>2, <1>9, Fields DEF vars
  <1> QED  BY <1>3, <1>4, <1>5, <1>6, <1>7, <1>8, <1>9

\* A record is inserted once, and keeps its time to live.
KeepsTtl(r) ==
    /\ table[r].etag <= table'[r].etag
    /\ Exists(table'[r].rec) =>
          \/ table[r].etag = 0
          \/ Exists(table[r].rec) /\ table'[r].rec.expiresAt = table[r].rec.expiresAt

LEMMA TtlIsKept ==
    ASSUME StoreInv, Next, NEW r \in Runs
    PROVE  KeepsTtl(r)
  <1>1. TypeOK /\ Row(table[r]) /\ table[r] \in Entity /\ table[r].etag \in Nat
    BY Fields DEF StoreInv, TypeOK
  <1>2. CASE UNCHANGED table  BY <1>1, <1>2 DEF KeepsTtl
  <1>3. ASSUME NEW c \in Callers, Insert(c) PROVE KeepsTtl(r)
    <2>1. table[call[c].run].etag = 0
      BY <1>1, <1>3 DEF Insert, At, StoreInv, Sound, Started, Pending
    <2>2. CASE call[c].run = r
      <3>1. table'[r].etag = table[r].etag + 1  BY <1>1, <1>3, <2>2 DEF Insert, TypeOK
      <3> QED  BY <1>1, <2>1, <2>2, <3>1 DEF KeepsTtl
    <2>3. CASE call[c].run # r
      <3>1. table'[r] = table[r]  BY <1>1, <1>3, <2>3 DEF Insert, TypeOK
      <3> QED  BY <1>1, <3>1 DEF KeepsTtl
    <2> QED  BY <2>2, <2>3
  <1>4. ASSUME NEW c \in Callers, Put(c), table' # table PROVE KeepsTtl(r)
    <2> DEFINE q == call[c].run
               next == step[c].next
    <2>1. /\ Exists(table[q].rec)
          /\ table' = [table EXCEPT ![q] = [rec |-> next, etag |-> table[q].etag + 1]]
      BY <1>4 DEF Put
    <2> HIDE DEF next
    <2>2. CASE q = r
      <3>1. table'[r] = [rec |-> next, etag |-> table[r].etag + 1]
        BY <1>1, <2>1, <2>2 DEF TypeOK
      <3>2. PICK rec \in seen[c] : Exists(rec) /\ next = Merged(call[c], rec)
        BY <1>4, PutIsOfSeen DEF next
      <3>3. rec \in Record  BY <1>1 DEF TypeOK
      <3>4. call[c].op \in Updates \cup Claims /\ Pending(c)
        BY <1>4, PutIsOfSeen DEF Put, At, Pending
      <3>5. rec.expiresAt = table[r].rec.expiresAt
        BY <2>1, <2>2, <3>2, <3>4 DEF StoreInv, Watched, Writing, Pending, SameRun
      <3>6. next.expiresAt = table[r].rec.expiresAt
        BY <3>2, <3>3, <3>4, <3>5, MergedRecord
      <3>7. table[r].etag <= table[r].etag + 1  BY <1>1
      <3> QED  BY <2>1, <2>2, <3>1, <3>6, <3>7 DEF KeepsTtl
    <2>3. CASE q # r
      <3>1. table'[r] = table[r]  BY <1>1, <2>1, <2>3 DEF TypeOK
      <3> QED  BY <1>1, <3>1 DEF KeepsTtl
    <2> QED  BY <2>2, <2>3
  <1>5. ASSUME NEW c \in Callers, Delete(c), table' # table PROVE KeepsTtl(r)
    <2>1. PICK q \in step[c].todo : table' = [table EXCEPT ![q].rec = Absent]
      BY <1>5 DEF Delete
    <2>2. CASE q = r
      <3>1. table'[r].etag = table[r].etag /\ table'[r].rec = Absent
        BY <1>1, <2>1, <2>2 DEF TypeOK, Entity
      <3> QED  BY <1>1, <3>1 DEF KeepsTtl, Absent, Exists
    <2>3. CASE q # r
      <3>1. table'[r] = table[r]  BY <1>1, <2>1, <2>3 DEF TypeOK
      <3> QED  BY <1>1, <3>1 DEF KeepsTtl
    <2> QED  BY <2>2, <2>3
  <1>6. \/ UNCHANGED table
        \/ \E c \in Callers : Insert(c) \/ (Put(c) /\ table' # table)
                                       \/ (Delete(c) /\ table' # table)
    <2>1. ASSUME NEW c \in Callers
          PROVE  /\ Begin(c) \/ AskForTable(c) \/ TableEnsured(c) => UNCHANGED table
                 /\ FetchForUpdate(c) \/ FetchForClaim(c) => UNCHANGED table
                 /\ Get(c) \/ List(c) \/ Sweep(c) \/ Deleted(c) => UNCHANGED table
                 /\ RequestFails(c) => UNCHANGED table
      BY DEF Begin, AskForTable, TableEnsured, FetchForUpdate, FetchForClaim, Get, List,
             Sweep, Deleted, RequestFails
    <2>2. /\ \A p \in Replicas : TableIsThere(p) \/ TableRefused(p) => UNCHANGED table
          /\ Tick => UNCHANGED table
      BY DEF TableIsThere, TableRefused, Tick
    <2> QED  BY <2>1, <2>2 DEF Next, Create, Write, Read
  <1> QED  BY <1>2, <1>3, <1>4, <1>5, <1>6

\* A write in progress began with this step, or was the same write before.
LEMMA CallKept ==
    ASSUME StoreInv, Next, NEW c \in Callers, Writing(c)'
    PROVE  ~Writing(c) \/ call'[c].run = call[c].run
  <1>1. TypeOK  BY DEF StoreInv
  <1>2. ASSUME NEW d \in Callers, NEW a, Answer(d, a) PROVE call'[c].run = call[c].run
    <2>1. call' = [call EXCEPT ![d].answer = a]  BY <1>2 DEF Answer
    <2>2. call[c] \in Contract!Call  BY <1>1 DEF TypeOK
    <2> QED  BY <1>1, <2>1, <2>2, CallType DEF TypeOK
  <1>3. ASSUME NEW d \in Callers, Begin(d), Writing(c) PROVE call'[c].run = call[c].run
    BY <1>1, <1>3 DEF Begin, Writing, TypeOK
  <1>4. ASSUME NEW d \in Callers, Create(d) \/ Write(d) \/ Read(d) \/ RequestFails(d)
        PROVE  UNCHANGED call \/ \E a : Answer(d, a)
    BY <1>4 DEF Create, AskForTable, TableEnsured, Insert, Served, Write, FetchForUpdate,
                FetchForClaim, Put, Read, Get, List, Sweep, Delete, Deleted, RequestFails
  <1>5. ASSUME NEW p \in Replicas, TableIsThere(p) \/ TableRefused(p)
        PROVE  call'[c].run = call[c].run
    <2>1. call'[c] = call[c] \/ call'[c] = [call[c] EXCEPT !.answer = "error"]
      BY <1>5 DEF TableIsThere, TableRefused
    <2>2. call[c] \in Contract!Call  BY <1>1 DEF TypeOK
    <2> QED  BY <2>1, <2>2, CallType
  <1>6. ASSUME Tick PROVE UNCHANGED call  BY <1>6 DEF Tick
  <1> QED  BY <1>2, <1>3, <1>4, <1>5, <1>6 DEF Next

\* What a write has seen is the history of one record.
LEMMA WatchedStep ==
    ASSUME StoreInv, Next, TypeOK', \A r \in Runs : Row(table[r])'
    PROVE  \A c \in Callers : Watched(c)'
  <1> SUFFICES ASSUME NEW c \in Callers PROVE Watched(c)'
    OBVIOUS
  <1>1. TypeOK /\ Watched(c)  BY DEF StoreInv
  <1>2. seen'[c] = IF Writing(c)' THEN seen[c] \cup {table'[call'[c].run].rec} ELSE {}
    BY DEF Next, Watch
  <1>3. CASE ~Writing(c)'  BY <1>2, <1>3 DEF Watched
  <1>4. CASE Writing(c)'
    <2> DEFINE r == call'[c].run
    <2>1. r \in Runs  BY CallType DEF TypeOK
    <2>2. \/ seen[c] = {}
          \/ Writing(c) /\ call[c].run = r
      BY <1>4, CallKept DEF StoreInv, Watched
    <2>3. Row(table'[r]) /\ KeepsTtl(r)  BY <2>1, TtlIsKept DEF Row
    <2>4. SameRun(table'[r].rec, table'[r])  BY <2>3 DEF SameRun, Row
    <2>5. ASSUME NEW rec \in seen[c] PROVE SameRun(rec, table'[r])
      <3>1. SameRun(rec, table[r])  BY <1>1, <2>2, <2>5 DEF Watched
      <3>2. table[r].etag \in Nat /\ table'[r].etag \in Nat
        BY <1>1, <2>1 DEF TypeOK, Entity
      <3> QED  BY <2>3, <3>1, <3>2 DEF SameRun, KeepsTtl
    <2> QED  BY <1>2, <1>4, <2>4, <2>5 DEF Watched
  <1> QED  BY <1>3, <1>4

LEMMA StoreStep == StoreInv /\ [Next]_vars => StoreInv'
  <1> SUFFICES ASSUME StoreInv, [Next]_vars PROVE StoreInv'
    OBVIOUS
  <1>1. TypeOK'  BY TypeStep DEF StoreInv
  <1>2. CASE UNCHANGED vars
    <2>1. UNCHANGED <<table, call, step, seen, now>>  BY <1>2 DEF vars
    <2> QED
      BY <1>1, <2>1
         DEF StoreInv, Row, Sound, Started, Fetched, Found, Doomed, Watched, Writing,
             OneCreator, Pending
  <1>3. CASE Next
    <2>1. Grows  BY <1>3 DEF Grows, Next, Watch
    <2>2. Rest'
      BY <1>3, <2>1, BeginStep, InsertStep, FetchStep, PutStep, QueryStep, DeleteStep, TableStep
         DEF Next, Create, Write, Read
    <2>3. \A c \in Callers : Watched(c)'  BY <1>1, <1>3, <2>2, WatchedStep DEF Rest
    <2> QED  BY <1>1, <2>2, <2>3 DEF StoreInv, Rest
  <1> QED  BY <1>2, <1>3

LEMMA StoreInductive == Spec => []StoreInv
  BY StoreStep, StoreInit, PTL DEF Spec
-----------------------------------------------------------------------------
(* What the invariant gives. *)

\* A claim that wins found the run held, or without a live lease, when its PUT
\* took effect, or it was overtaken; with ETags in the answers it never is, and
\* of any number of claims one wins (AzureTableRunStateStore.claim).
THEOREM ClaimHasOneWinner == Spec => ClaimIsCas /\ (EtagVisible => OneWinner)
  <1>1. ASSUME StoreInv, [Next]_vars, NEW c \in Callers, call[c].op = "claim",
               call[c].answer = "pending", call'[c].answer = "done"
        PROVE  Claimable(table[call[c].run].rec, call[c].at) \/ Overtaken(c)
    <2>1. TypeOK /\ Pending(c)  BY <1>1 DEF StoreInv, Pending
    <2>2. \A d \in Callers, a \in {"done", "refused", "error"} :
             Answer(d, a) => /\ d = c => a = "done"
                             /\ d # c => call'[c] = call[c]
      BY <1>1, <2>1, CallType DEF Answer, TypeOK
    <2>3. ASSUME NEW d \in Callers, Begin(d) PROVE FALSE
      <3>1. d # c  BY <1>1, <2>3 DEF Begin
      <3>2. call'[c] = call[c]  BY <2>1, <2>3, <3>1 DEF Begin, TypeOK
      <3> QED  BY <1>1, <3>2
    <2>4. ASSUME NEW d \in Callers, Create(d) PROVE FALSE
      <3>1. CASE AskForTable(d) \/ TableEnsured(d)
        BY <1>1, <3>1 DEF AskForTable, TableEnsured
      <3>2. CASE Insert(d)
        <4>1. d # c
          BY <1>1, <2>1, <3>2 DEF Insert, At, StoreInv, Sound, Started
        <4>2. call'[c] = call[c]  BY <2>2, <3>2, <4>1 DEF Insert, Served
        <4> QED  BY <1>1, <4>2
      <3> QED  BY <2>4, <3>1, <3>2 DEF Create
    <2>5. ASSUME NEW d \in Callers, FetchForUpdate(d) \/ FetchForClaim(d) PROVE FALSE
      <3>1. Answer(d, "refused") \/ UNCHANGED call
        BY <2>5 DEF FetchForUpdate, FetchForClaim
      <3> QED  BY <1>1, <2>2, <3>1
    <2>6. ASSUME NEW d \in Callers, Put(d)
          PROVE  Claimable(table[call[c].run].rec, call[c].at) \/ Overtaken(c)
      <3>1. PICK a \in {"done", "refused", "error"} : Answer(d, a)
        BY <2>6 DEF Put, Served
      <3>2. d = c /\ a = "done"  BY <1>1, <2>2, <3>1
      <3>3. Exists(table[call[c].run].rec) /\ IfMatch(c)
        <4>1. ~Answer(c, "error") /\ ~Answer(c, "refused")
          BY <2>2
        <4> QED  BY <2>6, <3>2, <4>1 DEF Put
      <3> QED  BY <1>1, <2>6, <3>2, <3>3, PutIsCurrent
    <2>7. ASSUME NEW d \in Callers, Read(d) \/ RequestFails(d) PROVE FALSE
      <3>1. \/ UNCHANGED call
            \/ Answer(d, "error")
            \/ /\ call[d].op \in Reads
               /\ \E a \in {"done", "refused", "error"} : Answer(d, a)
        <4>1. Deleted(d) => call[d].op \in Reads
          BY <1>1 DEF Deleted, At, StoreInv, Sound, Pending, Found, Reads
        <4> QED
          BY <2>7, <4>1 DEF Read, Get, List, Sweep, Delete, Deleted, RequestFails, Reads
      <3> QED  BY <1>1, <2>2, <3>1 DEF Reads
    <2>8. ASSUME NEW p \in Replicas, TableIsThere(p) \/ TableRefused(p) PROVE FALSE
      <3>1. call'[c] = call[c] \/ call'[c] = [call[c] EXCEPT !.answer = "error"]
        BY <2>8 DEF TableIsThere, TableRefused
      <3>2. call[c] \in Contract!Call  BY <2>1 DEF TypeOK
      <3> QED  BY <1>1, <3>1, <3>2, CallType
    <2>9. ~Tick /\ ~UNCHANGED vars  BY <1>1 DEF Tick, vars
    <2> QED
      BY <1>1, <2>3, <2>4, <2>5, <2>6, <2>7, <2>8, <2>9 DEF Next, Write
  <1>2. StoreInv /\ [Next]_vars =>
          [\A c \in Callers :
             call[c].op = "claim" /\ call[c].answer = "pending" /\ call'[c].answer = "done"
             => Claimable(table[call[c].run].rec, call[c].at) \/ Overtaken(c)]_vars
    BY <1>1
  <1>3. Spec => ClaimIsCas
    BY <1>2, StoreInductive, PTL DEF Spec, ClaimIsCas
  <1>4. ASSUME EtagVisible PROVE Spec => OneWinner
    <2>1. StoreInv /\ [Next]_vars =>
            [\A c \in Callers :
               call[c].op = "claim" /\ call[c].answer = "pending" /\ call'[c].answer = "done"
               => Claimable(table[call[c].run].rec, call[c].at)]_vars
      BY <1>2, <1>4 DEF Overtaken
    <2> QED  BY <2>1, StoreInductive, PTL DEF Spec, OneWinner
  <1> QED  BY <1>3, <1>4
\* Of the writes in flight only one that was overtaken takes an approval back,
\* and with ETags in the answers none is: any other PUT merges into the record
\* it replaces, and an insert finds no record.
THEOREM ApprovalsStick == Spec => ApprovalSticks
  <1>1. ASSUME StoreInv, [Next]_vars, NEW r \in Runs, Approved(table[r].rec),
               Exists(table'[r].rec),
               \A c \in Callers : At(c, "put") /\ call[c].run = r => ~Overtaken(c)
        PROVE  Approved(table'[r].rec)
    <2>1. TypeOK /\ Row(table[r])  BY <1>1 DEF StoreInv
    <2>2. CASE UNCHANGED table  BY <1>1, <2>2
    <2>3. ASSUME NEW c \in Callers, Insert(c) PROVE Approved(table'[r].rec)
      <3>1. table[call[c].run].etag = 0 /\ call[c].run \in Runs
        BY <1>1, <2>1, <2>3, Fields DEF Insert, At, StoreInv, Sound, Started, Pending
      <3>2. call[c].run # r
        BY <1>1, <2>1, <3>1, Fields DEF Row, Approved, Absent
      <3>3. table'[r] = table[r]  BY <2>1, <2>3, <3>2 DEF Insert, TypeOK
      <3> QED  BY <1>1, <3>3
    <2>4. ASSUME NEW c \in Callers, Put(c), table' # table PROVE Approved(table'[r].rec)
      <3>1. /\ Exists(table[call[c].run].rec) /\ IfMatch(c)
            /\ table' = [table EXCEPT ![call[c].run] = [rec |-> step[c].next,
                                                 etag |-> table[call[c].run].etag + 1]]
        BY <2>4 DEF Put
      <3>2. CASE call[c].run # r  BY <1>1, <3>1, <3>2 DEF StoreInv, TypeOK
      <3>3. CASE call[c].run = r
        <4>1. table'[r].rec = Merged(call[c], table[r].rec)
          <5>1. ~Overtaken(c)  BY <1>1, <2>4, <3>3 DEF Put
          <5> QED  BY <1>1, <2>1, <2>4, <3>1, <3>3, <5>1, PutIsCurrent DEF TypeOK
        <4>2. call[c].op \in Updates \cup Claims  BY <1>1, <2>4, PutIsOfSeen
        <4>3. call[c].by \in Operators
          BY <1>1, <2>4 DEF Put, At, StoreInv, Sound, Started, Pending
        <4>4. table[r].rec \in Record  BY <2>1, Fields
        <4> QED
          BY <1>1, <4>1, <4>2, <4>3, <4>4
             DEF Merged, ClaimedAt, Patched, Updates, Claims, Approved, Record
      <3> QED  BY <3>2, <3>3
    <2>5. ASSUME NEW c \in Callers, Delete(c), table' # table PROVE Approved(table'[r].rec)
      <3>1. PICK q \in step[c].todo : table' = [table EXCEPT ![q].rec = Absent]
        BY <2>5 DEF Delete
      <3>2. q # r
        <4>1. table[r] \in Entity  BY <2>1 DEF TypeOK
        <4> QED  BY <1>1, <2>1, <3>1, <4>1 DEF TypeOK, Entity, Absent, Exists
      <3> QED  BY <1>1, <2>1, <3>1, <3>2 DEF TypeOK
    <2>6. ASSUME NEW c \in Callers
          PROVE  /\ Begin(c) \/ AskForTable(c) \/ TableEnsured(c) => UNCHANGED table
                 /\ FetchForUpdate(c) \/ FetchForClaim(c) => UNCHANGED table
                 /\ Get(c) \/ List(c) \/ Sweep(c) \/ Deleted(c) => UNCHANGED table
                 /\ RequestFails(c) => UNCHANGED table
      BY DEF Begin, AskForTable, TableEnsured, FetchForUpdate, FetchForClaim, Get, List,
             Sweep, Deleted, RequestFails
    <2>7. /\ \A p \in Replicas : TableIsThere(p) \/ TableRefused(p) => UNCHANGED table
          /\ Tick \/ UNCHANGED vars => UNCHANGED table
      BY DEF TableIsThere, TableRefused, Tick, vars
    <2> QED
      BY <1>1, <2>2, <2>3, <2>4, <2>5, <2>6, <2>7 DEF Next, Create, Write, Read
  <1>2. StoreInv /\ [Next]_vars =>
          [\A r \in Runs :
             Approved(table[r].rec) /\ Exists(table'[r].rec) /\ ~Approved(table'[r].rec)
             => \E c \in Callers : At(c, "put") /\ call[c].run = r /\ Overtaken(c)]_vars
    BY <1>1
  <1> QED  BY <1>2, StoreInductive, PTL DEF Spec, ApprovalSticks
-----------------------------------------------------------------------------
(* The table store implements the contract. *)

LEMMA ContractInit == Init => Contract!Init
  BY DEF Init, Contract!Init, Records, Etags, Absent, Contract!Absent

\* The operators of the record, as the contract sees them.
LEMMA SameRecords ==
    /\ \A rec : Contract!Exists(rec) = Exists(rec)
    /\ \A rec, at : Contract!Expired(rec, at) = Expired(rec, at)
    /\ \A rec, at : Contract!Claimable(rec, at) = Claimable(rec, at)
    /\ Contract!Absent = Absent
    /\ Contract!Ops = Ops /\ Contract!Reads = Reads /\ Contract!Updates = Updates
    /\ Contract!Claims = Claims
    /\ \A c : Contract!Pending(c) <=> Pending(c)
    /\ \A c : Contract!Writing(c) <=> Writing(c)
  BY DEF Contract!Exists, Exists, Contract!Expired, Expired, Contract!Claimable, Claimable,
         Contract!Absent, Absent, Contract!Ops, Contract!Creations, Contract!Updates,
         Contract!Claims, Contract!Reads, Ops, Creations, Updates, Claims, Reads,
         Contract!Pending, Pending, Contract!Writing, Writing

LEMMA SameResult ==
    ASSUME NEW c \in Callers, NEW rec
    PROVE  /\ call[c].op = "create" => Contract!Result(c, rec) = Fresh(call[c].at)
           /\ call[c].op \in Updates \cup Claims => Contract!Result(c, rec) = Merged(call[c], rec)
  BY SameRecords
     DEF Contract!Result, Contract!Fresh, Fresh, Contract!Patched, Patched,
         Contract!ClaimedAt, ClaimedAt, Merged, Updates, Claims

\* What a caller or a reader does in the contract.
Moves ==
    \/ \E c \in Callers : Contract!Invoke(c) \/ Contract!Effect(c) \/ Contract!NoEffect(c)
    \/ \E failed \in SUBSET Callers : Contract!Fail(failed)
    \/ \E r \in Runs : Contract!Remove(r)
    \/ Contract!Tick

\* The contract keeps the same history.
LEMMA SameWatch ==
    ASSUME TypeOK', Watch
    PROVE  Contract!Watch
  <1>1. ASSUME NEW c \in Callers PROVE table'[call'[c].run].rec = Records'[call'[c].run]
    <2>1. call'[c].run \in Runs  BY CallType DEF TypeOK
    <2> QED  BY <2>1 DEF Records
  <1>2. \A c \in Callers : Contract!Writing(c)' <=> Writing(c)'
    BY SameRecords DEF Contract!Writing, Writing, Contract!Pending
  <1> QED  BY <1>1, <1>2 DEF Watch, Contract!Watch

\* The three ways an answer shows in the contract.
LEMMA ShowsFailure ==
    ASSUME StoreInv, NEW c \in Callers, Pending(c), Answer(c, "error"), UNCHANGED <<table, now>>
    PROVE  Moves
  <1>1. call' = [d \in Callers |-> IF d \in {c} THEN [call[d] EXCEPT !.answer = "error"]
                                             ELSE call[d]]
    BY DEF Answer, StoreInv, TypeOK
  <1>2. UNCHANGED <<Records, Etags, now>>  BY DEF Records, Etags
  <1>3. Contract!Fail({c})  BY <1>1, <1>2, SameRecords DEF Contract!Fail
  <1> QED  BY <1>3 DEF Moves

LEMMA ShowsNothing ==
    ASSUME StoreInv, NEW c \in Callers, Pending(c), UNCHANGED <<table, now>>,
           NEW a \in {"done", "refused"}, Answer(c, a),
           a = "done" => call[c].op \in Reads,
           a = "refused" => \/ call[c].op \in Reads
                            \/ ~Exists(table[call[c].run].rec)
                            \/ table[call[c].run].etag # call[c].since
                            \/ /\ call[c].op = "claim"
                               /\ ~Claimable(table[call[c].run].rec, call[c].at)
    PROVE  Moves
  <1>1. UNCHANGED <<Records, Etags, now>>  BY DEF Records, Etags
  <1>2. call' = [call EXCEPT ![c].answer = a]  BY DEF Answer
  <1>3. /\ Records[call[c].run] = table[call[c].run].rec
        /\ Etags[call[c].run] = table[call[c].run].etag
    BY Fields DEF StoreInv, Records, Etags
  <1>4. a = "refused" => call[c].op \in Contract!Reads \/ Contract!MayRefuse(c)
    BY <1>3, SameRecords DEF Contract!MayRefuse
  <1>5. Contract!NoEffect(c)
    BY <1>1, <1>2, <1>4, SameRecords DEF Contract!NoEffect
  <1> QED  BY <1>5 DEF Moves

LEMMA ShowsEffect ==
    ASSUME StoreInv, NEW c \in Callers, Pending(c), UNCHANGED now,
           NEW a \in {"done", "error"}, Answer(c, a), call[c].op \notin Reads,
           NEW base \in Contract!Bases(c),
           table' = [table EXCEPT ![call[c].run] =
                        [rec |-> Contract!Result(c, base),
                         etag |-> table[call[c].run].etag + 1]]
    PROVE  Moves
  <1> DEFINE r == call[c].run
             rec == Contract!Result(c, base)
  <1>1. TypeOK /\ r \in Runs  BY Fields DEF StoreInv
  <1>2. call' = [call EXCEPT ![c].answer = a]  BY DEF Answer
  <1>3. Records[r] = table[r].rec /\ Etags[r] = table[r].etag
    BY <1>1 DEF Records, Etags
  <1>4. /\ Records' = [Records EXCEPT ![r] = rec]
        /\ Etags' = [Etags EXCEPT ![r] = table[r].etag + 1]
    <2> HIDE DEF rec
    <2>1. /\ \A q \in Runs : table'[q].rec = IF q = r THEN rec ELSE table[q].rec
          /\ \A q \in Runs : table'[q].etag = IF q = r THEN table[r].etag + 1 ELSE table[q].etag
      BY <1>1 DEF TypeOK, rec
    <2> QED  BY <1>1, <2>1 DEF Records, Etags
  <1>5. Contract!Effect(c)
    BY <1>2, <1>3, <1>4, SameRecords DEF Contract!Effect
  <1> QED  BY <1>5 DEF Moves

LEMMA ContractMoves ==
    ASSUME StoreInv, Next
    PROVE  Moves \/ UNCHANGED <<Records, Etags, call, now>>
  <1>1. TypeOK  BY DEF StoreInv
  <1>2. ASSUME UNCHANGED <<table, call, now>> PROVE UNCHANGED <<Records, Etags, call, now>>
    BY <1>2 DEF Records, Etags
  <1>3. ASSUME NEW c \in Callers, Begin(c) PROVE Moves
    <2>1. PICK op \in Ops, r \in Runs, by \in Operators :
              /\ op = "create" => /\ table[r].etag = 0
                                  /\ \A d \in Callers : ~(/\ call[d].answer = "pending"
                                                          /\ call[d].run = r
                                                          /\ call[d].op = "create")
              /\ op \in Updates \cup Claims => table[r].etag > 0
              /\ call' = [call EXCEPT ![c] = [op |-> op, run |-> r, by |-> by, at |-> now,
                                   since |-> table[r].etag, answer |-> "pending"]]
              /\ step' = [step EXCEPT ![c] =
                            [AtRest EXCEPT !.pc = IF op = "create" THEN "ensure" ELSE "query"]]
      BY <1>3 DEF Begin
    <2>2. UNCHANGED <<Records, Etags, now>> /\ ~Pending(c)
      BY <1>3 DEF Begin, Records, Etags, Pending
    <2>3. Etags[r] = table[r].etag  BY DEF Etags
    <2>4. Contract!Invoke(c)
      BY <2>1, <2>2, <2>3, SameRecords DEF Contract!Invoke, Pending
    <2> QED  BY <2>4 DEF Moves
  <1>4. ASSUME NEW c \in Callers, Create(c) PROVE Moves \/ UNCHANGED <<Records, Etags, call, now>>
    <2>1. CASE AskForTable(c) \/ TableEnsured(c)
      BY <1>2, <2>1 DEF AskForTable, TableEnsured
    <2>2. CASE Insert(c)
      <3>1. Pending(c) /\ call[c].op = "create" /\ UNCHANGED now
        BY <2>2 DEF Insert, At, Pending, StoreInv, Sound, Started
      <3>2. PICK a \in {"done", "error"} : Answer(c, a)  BY <2>2 DEF Insert, Served
      <3>3. Contract!Result(c, table[call[c].run].rec) = Fresh(call[c].at)
        BY <3>1, SameResult
      <3>4. call[c].op \notin Reads /\ call[c].op # "claim"  BY <3>1 DEF Reads
      <3>5. table[call[c].run].rec \in Contract!Bases(c)
        <4>1. call[c].run \in Runs /\ ~Writing(c)
          BY <1>1, <3>1, Fields DEF Writing, Updates, Claims
        <4> QED  BY <4>1, SameRecords DEF Contract!Bases, Records
      <3>6. table' = [table EXCEPT ![call[c].run] =
                        [rec |-> Contract!Result(c, table[call[c].run].rec),
                         etag |-> table[call[c].run].etag + 1]]
        BY <2>2, <3>3 DEF Insert
      <3> QED  BY <3>1, <3>2, <3>4, <3>5, <3>6, ShowsEffect
    <2> QED  BY <1>4, <2>1, <2>2 DEF Create
  <1>5. ASSUME NEW c \in Callers, FetchForUpdate(c) \/ FetchForClaim(c)
        PROVE  Moves \/ UNCHANGED <<Records, Etags, call, now>>
    <2>1. Pending(c) /\ UNCHANGED <<table, now>>
      BY <1>5 DEF FetchForUpdate, FetchForClaim, At, Pending
    <2>2. CASE UNCHANGED call  BY <1>2, <2>1, <2>2
    <2>3. CASE Answer(c, "refused") /\ call' # call
      <3>1. \/ ~Exists(table[call[c].run].rec)
            \/ call[c].op = "claim" /\ ~Claimable(table[call[c].run].rec, call[c].at)
        BY <1>5, <2>3 DEF FetchForUpdate, FetchForClaim, MayClaim
      <3> QED  BY <2>1, <2>3, <3>1, ShowsNothing
    <2> QED  BY <1>5, <2>2, <2>3 DEF FetchForUpdate, FetchForClaim
  <1>6. ASSUME NEW c \in Callers, Put(c) PROVE Moves
    <2> DEFINE r == call[c].run
    <2>1. Pending(c) /\ step[c].pc = "put" /\ UNCHANGED now
      BY <1>6 DEF Put, At, Pending
    <2>2. Started(c) /\ Fetched(c)  BY <2>1 DEF StoreInv, Sound
    <2>3. CASE Answer(c, "error") /\ UNCHANGED table
      BY <2>1, <2>3, ShowsFailure
    <2>4. CASE Answer(c, "refused") /\ UNCHANGED table /\ ~IfMatch(c)
      <3>1. table[r].etag # call[c].since
        BY <1>1, <2>1, <2>2, <2>4, Fields DEF Started, Fetched, IfMatch
      <3> QED  BY <2>1, <2>4, <3>1, ShowsNothing
    <2>5. CASE /\ Exists(table[r].rec) /\ IfMatch(c) /\ Served(c)
               /\ table' = [table EXCEPT ![r] = [rec |-> step[c].next,
                                                 etag |-> table[r].etag + 1]]
      <3>1. PICK a \in {"done", "error"} : Answer(c, a)  BY <2>5 DEF Served
      <3>2. call[c].op \in Updates \cup Claims /\ r \in Runs /\ Writing(c)
        BY <1>1, <1>6, <2>1, PutIsOfSeen, Fields DEF Writing, Pending
      <3>3. PICK base \in Contract!Bases(c) : step[c].next = Merged(call[c], base)
        <4>1. Records[r] = table[r].rec  BY <3>2 DEF Records
        <4>2. CASE EtagVisible
          <5>1. ~Overtaken(c)  BY <4>2 DEF Overtaken
          <5>2. step[c].next = Merged(call[c], table[r].rec)
                /\ (call[c].op = "claim" => Claimable(table[r].rec, call[c].at))
            BY <1>6, <2>5, <5>1, PutIsCurrent
          <5>3. table[r].rec \in Contract!Bases(c)
            BY <2>5, <3>2, <4>1, <4>2, <5>2, SameRecords DEF Contract!Bases
          <5> QED  BY <5>2, <5>3
        <4>3. CASE ~EtagVisible
          <5>1. PICK rec \in seen[c] :
                   /\ Exists(rec) /\ step[c].next = Merged(call[c], rec)
                   /\ call[c].op = "claim" => Claimable(rec, call[c].at)
            BY <1>6, PutIsOfSeen
          <5>2. rec \in Contract!Bases(c)
            BY <2>5, <3>2, <4>1, <4>3, <5>1, SameRecords DEF Contract!Bases
          <5> QED  BY <5>1, <5>2
        <4> QED  BY <4>2, <4>3
      <3>4. call[c].op \notin Reads  BY <3>2 DEF Reads, Updates, Claims
      <3>5. table' = [table EXCEPT ![r] = [rec |-> Contract!Result(c, base),
                                           etag |-> table[r].etag + 1]]
        BY <2>5, <3>2, <3>3, SameResult
      <3> QED  BY <2>1, <3>1, <3>4, <3>5, ShowsEffect
    <2> QED  BY <1>6, <2>3, <2>4, <2>5 DEF Put
  <1>7. ASSUME NEW c \in Callers, Get(c) \/ List(c) \/ Sweep(c) \/ Deleted(c)
        PROVE  Moves \/ UNCHANGED <<Records, Etags, call, now>>
    <2>1. /\ Pending(c) /\ UNCHANGED <<table, now>>
          /\ call[c].op \in Reads
      <3>1. Deleted(c) => call[c].op \in Reads
        BY DEF Deleted, At, StoreInv, Sound, Pending, Found, Reads
      <3> QED  BY <1>7, <3>1 DEF Get, List, Sweep, Deleted, At, Pending, Reads
    <2>2. \/ UNCHANGED call
          \/ Answer(c, "error")
          \/ Answer(c, "refused")
          \/ Answer(c, "done")
      BY <1>7 DEF Get, List, Sweep, Deleted
    <2> QED  BY <1>2, <2>1, <2>2, ShowsNothing, ShowsFailure
  <1>8. ASSUME NEW c \in Callers, Delete(c)
        PROVE  Moves \/ UNCHANGED <<Records, Etags, call, now>>
    <2>1. /\ Pending(c) /\ step[c].pc = "delete" /\ UNCHANGED <<call, now>>
      BY <1>8 DEF Delete, At, Pending
    <2>2. PICK r \in step[c].todo :
             table' = [table EXCEPT ![r].rec = Absent] \/ UNCHANGED table
      BY <1>8 DEF Delete
    <2>3. r \in Runs /\ call[c].op \in {"get", "sweepExpired"} /\ Doomed(table[r])
      BY <1>1, <2>1, <2>2, Fields DEF StoreInv, Sound, Found
    <2>4. CASE UNCHANGED table  BY <1>2, <2>1, <2>4
    <2>5. CASE table' = [table EXCEPT ![r].rec = Absent]
      <3>1. /\ \A q \in Runs : table'[q].rec = IF q = r THEN Absent ELSE table[q].rec
            /\ \A q \in Runs : table'[q].etag = table[q].etag
        <4>1. \A q \in Runs : table[q] \in Entity  BY <1>1 DEF TypeOK
        <4> QED  BY <1>1, <2>3, <2>5, <4>1 DEF TypeOK, Entity
      <3>2. Records' = [Records EXCEPT ![r] = Absent] /\ Etags' = Etags
        BY <2>3, <3>1 DEF Records, Etags
      <3>3. CASE Exists(table[r].rec)
        <4>1. Contract!Expired(Records[r], now)
          BY <2>3, <3>3, SameRecords DEF Doomed, Records
        <4>2. Contract!Remove(r)
          BY <2>1, <2>3, <3>2, <4>1, SameRecords DEF Contract!Remove
        <4> QED  BY <2>3, <4>2 DEF Moves
      <3>4. CASE ~Exists(table[r].rec)
        <4>1. table[r].rec = Absent  BY <2>3, <3>4 DEF StoreInv, Row
        <4>2. Records' = Records  BY <2>3, <3>1, <4>1 DEF Records
        <4> QED  BY <2>1, <3>2, <4>2
      <3> QED  BY <3>3, <3>4
    <2> QED  BY <2>2, <2>4, <2>5
  <1>9. ASSUME NEW c \in Callers, RequestFails(c) PROVE Moves
    BY <1>9, ShowsFailure DEF RequestFails, Pending
  <1>10. ASSUME NEW p \in Replicas, TableIsThere(p) PROVE UNCHANGED <<Records, Etags, call, now>>
    BY <1>2, <1>10 DEF TableIsThere
  <1>11. ASSUME NEW p \in Replicas, TableRefused(p) PROVE Moves
    <2> DEFINE waiting == {c \in Callers : ReplicaOf[c] = p /\ At(c, "ensure")}
    <2>1. /\ UNCHANGED <<table, now>>
          /\ call' = [c \in Callers |-> IF c \in waiting THEN [call[c] EXCEPT !.answer = "error"]
                                                        ELSE call[c]]
      BY <1>11 DEF TableRefused
    <2>2. waiting \in SUBSET Callers /\ \A c \in waiting : Pending(c)
      BY DEF At, Pending
    <2> HIDE DEF waiting
    <2>3. UNCHANGED <<Records, Etags, now>>  BY <2>1 DEF Records, Etags
    <2>4. Contract!Fail(waiting)  BY <2>1, <2>2, <2>3, SameRecords DEF Contract!Fail
    <2> QED  BY <2>2, <2>4 DEF Moves
  <1>12. ASSUME Tick PROVE Moves
    <2>1. Contract!Tick  BY <1>12 DEF Tick, Contract!Tick, Records, Etags
    <2> QED  BY <2>1 DEF Moves
  <1> QED
    BY <1>3, <1>4, <1>5, <1>6, <1>7, <1>8, <1>9, <1>10, <1>11, <1>12
       DEF Next, Write, Read

LEMMA ContractStep == StoreInv /\ [Next]_vars => [Contract!Next]_(Contract!vars)
  <1> SUFFICES ASSUME StoreInv, [Next]_vars PROVE Contract!Next \/ UNCHANGED Contract!vars
    OBVIOUS
  <1>1. CASE UNCHANGED vars
    BY <1>1 DEF vars, Contract!vars, Records, Etags
  <1>2. CASE Next
    <2>1. TypeOK'  BY TypeStep DEF StoreInv
    <2>2. Watch  BY <1>2 DEF Next
    <2>3. CASE Moves
      BY <2>1, <2>2, <2>3, SameWatch DEF Moves, Contract!Next
    <2>4. CASE UNCHANGED <<Records, Etags, call, now>>
      <3>1. ASSUME NEW c \in Callers
            PROVE  seen[c] = IF Writing(c)' THEN seen[c] \cup {table'[call'[c].run].rec} ELSE {}
        <4>1. call' = call /\ call[c].run \in Runs  BY <2>4, Fields DEF StoreInv
        <4>2. Records'[call[c].run] = Records[call[c].run]  BY <2>4
        <4>3. table'[call[c].run].rec = table[call[c].run].rec  BY <4>1, <4>2 DEF Records
        <4>4. Writing(c)' <=> Writing(c)  BY <4>1 DEF Writing
        <4> QED  BY <4>1, <4>3, <4>4 DEF StoreInv, Watched
      <3>2. seen \in [Callers -> SUBSET Record]  BY DEF StoreInv, TypeOK
      <3>3. seen' = seen  BY <2>2, <3>1, <3>2 DEF Watch
      <3> QED  BY <2>4, <3>3 DEF Contract!vars
    <2> QED  BY <1>2, <2>3, <2>4, ContractMoves
  <1> QED  BY <1>1, <1>2

\* AzureTableRunStateStore implements the contract of RunStateStore: whatever
\* requests of other replicas come between the two requests of an operation,
\* it takes effect at once on a record of its lifetime, on the current one when
\* the answers carry ETags, or it has no effect.
THEOREM StoreIsAtomic == Spec => AtomicOperations
  BY ContractStep, ContractInit, StoreInductive, PTL DEF Spec, AtomicOperations, Contract!Spec
=============================================================================
