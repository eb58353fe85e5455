--------------------------- MODULE SquadMemoryProofs ---------------------------
(***************************************************************************)
(* Theorems about SquadMemory, for every set of runs and callers, every    *)
(* batch, every threshold and any bounds.                                  *)
(*                                                                         *)
(* MemoryInv says what everybody who is on the way to a write has in hand: *)
(* the payload of a pointer is stored before the pointer (BlobsFirst), an  *)
(* entry was read whole, so that under the ETag it still has it is the     *)
(* same entry (Fresh), a digest is of a run whose history was written      *)
(* (Histories), and who expects nothing left an ETag out or read an entry  *)
(* that only runs and callers have written since (Absent).                 *)
(***************************************************************************)
EXTENDS SquadMemory, SequenceTheorems, TLAPS

Text == Seq(Lines)
Views == [etag : Nat, content : Text]
Entries == [etag : Nat, spilled : BOOLEAN, content : Text]
RunPC == {"load", "record", "history", "digest", "trim", "append", "done"}
CallPC == {"read", "item", "write", "done"}
Shared == {"state", "decisions"}

TypeInv ==
    /\ primary \in [Paths -> Entries]
    /\ pc \in [Runs \cup Callers -> PC]
    /\ \A r \in Runs : pc[r] \in RunPC
    /\ \A c \in Callers : pc[c] \in CallPC
    /\ seen \in [Runs -> Views] /\ tries \in [Runs -> Nat]
    /\ read \in [Callers -> Seq(Views)]
    /\ results \in [Callers -> Seq({"ok", "conflict", "failed"})]
    /\ landed \in [Paths -> Text]
    /\ blind \subseteq Paths

BlobsFirst ==
    /\ \A p \in Paths : Readable(p)
    /\ \A r \in Runs :
          /\ pc[r] = "history" /\ Spills(Artifact(r)) => <<r, Artifact(r)>> \in blobs
          /\ pc[r] = "append" /\ Spills(Digest(r)) => <<"state", Digest(r)>> \in blobs
    /\ \A c \in Callers :
          pc[c] = "write" /\ Spills(NewContent(c)) => <<Item(c), NewContent(c)>> \in blobs

\* What is known of an entry that was read.
Agrees(view, p) == /\ view.etag <= primary[p].etag
                   /\ view.etag = primary[p].etag => view.content = primary[p].content
Fresh ==
    /\ \A r \in Runs : Agrees(seen[r], "state")
    /\ \A c \in Callers : \A i \in DOMAIN read[c] : Agrees(read[c][i], Items[c][i])

Batches ==
    \A c \in Callers :
        /\ Len(read[c]) <= Len(Items[c])
        /\ pc[c] = "read" => Len(read[c]) < Len(Items[c]) /\ results[c] = <<>>
        /\ pc[c] \in {"item", "write"} => /\ Len(read[c]) = Len(Items[c])
                                          /\ Len(results[c]) < Len(Items[c])
        /\ pc[c] = "done" => Len(read[c]) = Len(Items[c]) /\ Len(results[c]) = Len(Items[c])

Answered ==
    \A c \in Callers :
        /\ \A i \in DOMAIN results[c] : results[c][i] = "ok" => c \in ToSet(landed[Items[c][i]])
        /\ \A p \in Paths : c \in ToSet(landed[p]) =>
              \E i \in DOMAIN results[c] : Items[c][i] = p /\ results[c][i] \in {"ok", "failed"}

\* The runs named in an entry have their history.
Told(content) == \A r \in Runs : r \in ToSet(content) => primary[r].etag # 0
Histories ==
    /\ \A r \in Runs : /\ pc[r] \in {"load", "record", "history"} => primary[r].etag = 0
                       /\ pc[r] \in {"digest", "trim", "append"} => primary[r].etag # 0
    /\ \A p \in Paths : Told(primary[p].content)
    /\ \A r \in Runs : Told(seen[r].content)
    /\ \A c \in Callers : \A i \in DOMAIN read[c] : Told(read[c][i].content)

\* An entry that was absent when somebody read it.
New(p) == ToSet(landed[p]) \subseteq Runs \cup Callers
Absent ==
    /\ \A p \in Paths : /\ primary[p].etag = 0 => /\ primary[p].content = <<>> /\ landed[p] = <<>>
                                                  /\ p \notin blind
                        /\ primary[p].etag # 0 => landed[p] # <<>> /\ primary[p].content # <<>>
    /\ \A r \in Runs : /\ pc[r] \in {"trim", "append"} /\ seen[r].etag = 0 => New("state")
                       /\ r \in ToSet(landed["state"]) => pc[r] = "done"
    /\ \A c \in Callers : \A i \in DOMAIN read[c] :
          read[c][i].etag = 0 /\ ~Omitted(c, i) => New(Items[c][i])

\* A caller of the entry left its ETag out; two wrote it, or a batch names it twice.
LeftOut(p) == \E c \in Callers \cap ToSet(landed[p]) : \E i \in DOMAIN read[c] :
                 Items[c][i] = p /\ Omitted(c, i)
Both(p) == \/ \E c, d \in ToSet(landed[p]) : c # d /\ {c, d} \subseteq Runs \cup Callers
           \/ \E c \in Callers : \E i, j \in DOMAIN Items[c] :
                 i # j /\ Items[c][i] = p /\ Items[c][j] = p
Replaced(p) == p \in Shared /\ (LeftOut(p) \/ (New(p) /\ landed[p] # <<>> /\ Both(p)))
Kept == /\ \A p \in Shared \ blind : Keeps(p, Min2(Len(landed[p]), DigestLines - 1))
        /\ \A p \in blind : Replaced(p)

MemoryInv == /\ TypeInv /\ BlobsFirst /\ Fresh /\ Batches /\ Answered /\ Histories /\ Absent /\ Kept
-----------------------------------------------------------------------------
(* Names and sequences. *)

LEMMA Bounds ==
    /\ DigestLines \in Nat /\ DigestLines # 0 /\ Attempts \in Nat /\ ContextLines \in Nat
    /\ Threshold \in Nat /\ MaxFaults \in Nat
  BY BoundsAssumption

LEMMA NamesDiffer ==
    /\ Shared \subseteq Paths /\ Runs \subseteq Paths
    /\ \A r \in Runs : r \notin Callers /\ r \notin Shared /\ r # Trimmed /\ r # "artifact"
                       /\ r \notin ToSet(Header)
    /\ \A c \in Callers : c \notin Runs /\ c # "artifact"
    /\ \A c \in Callers : Items[c] \in Seq(Shared) /\ Len(Items[c]) \in Nat /\ Len(Items[c]) # 0
                          /\ DOMAIN Items[c] = 1..Len(Items[c])
                          /\ \A i \in DOMAIN Items[c] : Items[c][i] \in Shared /\ Items[c][i] \in Paths
  <1>1. Shared \subseteq Paths /\ Runs \subseteq Paths  BY DEF Shared, Paths
  <1>2. /\ \A r \in Runs : r \notin Callers /\ r \notin Shared /\ r # Trimmed /\ r # "artifact"
                           /\ r \notin ToSet(Header)
        /\ \A c \in Callers : c \notin Runs /\ c # "artifact"
    BY NamesAssumption DEF Shared
  <1>3. ASSUME NEW c \in Callers
        PROVE  /\ Items[c] \in Seq(Shared) /\ Len(Items[c]) \in Nat /\ Len(Items[c]) # 0
               /\ DOMAIN Items[c] = 1..Len(Items[c])
               /\ \A i \in DOMAIN Items[c] : Items[c][i] \in Shared
    <2>1. Items[c] \in Seq(Shared) /\ Items[c] # <<>>  BY ItemsAssumption DEF Shared
    <2> QED  BY <2>1
  <1> QED  BY <1>1, <1>2, <1>3

LEMMA Triple ==
    ASSUME NEW S, NEW a \in S, NEW b \in S, NEW c \in S
    PROVE  <<a, b, c>> \in Seq(S) /\ Len(<<a, b, c>>) = 3
  OBVIOUS

LEMMA ThreeLines ==
    ASSUME NEW a, NEW b, NEW c
    PROVE  ToSet(<<a, b, c>>) = {a, b, c}
  <1> DEFINE s == <<a, b, c>>
  <1>1. DOMAIN s = {1, 2, 3} /\ s[1] = a /\ s[2] = b /\ s[3] = c  OBVIOUS
  <1> QED  BY <1>1 DEF ToSet

LEMMA LineTypes ==
    /\ Header \in Text /\ Trimmed \in Lines /\ "artifact" \in Lines
    /\ Runs \subseteq Lines /\ Callers \subseteq Lines
    /\ \A s \in StateAtStart : s \in Text
    /\ <<>> \in Text
  <1>1. Trimmed \in Lines /\ "artifact" \in Lines /\ Runs \subseteq Lines /\ Callers \subseteq Lines
        /\ ToSet(Header) \subseteq Lines
    BY DEF Lines
  <1>2. ToSet(Header) = {"# Squad state", "", "## Run log"}  BY ThreeLines DEF Header
  <1>3. Header \in Text  BY <1>1, <1>2, Triple DEF Header, Text
  <1>4. ASSUME NEW s \in StateAtStart PROVE s \in Text
    <2>1. s \in Seq(STRING) /\ ToSet(s) \subseteq Lines  BY StartAssumption DEF Lines
    <2>2. \A i \in 1..Len(s) : s[i] \in ToSet(s)  BY <2>1 DEF ToSet
    <2> QED  BY <2>1, <2>2 DEF Text
  <1> QED  BY <1>1, <1>3, <1>4 DEF Text

LEMMA Appended ==
    ASSUME NEW S, NEW s \in Seq(S), NEW x \in S
    PROVE  /\ Append(s, x) \in Seq(S) /\ Len(Append(s, x)) = Len(s) + 1 /\ Len(s) \in Nat
           /\ Append(s, x)[Len(s) + 1] = x
           /\ \A i \in 1..Len(s) : Append(s, x)[i] = s[i]
           /\ ToSet(Append(s, x)) = ToSet(s) \cup {x} /\ Append(s, x) # <<>>
           /\ DOMAIN s = 1..Len(s) /\ DOMAIN Append(s, x) = 1..(Len(s) + 1)
  <1>1. /\ Append(s, x) \in Seq(S) /\ Len(Append(s, x)) = Len(s) + 1 /\ Len(s) \in Nat
        /\ Append(s, x)[Len(s) + 1] = x
        /\ \A i \in 1..Len(s) : Append(s, x)[i] = s[i]
        /\ DOMAIN s = 1..Len(s) /\ DOMAIN Append(s, x) = 1..(Len(s) + 1)
    OBVIOUS
  <1>2. Append(s, x) # <<>>  BY <1>1
  <1>3. ToSet(Append(s, x)) = ToSet(s) \cup {x}
    <2>1. ToSet(Append(s, x)) = {Append(s, x)[i] : i \in 1..(Len(s) + 1)} /\ ToSet(s) = {s[i] : i \in 1..Len(s)}
      BY <1>1 DEF ToSet
    <2>2. 1..(Len(s) + 1) = 1..Len(s) \cup {Len(s) + 1}  BY <1>1
    <2> QED  BY <1>1, <2>1, <2>2
  <1> QED  BY <1>1, <1>2, <1>3

\* The last n lines of a are the last n lines of b.
SameEnd(a, b, n) == /\ n <= Len(a) /\ n <= Len(b)
                    /\ \A i \in 0..(n - 1) : a[Len(a) - i] = b[Len(b) - i]

LEMMA SubSeqLines ==
    ASSUME NEW S, NEW s \in Seq(S), NEW m \in 1..(Len(s) + 1), NEW n \in (m - 1)..Len(s)
    PROVE  /\ SubSeq(s, m, n) \in Seq(S) /\ Len(SubSeq(s, m, n)) = n - m + 1
           /\ \A i \in 1..(n - m + 1) : SubSeq(s, m, n)[i] = s[m + i - 1]
           /\ ToSet(SubSeq(s, m, n)) \subseteq ToSet(s)
  <1>1. Len(s) \in Nat /\ m \in Int /\ n \in Int /\ DOMAIN s = 1..Len(s)  OBVIOUS
  <1>2. \A i \in m..n : i \in 1..Len(s)  BY <1>1
  <1>3. \A i \in m..n : s[i] \in S  BY <1>2
  <1> DEFINE t == SubSeq(s, m, n)
  <1>4. /\ t \in Seq(S) /\ Len(t) = IF m <= n THEN n - m + 1 ELSE 0
        /\ \A i \in 1..(n - m + 1) : t[i] = s[m + i - 1]
    BY <1>1, <1>3, SubSeqProperties
  <1> HIDE DEF t
  <1>5. Len(t) = n - m + 1  BY <1>1, <1>4
  <1>6. ToSet(t) \subseteq ToSet(s)
    <2>1. DOMAIN t = 1..(n - m + 1)  BY <1>4, <1>5
    <2>2. ASSUME NEW i \in 1..(n - m + 1) PROVE t[i] \in ToSet(s)
      <3>1. m + i - 1 \in 1..Len(s)  BY <1>1
      <3> QED  BY <1>1, <1>4, <3>1 DEF ToSet
    <2> QED  BY <2>1, <2>2 DEF ToSet
  <1> QED  BY <1>4, <1>5, <1>6 DEF t

\* Trimming keeps the last DigestLines - 1 lines, and brings only the mark in.
LEMMA Trims ==
    ASSUME NEW s \in Text, Len(s) + 1 > DigestLines + 4
    PROVE  /\ TrimmedLines(s) \in Text /\ TrimmedLines(s) # <<>>
           /\ ToSet(TrimmedLines(s)) \subseteq ToSet(s) \cup {Trimmed}
           /\ SameEnd(TrimmedLines(s), s, DigestLines - 1)
  <1> DEFINE n == Len(s)
             k == DigestLines - 1
             a == SubSeq(s, 1, 3)
             b == SubSeq(s, n - DigestLines + 2, n)
  <1>1. n \in Nat /\ k \in Nat /\ DigestLines \in Nat /\ n >= k + 5 /\ s \in Seq(Lines)
    BY Bounds DEF Text
  <1>2. a \in Seq(Lines) /\ Len(a) = 3 /\ ToSet(a) \subseteq ToSet(s)
    <2>1. 1 \in 1..(n + 1) /\ 3 \in (1 - 1)..n  BY <1>1
    <2> QED  BY <1>1, <2>1, SubSeqLines
  <1>3. /\ b \in Seq(Lines) /\ Len(b) = k /\ ToSet(b) \subseteq ToSet(s)
        /\ \A i \in 1..k : b[i] = s[n - k + i]
    <2> DEFINE m == n - DigestLines + 2
    <2>1. m \in 1..(n + 1) /\ n \in (m - 1)..n /\ n - m + 1 = k
          /\ \A i \in 1..k : m + i - 1 = n - k + i
      BY <1>1
    <2>2. /\ SubSeq(s, m, n) \in Seq(Lines) /\ Len(SubSeq(s, m, n)) = n - m + 1
          /\ \A i \in 1..(n - m + 1) : SubSeq(s, m, n)[i] = s[m + i - 1]
          /\ ToSet(SubSeq(s, m, n)) \subseteq ToSet(s)
      BY <1>1, <2>1, SubSeqLines
    <2> QED  BY <2>1, <2>2
  <1> HIDE DEF a, b
  <1> DEFINE h == a \o <<Trimmed>>
             t == h \o b
  <1>4. <<Trimmed>> \in Seq(Lines) /\ Len(<<Trimmed>>) = 1  BY LineTypes
  <1>5. /\ h \in Seq(Lines) /\ Len(h) = 4
        /\ \A i \in 1..4 : h[i] = IF i <= 3 THEN a[i] ELSE <<Trimmed>>[i - 3]
    <2>1. /\ h \in Seq(Lines) /\ Len(h) = Len(a) + Len(<<Trimmed>>)
          /\ \A i \in 1..(Len(a) + Len(<<Trimmed>>)) :
                h[i] = IF i <= Len(a) THEN a[i] ELSE <<Trimmed>>[i - Len(a)]
      BY <1>2, <1>4, ConcatProperties
    <2> QED  BY <1>2, <1>4, <2>1
  <1>6. ToSet(h) \subseteq ToSet(s) \cup {Trimmed}
    <2>1. DOMAIN h = 1..4 /\ DOMAIN a = 1..3  BY <1>2, <1>5
    <2>2. ASSUME NEW i \in 1..4 PROVE h[i] \in ToSet(a) \cup {Trimmed}
      <3>1. CASE i <= 3
        <4>1. i \in DOMAIN a  BY <2>1, <3>1
        <4> QED  BY <1>5, <3>1, <4>1 DEF ToSet
      <3>2. CASE ~(i <= 3)
        <4>1. i - 3 = 1  BY <3>2
        <4> QED  BY <1>5, <3>2, <4>1
      <3> QED  BY <3>1, <3>2
    <2> QED  BY <1>2, <2>1, <2>2 DEF ToSet
  <1> HIDE DEF h
  <1>7. /\ t \in Seq(Lines) /\ Len(t) = 4 + k
        /\ \A i \in 1..(4 + k) : t[i] = IF i <= 4 THEN h[i] ELSE b[i - 4]
    <2>1. /\ t \in Seq(Lines) /\ Len(t) = Len(h) + Len(b)
          /\ \A i \in 1..(Len(h) + Len(b)) : t[i] = IF i <= Len(h) THEN h[i] ELSE b[i - Len(h)]
      BY <1>3, <1>5, ConcatProperties
    <2> HIDE DEF t
    <2> QED  BY <1>3, <1>5, <2>1
  <1>8. TrimmedLines(s) = t  BY DEF TrimmedLines, t, h, a, b
  <1> HIDE DEF t
  <1>9. ToSet(t) \subseteq ToSet(s) \cup {Trimmed}
    <2>1. DOMAIN t = 1..(4 + k) /\ DOMAIN h = 1..4 /\ DOMAIN b = 1..k  BY <1>3, <1>5, <1>7
    <2>2. ASSUME NEW i \in 1..(4 + k) PROVE t[i] \in ToSet(h) \cup ToSet(b)
      <3>1. CASE i <= 4
        <4>1. i \in DOMAIN h  BY <1>1, <2>1, <3>1
        <4> QED  BY <1>7, <3>1, <4>1 DEF ToSet
      <3>2. CASE ~(i <= 4)
        <4>1. i - 4 \in DOMAIN b  BY <1>1, <2>1, <3>2
        <4> QED  BY <1>7, <3>2, <4>1 DEF ToSet
      <3> QED  BY <3>1, <3>2
    <2> QED  BY <1>3, <1>6, <2>1, <2>2 DEF ToSet
  <1>10. SameEnd(t, s, k)
    <2>1. k <= Len(t) /\ k <= n  BY <1>1, <1>7
    <2>2. ASSUME NEW i \in 0..(k - 1) PROVE t[Len(t) - i] = s[n - i]
      <3>1. /\ 4 + k - i \in 1..(4 + k) /\ ~(4 + k - i <= 4) /\ (4 + k - i) - 4 = k - i
            /\ k - i \in 1..k /\ n - k + (k - i) = n - i
        BY <1>1
      <3>2. t[4 + k - i] = b[k - i]  BY <1>7, <3>1
      <3>3. b[k - i] = s[n - i]  BY <1>3, <3>1
      <3>4. Len(t) - i = 4 + k - i  BY <1>1, <1>7
      <3> QED  BY <3>2, <3>3, <3>4
    <2> QED  BY <1>1, <1>7, <2>1, <2>2 DEF SameEnd
  <1>11. t # <<>>  BY <1>1, <1>7
  <1> QED  BY <1>7, <1>8, <1>9, <1>10, <1>11 DEF Text

\* A digest adds its run, and keeps the newest of what it was added to.
LEMMA DigestIs ==
    ASSUME TypeInv, NEW r \in Runs
    PROVE  LET body == IF seen[r].etag = 0 THEN Header ELSE seen[r].content IN
           /\ Digest(r) \in Text /\ body \in Text /\ Digest(r) # <<>>
           /\ ToSet(Digest(r)) \subseteq ToSet(body) \cup {r, Trimmed}
           /\ \A n \in Nat : n <= DigestLines - 1 /\ n <= Len(body) + 1 =>
                 SameEnd(Digest(r), Append(body, r), n)
  <1> DEFINE body == IF seen[r].etag = 0 THEN Header ELSE seen[r].content
             lines == Append(body, r)
             D == Digest(r)
  <1>1. seen[r].content \in Text  BY DEF TypeInv, Views
  <1>2. body \in Text /\ r \in Lines  BY <1>1, LineTypes
  <1> HIDE DEF body
  <1>3. lines \in Text /\ Len(lines) = Len(body) + 1 /\ Len(body) \in Nat
        /\ ToSet(lines) = ToSet(body) \cup {r} /\ lines # <<>>
    BY <1>2, Appended DEF Text
  <1>4. D = IF Len(lines) + 1 > DigestLines + 4 THEN TrimmedLines(lines) ELSE lines
    BY DEF Digest, body
  <1> HIDE DEF lines, D
  <1>5. CASE Len(lines) + 1 > DigestLines + 4
    <2>1. /\ D \in Text /\ D # <<>> /\ ToSet(D) \subseteq ToSet(lines) \cup {Trimmed}
          /\ SameEnd(D, lines, DigestLines - 1)
      BY <1>3, <1>4, <1>5, Trims
    <2>2. ASSUME NEW n \in Nat, n <= DigestLines - 1, n <= Len(body) + 1
          PROVE  SameEnd(D, lines, n)
      <3>1. Len(D) \in Nat /\ Len(lines) \in Nat  BY <1>3, <2>1 DEF Text
      <3>2. n <= Len(D) /\ n <= Len(lines) /\ \A i \in 0..(n - 1) : i \in 0..(DigestLines - 1 - 1)
        BY <2>1, <2>2, <3>1, Bounds DEF SameEnd
      <3> QED  BY <2>1, <3>2 DEF SameEnd
    <2> QED  BY <1>2, <1>3, <2>1, <2>2 DEF lines, D, body
  <1>6. CASE ~(Len(lines) + 1 > DigestLines + 4)
    <2>1. D = lines  BY <1>4, <1>6
    <2>2. \A n \in Nat : n <= Len(body) + 1 => SameEnd(lines, lines, n)  BY <1>3 DEF SameEnd
    <2> QED  BY <1>2, <1>3, <2>1, <2>2 DEF lines, D, body
  <1> QED  BY <1>5, <1>6
-----------------------------------------------------------------------------
(* Steps. *)

RunFails(r) == /\ pc[r] # "done" /\ Goto(r, AfterFault(r))
               /\ UNCHANGED <<primary, blobs, seen, tries, read, results, landed, blind>>
CallFails(c) ==
    \/ /\ pc[c] \in {"item", "write"} /\ Answer(c, "failed")
       /\ UNCHANGED <<primary, blobs, seen, tries, read, landed, blind>>
    \/ LoseAnswer(c)

LEMMA Steps ==
    ASSUME [Next]_vars
    PROVE  \/ UNCHANGED <<primary, blobs, pc, seen, tries, read, results, landed, blind>>
           \/ \E r \in Runs : Run(r) \/ RunFails(r)
           \/ \E c \in Callers : Call(c) \/ CallFails(c)
  <1>1. ASSUME NEW r \in Runs, StoreFails(r) PROVE RunFails(r)
    <2>1. r \notin Callers  BY NamesDiffer
    <2> QED  BY <1>1, <2>1 DEF StoreFails, RunFails
  <1>2. ASSUME NEW c \in Callers, StoreFails(c) PROVE CallFails(c)
    <2>1. c \notin Runs  BY NamesDiffer
    <2> QED  BY <1>2, <2>1 DEF StoreFails, CallFails
  <1> QED  BY <1>1, <1>2 DEF Next, vars, client, CallFails

Moves(c) == /\ pc' \in [Runs \cup Callers -> PC]
            /\ \A d \in Runs \cup Callers : d # c => pc'[d] = pc[d]
            /\ \A r \in Runs : pc'[r] \in RunPC
            /\ \A d \in Callers : pc'[d] \in CallPC

LEMMA Goes ==
    ASSUME TypeInv, NEW c \in Runs \cup Callers, NEW where \in PC, Goto(c, where),
           c \in Runs => where \in RunPC, c \in Callers => where \in CallPC
    PROVE  Moves(c) /\ pc'[c] = where
  BY DEF TypeInv, Goto, Moves

LEMMA PutIs ==
    ASSUME TypeInv, NEW p \in Paths, NEW content \in Text, NEW expected, NEW line \in Lines,
           Put(p, content, expected, line)
    PROVE  /\ primary' \in [Paths -> Entries] /\ landed' \in [Paths -> Text] /\ blind' \subseteq Paths
           /\ primary'[p] = Stored(content, primary[p].etag + 1)
           /\ primary'[p].etag = primary[p].etag + 1 /\ primary[p].etag \in Nat
           /\ primary'[p].content = content /\ primary'[p].spilled = Spills(content)
           /\ landed'[p] = Append(landed[p], line)
           /\ ToSet(landed'[p]) = ToSet(landed[p]) \cup {line} /\ landed'[p] # <<>>
           /\ Len(landed'[p]) = Len(landed[p]) + 1 /\ Len(landed[p]) \in Nat
           /\ \A q \in Paths : q # p => primary'[q] = primary[q] /\ landed'[q] = landed[q]
           /\ blind' = IF expected = 0 /\ primary[p].etag # 0 THEN blind \cup {p} ELSE blind
  <1>1. primary[p].etag \in Nat /\ landed[p] \in Seq(Lines) /\ primary \in [Paths -> Entries]
        /\ landed \in [Paths -> Text]
    BY DEF TypeInv, Entries, Text
  <1> DEFINE e == Stored(content, primary[p].etag + 1)
  <1>2. /\ e \in Entries /\ e.etag = primary[p].etag + 1 /\ e.content = content
        /\ e.spilled = Spills(content)
    <2>1. Spills(content) \in BOOLEAN  BY DEF Spills
    <2> QED  BY <1>1, <2>1 DEF Stored, Entries
  <1>3. primary' = [primary EXCEPT ![p] = e]  BY DEF Put
  <1> HIDE DEF e
  <1>4. /\ primary' \in [Paths -> Entries] /\ primary'[p] = e
        /\ \A q \in Paths : q # p => primary'[q] = primary[q]
    BY <1>1, <1>2, <1>3
  <1>5. /\ Append(landed[p], line) \in Seq(Lines) /\ Len(Append(landed[p], line)) = Len(landed[p]) + 1
        /\ Len(landed[p]) \in Nat /\ Append(landed[p], line) # <<>>
        /\ ToSet(Append(landed[p], line)) = ToSet(landed[p]) \cup {line}
    BY <1>1, Appended
  <1>6. landed' = [landed EXCEPT ![p] = Append(landed[p], line)]  BY DEF Put
  <1>7. /\ landed' \in [Paths -> Text] /\ landed'[p] = Append(landed[p], line)
        /\ \A q \in Paths : q # p => landed'[q] = landed[q]
    BY <1>1, <1>5, <1>6 DEF Text
  <1>8. blind' = (IF expected = 0 /\ primary[p].etag # 0 THEN blind \cup {p} ELSE blind)
        /\ blind' \subseteq Paths
    BY DEF Put, TypeInv
  <1> QED  BY <1>1, <1>2, <1>4, <1>5, <1>7, <1>8 DEF e

\* What is in a batch, and what was read for it.
LEMMA BatchIs ==
    ASSUME TypeInv, NEW c \in Callers
    PROVE  /\ Len(read[c]) \in Nat /\ Len(results[c]) \in Nat
           /\ DOMAIN read[c] = 1..Len(read[c]) /\ DOMAIN results[c] = 1..Len(results[c])
           /\ \A i \in DOMAIN read[c] : read[c][i] \in Views /\ read[c][i].etag \in Nat
                                        /\ read[c][i].content \in Text
           /\ DOMAIN Items[c] = 1..Len(Items[c]) /\ Len(Items[c]) \in Nat
           /\ Batches /\ pc[c] \in {"item", "write"} =>
                 /\ At(c) \in DOMAIN Items[c] /\ At(c) \in DOMAIN read[c]
                 /\ Item(c) \in Shared /\ Item(c) \in Paths
                 /\ Expected(c) \in Nat /\ read[c][At(c)].content \in Text
                 /\ NewContent(c) \in Text /\ NewContent(c) # <<>>
                 /\ NewContent(c) = Append(read[c][At(c)].content, c)
                 /\ ToSet(NewContent(c)) = ToSet(read[c][At(c)].content) \cup {c}
  <1>1. read[c] \in Seq(Views) /\ results[c] \in Seq({"ok", "conflict", "failed"})  BY DEF TypeInv
  <1>2. /\ Len(read[c]) \in Nat /\ Len(results[c]) \in Nat
        /\ DOMAIN read[c] = 1..Len(read[c]) /\ DOMAIN results[c] = 1..Len(results[c])
        /\ \A i \in DOMAIN read[c] : read[c][i] \in Views
    BY <1>1
  <1>3. \A v \in Views : v.etag \in Nat /\ v.content \in Text  BY DEF Views
  <1>4. ASSUME Batches, pc[c] \in {"item", "write"}
        PROVE  /\ At(c) \in DOMAIN Items[c] /\ At(c) \in DOMAIN read[c]
               /\ Item(c) \in Shared /\ Item(c) \in Paths
               /\ Expected(c) \in Nat /\ read[c][At(c)].content \in Text
               /\ NewContent(c) \in Text /\ NewContent(c) # <<>>
               /\ NewContent(c) = Append(read[c][At(c)].content, c)
               /\ ToSet(NewContent(c)) = ToSet(read[c][At(c)].content) \cup {c}
    <2>1. Len(read[c]) = Len(Items[c]) /\ Len(results[c]) < Len(Items[c])  BY <1>4 DEF Batches
    <2>2. Len(results[c]) + 1 \in 1..Len(Items[c])  BY <1>2, <2>1, NamesDiffer
    <2>3. At(c) \in DOMAIN Items[c] /\ At(c) \in DOMAIN read[c]
      BY <1>2, <2>1, <2>2, NamesDiffer DEF At
    <2>4. Item(c) \in Shared /\ Item(c) \in Paths  BY <2>3, NamesDiffer DEF Item
    <2>5. Expected(c) \in Nat /\ read[c][At(c)].content \in Text  BY <1>2, <1>3, <2>3 DEF Expected
    <2>6. c \in Lines  BY LineTypes
    <2>7. /\ Append(read[c][At(c)].content, c) \in Text
          /\ Append(read[c][At(c)].content, c) # <<>>
          /\ ToSet(Append(read[c][At(c)].content, c)) = ToSet(read[c][At(c)].content) \cup {c}
      BY <2>5, <2>6, Appended DEF Text
    <2> QED  BY <2>3, <2>4, <2>5, <2>7 DEF NewContent
  <1> QED  BY <1>2, <1>3, <1>4, NamesDiffer

LEMMA AnswerIs ==
    ASSUME TypeInv, NEW c \in Callers, NEW a \in {"ok", "conflict", "failed"}, Answer(c, a),
           Batches, pc[c] \in {"item", "write"}
    PROVE  /\ results' \in [Callers -> Seq({"ok", "conflict", "failed"})]
           /\ results'[c] = Append(results[c], a) /\ Len(results'[c]) = Len(results[c]) + 1
           /\ results'[c][At(c)] = a
           /\ \A i \in DOMAIN results[c] : results'[c][i] = results[c][i]
           /\ DOMAIN results'[c] = DOMAIN results[c] \cup {At(c)}
           /\ \A d \in Callers : d # c => results'[d] = results[d]
           /\ Moves(c) /\ pc'[c] = IF At(c) = Len(Items[c]) THEN "done" ELSE "item"
  <1> DEFINE R == {"ok", "conflict", "failed"}
             where == IF At(c) = Len(Items[c]) THEN "done" ELSE "item"
  <1>1. results[c] \in Seq(R) /\ results \in [Callers -> Seq(R)]  BY DEF TypeInv
  <1>2. /\ Append(results[c], a) \in Seq(R) /\ Len(Append(results[c], a)) = Len(results[c]) + 1
        /\ Append(results[c], a)[Len(results[c]) + 1] = a
        /\ \A i \in 1..Len(results[c]) : Append(results[c], a)[i] = results[c][i]
        /\ DOMAIN results[c] = 1..Len(results[c]) /\ Len(results[c]) \in Nat
        /\ DOMAIN Append(results[c], a) = 1..(Len(results[c]) + 1)
    BY <1>1, Appended
  <1>3. results' = [results EXCEPT ![c] = Append(@, a)] /\ Goto(c, where)
    BY DEF Answer, Finished
  <1>4. /\ results' \in [Callers -> Seq(R)] /\ results'[c] = Append(results[c], a)
        /\ \A d \in Callers : d # c => results'[d] = results[d]
    BY <1>1, <1>2, <1>3
  <1>5. DOMAIN results'[c] = DOMAIN results[c] \cup {At(c)}
    <2>1. 1..(Len(results[c]) + 1) = 1..Len(results[c]) \cup {Len(results[c]) + 1}  BY <1>2
    <2> QED  BY <1>2, <1>4, <2>1 DEF At
  <1>6. where \in {"done", "item"} /\ where \in PC /\ where \in CallPC /\ c \notin Runs
    BY NamesDiffer DEF PC, CallPC
  <1> HIDE DEF where
  <1>7. Moves(c) /\ pc'[c] = where
    BY <1>3, <1>6, Goes
  <1> QED  BY <1>2, <1>4, <1>5, <1>7 DEF where, At

LEMMA ArtifactIs ==
    ASSUME NEW r \in Runs
    PROVE  Artifact(r) \in Text /\ Artifact(r) # <<>> /\ ToSet(Artifact(r)) \subseteq {"artifact"}
  <1>1. Threshold + 1 \in Nat /\ "artifact" \in Lines  BY Bounds, LineTypes
  <1> DEFINE a == [i \in 1..(Threshold + 1) |-> "artifact"]
  <1>2. a \in Seq(Lines) /\ a # <<>> /\ ToSet(a) \subseteq {"artifact"}
    <2>1. a \in [1..(Threshold + 1) -> Lines]  BY <1>1
    <2>2. 1 \in DOMAIN a /\ DOMAIN <<>> = {}  BY <1>1, Bounds
    <2> QED  BY <1>1, <2>1, <2>2 DEF ToSet
  <1>3. <<"artifact">> \in Seq(Lines) /\ <<"artifact">> # <<>> /\ ToSet(<<"artifact">>) \subseteq {"artifact"}
    BY <1>1 DEF ToSet
  <1> QED  BY <1>2, <1>3 DEF Artifact, Text

\* What a step of a run does: it reads, it stores a payload, it loses, or it
\* writes one of two things.
RunWrites(r) ==
    \/ pc[r] = "history" /\ Put(r, Artifact(r), 0, "artifact") /\ pc'[r] = "digest"
    \/ /\ pc[r] = "append" /\ Accepts("state", seen[r].etag)
       /\ Put("state", Digest(r), seen[r].etag, r) /\ pc'[r] = "done"
RunElse(r) ==
    /\ UNCHANGED <<primary, landed, blind>>
    /\ \/ pc[r] = "load" /\ pc'[r] = "record"
       \/ pc[r] = "record" /\ pc'[r] \in {"history", "done"}
       \/ pc[r] \in {"append", "trim", "digest", "history"} /\ pc'[r] \in {"digest", "done"}
          /\ (pc[r] = "history" => pc'[r] = "done")
       \/ pc[r] = "digest" /\ pc'[r] = "trim"
       \/ pc[r] = "trim" /\ pc'[r] = "append"

LEMMA RunStep ==
    ASSUME TypeInv, NEW r \in Runs, Run(r) \/ RunFails(r)
    PROVE  /\ TypeInv' /\ UNCHANGED <<read, results>>
           /\ \A d \in Runs \cup Callers : d # r => pc'[d] = pc[d]
           /\ \A q \in Runs : q # r => seen'[q] = seen[q]
           /\ \/ seen'[r] = seen[r] /\ ~(pc[r] = "digest" /\ pc'[r] = "trim")
              \/ seen'[r] = View("state") /\ UNCHANGED primary
           /\ (RunWrites(r) /\ UNCHANGED blobs) \/ RunElse(r)
           /\ \/ UNCHANGED blobs /\ ~(pc[r] = "record" /\ pc'[r] = "history")
                                 /\ ~(pc[r] = "trim" /\ pc'[r] = "append")
              \/ pc[r] = "record" /\ blobs' = Spill(r, Artifact(r)) /\ UNCHANGED seen
              \/ pc[r] = "trim" /\ blobs' = Spill("state", Digest(r)) /\ UNCHANGED seen
  <1>1. ASSUME NEW where \in RunPC, Goto(r, where) PROVE Moves(r) /\ pc'[r] = where
    <2>1. r \notin Callers /\ where \in PC  BY NamesDiffer DEF RunPC, PC
    <2> QED  BY <1>1, <2>1, Goes
  <1>2. UNCHANGED <<read, results>>
    BY DEF Run, RunFails, LoadContext, SpillHistory, WriteHistory, ReadState, SpillState,
           AppendDigest, LoseAppend, client
  <1>3. "state" \in Paths /\ r \in Paths /\ "artifact" \in Lines /\ r \in Lines
    BY NamesDiffer, LineTypes DEF Shared
  <1>4. CASE LoadContext(r)
    <2>1. Moves(r) /\ pc'[r] = "record"  BY <1>1, <1>4 DEF LoadContext, RunPC
    <2>2. pc[r] = "load" /\ UNCHANGED <<primary, blobs, seen, tries, landed, blind>>
      BY <1>4 DEF LoadContext
    <2>3. TypeInv'  BY <1>2, <2>1, <2>2 DEF TypeInv, Moves
    <2> QED  BY <1>2, <2>1, <2>2, <2>3 DEF RunElse, Moves
  <1>5. CASE SpillHistory(r)
    <2>1. Moves(r) /\ pc'[r] = "history"  BY <1>1, <1>5 DEF SpillHistory, RunPC
    <2>2. pc[r] = "record" /\ UNCHANGED <<primary, seen, tries, landed, blind>>
          /\ blobs' = Spill(r, Artifact(r))
      BY <1>5 DEF SpillHistory, client
    <2>3. TypeInv'  BY <1>2, <2>1, <2>2 DEF TypeInv, Moves
    <2> QED  BY <1>2, <2>1, <2>2, <2>3 DEF RunElse, Moves
  <1>6. CASE WriteHistory(r)
    <2>1. Moves(r) /\ pc'[r] = "digest"  BY <1>1, <1>6 DEF WriteHistory, RunPC
    <2>2. pc[r] = "history" /\ Put(r, Artifact(r), 0, "artifact") /\ UNCHANGED <<blobs, seen, tries>>
      BY <1>6 DEF WriteHistory, client
    <2>3. primary' \in [Paths -> Entries] /\ landed' \in [Paths -> Text] /\ blind' \subseteq Paths
      BY <1>3, <2>2, PutIs, ArtifactIs
    <2>4. TypeInv'  BY <1>2, <2>1, <2>2, <2>3 DEF TypeInv, Moves
    <2> QED  BY <1>2, <2>1, <2>2, <2>4 DEF RunWrites, Moves
  <1>7. CASE ReadState(r)
    <2>1. PICK where \in {"trim", "done"} : Goto(r, where)  BY <1>7 DEF ReadState
    <2>2. Moves(r) /\ pc'[r] = where  BY <1>1, <2>1 DEF RunPC
    <2>3. pc[r] = "digest" /\ UNCHANGED <<primary, blobs, tries, landed, blind>>
          /\ seen' = [seen EXCEPT ![r] = View("state")]
      BY <1>7 DEF ReadState
    <2>4. View("state") \in Views  BY <1>3 DEF TypeInv, Entries, View, Views
    <2>5. seen' \in [Runs -> Views] /\ seen'[r] = View("state")
          /\ \A q \in Runs : q # r => seen'[q] = seen[q]
      BY <2>3, <2>4 DEF TypeInv
    <2>6. TypeInv'  BY <1>2, <2>2, <2>3, <2>5 DEF TypeInv, Moves
    <2> QED  BY <1>2, <2>2, <2>3, <2>5, <2>6 DEF RunElse, Moves
  <1>8. CASE SpillState(r)
    <2>1. Moves(r) /\ pc'[r] = "append"  BY <1>1, <1>8 DEF SpillState, RunPC
    <2>2. pc[r] = "trim" /\ UNCHANGED <<primary, seen, tries, landed, blind>>
          /\ blobs' = Spill("state", Digest(r))
      BY <1>8 DEF SpillState, client
    <2>3. TypeInv'  BY <1>2, <2>1, <2>2 DEF TypeInv, Moves
    <2> QED  BY <1>2, <2>1, <2>2, <2>3 DEF RunElse, Moves
  <1>9. CASE AppendDigest(r)
    <2>1. Moves(r) /\ pc'[r] = "done"  BY <1>1, <1>9 DEF AppendDigest, RunPC
    <2>2. /\ pc[r] = "append" /\ Accepts("state", seen[r].etag)
          /\ Put("state", Digest(r), seen[r].etag, r) /\ UNCHANGED <<blobs, seen, tries>>
      BY <1>9 DEF AppendDigest, client
    <2>3. primary' \in [Paths -> Entries] /\ landed' \in [Paths -> Text] /\ blind' \subseteq Paths
      BY <1>3, <2>2, PutIs, DigestIs
    <2>4. TypeInv'  BY <1>2, <2>1, <2>2, <2>3 DEF TypeInv, Moves
    <2> QED  BY <1>2, <2>1, <2>2, <2>4 DEF RunWrites, Moves
  <1>10. CASE LoseAppend(r)
    <2>1. PICK where \in {"digest", "done"} : Goto(r, where)  BY <1>10 DEF LoseAppend
    <2>2. Moves(r) /\ pc'[r] = where  BY <1>1, <2>1 DEF RunPC
    <2>3. pc[r] = "append" /\ UNCHANGED <<primary, blobs, seen, landed, blind>>
          /\ tries' = [tries EXCEPT ![r] = @ + 1]
      BY <1>10 DEF LoseAppend
    <2>4. tries' \in [Runs -> Nat]  BY <2>3 DEF TypeInv
    <2>5. TypeInv'  BY <1>2, <2>2, <2>3, <2>4 DEF TypeInv, Moves
    <2> QED  BY <1>2, <2>2, <2>3, <2>5 DEF RunElse, Moves
  <1>11. CASE RunFails(r)
    <2>1. AfterFault(r) \in {"record", "done"} /\ (AfterFault(r) = "record" <=> pc[r] = "load")
      BY DEF AfterFault
    <2>2. Goto(r, AfterFault(r)) /\ AfterFault(r) \in RunPC  BY <1>11, <2>1 DEF RunFails, RunPC
    <2>3. Moves(r) /\ pc'[r] = AfterFault(r)  BY <1>1, <2>2
    <2>4. pc[r] # "done" /\ UNCHANGED <<primary, blobs, seen, tries, landed, blind>>
      BY <1>11 DEF RunFails
    <2>5. TypeInv'  BY <1>2, <2>3, <2>4 DEF TypeInv, Moves
    <2>6. pc[r] \in RunPC  BY DEF TypeInv
    <2>7. RunElse(r)  BY <2>1, <2>3, <2>4, <2>6 DEF RunElse, RunPC
    <2> QED  BY <1>2, <2>1, <2>3, <2>4, <2>5, <2>7 DEF Moves
  <1> QED  BY <1>4, <1>5, <1>6, <1>7, <1>8, <1>9, <1>10, <1>11 DEF Run

\* What a step of a caller does: it reads, it stores a payload, it is refused,
\* or it writes.
CallReads(c) ==
    /\ pc[c] = "read" /\ UNCHANGED <<primary, landed, blind, blobs, results>>
    /\ \E v \in Taken(Items[c][Len(read[c]) + 1]) : read'[c] = Append(read[c], v)
    /\ pc'[c] = IF Len(read[c]) + 1 = Len(Items[c]) THEN "item" ELSE "read"
CallSpills(c) ==
    /\ pc[c] = "item" /\ pc'[c] = "write" /\ UNCHANGED <<primary, landed, blind, read, results>>
    /\ blobs' = Spill(Item(c), NewContent(c))
CallRefused(c) ==
    /\ pc[c] \in {"item", "write"} /\ UNCHANGED <<primary, landed, blind, blobs, read>>
    /\ \E a \in {"conflict", "failed"} : Answer(c, a)
CallWrites(c) ==
    /\ pc[c] = "write" /\ UNCHANGED <<blobs, read>>
    /\ Accepts(Item(c), Expected(c))
    /\ Put(Item(c), NewContent(c), Expected(c), c) /\ \E a \in {"ok", "failed"} : Answer(c, a)

\* What a caller takes of an entry is the entry, but perhaps for the ETag.
LEMMA TakenIs ==
    ASSUME TypeInv, NEW p \in Paths, NEW v \in Taken(p)
    PROVE  /\ v \in Views /\ v.content = primary[p].content /\ v.etag \in {0, primary[p].etag}
           /\ v.etag \in Nat
  <1>1. primary[p].etag \in Nat /\ primary[p].content \in Text  BY DEF TypeInv, Entries
  <1>2. v = [etag |-> primary[p].etag, content |-> primary[p].content]
        \/ v = [etag |-> 0, content |-> primary[p].content]
    BY DEF Taken, View
  <1> QED  BY <1>1, <1>2 DEF Views

LEMMA CallStep ==
    ASSUME TypeInv, Batches, NEW c \in Callers, Call(c) \/ CallFails(c)
    PROVE  /\ TypeInv' /\ UNCHANGED seen
           /\ \A d \in Runs \cup Callers : d # c => pc'[d] = pc[d]
           /\ \A d \in Callers : d # c => read'[d] = read[d] /\ results'[d] = results[d]
           /\ CallReads(c) \/ CallSpills(c) \/ CallRefused(c) \/ CallWrites(c)
  <1>1. ASSUME NEW where \in CallPC, Goto(c, where) PROVE Moves(c) /\ pc'[c] = where
    <2>1. c \notin Runs /\ where \in PC  BY NamesDiffer DEF CallPC, PC
    <2> QED  BY <1>1, <2>1, Goes
  <1>2. ASSUME NEW a \in {"ok", "conflict", "failed"}, Answer(c, a), pc[c] \in {"item", "write"}
        PROVE  /\ Moves(c) /\ results' \in [Callers -> Seq({"ok", "conflict", "failed"})]
               /\ \A d \in Callers : d # c => results'[d] = results[d]
    <2>1. Answer(c, a) /\ pc[c] \in {"item", "write"}  BY <1>2
    <2>2. /\ results' \in [Callers -> Seq({"ok", "conflict", "failed"})]
          /\ \A d \in Callers : d # c => results'[d] = results[d]
      BY <2>1, AnswerIs
    <2>3. Moves(c)  BY <2>1, AnswerIs
    <2> QED  BY <2>2, <2>3 DEF Moves
  <1>3. CASE ReadItem(c)
    <2> DEFINE p == Items[c][Len(read[c]) + 1]
    <2>0. PICK v \in Taken(p) : read' = [read EXCEPT ![c] = Append(@, v)]  BY <1>3 DEF ReadItem
    <2>1. /\ pc[c] = "read"
          /\ Goto(c, IF Len(read'[c]) = Len(Items[c]) THEN "item" ELSE "read")
          /\ UNCHANGED <<primary, blobs, seen, tries, results, landed, blind>>
      BY <1>3 DEF ReadItem
    <2>2. Len(read[c]) < Len(Items[c])  BY <2>1 DEF Batches
    <2>3. Len(read[c]) + 1 \in DOMAIN Items[c]  BY <2>2, BatchIs
    <2>4. p \in Paths  BY <2>3, NamesDiffer
    <2>5. v \in Views  BY <2>0, <2>4, TakenIs
    <2> HIDE DEF p
    <2>6. read \in [Callers -> Seq(Views)]  BY DEF TypeInv
    <2>7. Append(read[c], v) \in Seq(Views) /\ Len(Append(read[c], v)) = Len(read[c]) + 1
      BY <2>5, <2>6, Appended
    <2>8. read' \in [Callers -> Seq(Views)] /\ read'[c] = Append(read[c], v)
          /\ \A d \in Callers : d # c => read'[d] = read[d]
      BY <2>0, <2>6, <2>7
    <2> DEFINE where == IF Len(read[c]) + 1 = Len(Items[c]) THEN "item" ELSE "read"
    <2>9. Goto(c, where) /\ where \in CallPC  BY <2>1, <2>7, <2>8 DEF CallPC
    <2> HIDE DEF where
    <2>10. Moves(c) /\ pc'[c] = where  BY <1>1, <2>9
    <2>11. TypeInv'  BY <2>1, <2>8, <2>10 DEF TypeInv, Moves
    <2>12. \E w \in Taken(Items[c][Len(read[c]) + 1]) : read'[c] = Append(read[c], w)
      BY <2>0, <2>8 DEF p
    <2> QED  BY <2>1, <2>8, <2>10, <2>11, <2>12 DEF CallReads, where, Moves
  <1>4. CASE SpillItem(c)
    <2>1. pc[c] = "item" /\ blobs' = Spill(Item(c), NewContent(c)) /\ Goto(c, "write")
          /\ UNCHANGED <<primary, seen, tries, read, results, landed, blind>>
      BY <1>4 DEF SpillItem, client
    <2>2. Moves(c) /\ pc'[c] = "write"  BY <1>1, <2>1 DEF CallPC
    <2>3. TypeInv'  BY <2>1, <2>2 DEF TypeInv, Moves
    <2> QED  BY <2>1, <2>2, <2>3 DEF CallSpills, Moves
  <1>5. CASE (WriteItem(c) /\ Accepts(Item(c), Expected(c))) \/ LoseAnswer(c)
    <2>0. PICK a \in {"ok", "failed"} : Answer(c, a)  BY <1>5 DEF WriteItem, LoseAnswer
    <2>1. /\ pc[c] = "write" /\ Put(Item(c), NewContent(c), Expected(c), c)
          /\ Accepts(Item(c), Expected(c)) /\ UNCHANGED <<blobs, seen, tries, read>>
      BY <1>5 DEF WriteItem, LoseAnswer
    <2>2. /\ Moves(c) /\ results' \in [Callers -> Seq({"ok", "conflict", "failed"})]
          /\ \A d \in Callers : d # c => results'[d] = results[d]
      BY <1>2, <2>0, <2>1
    <2>3. Item(c) \in Paths /\ NewContent(c) \in Text /\ c \in Lines  BY <2>1, BatchIs, LineTypes
    <2>4. primary' \in [Paths -> Entries] /\ landed' \in [Paths -> Text] /\ blind' \subseteq Paths
      BY <2>1, <2>3, PutIs
    <2>5. TypeInv'  BY <2>1, <2>2, <2>4 DEF TypeInv, Moves
    <2> QED  BY <2>0, <2>1, <2>2, <2>5 DEF CallWrites, Moves
  <1>6. CASE (WriteItem(c) /\ ~Accepts(Item(c), Expected(c))) \/ (CallFails(c) /\ ~LoseAnswer(c))
    <2>1. PICK a \in {"conflict", "failed"} : Answer(c, a)  BY <1>6 DEF WriteItem, CallFails
    <2>2. pc[c] \in {"item", "write"}
          /\ UNCHANGED <<primary, landed, blind, blobs, seen, tries, read>>
      BY <1>6 DEF WriteItem, CallFails
    <2>3. /\ Moves(c) /\ results' \in [Callers -> Seq({"ok", "conflict", "failed"})]
          /\ \A d \in Callers : d # c => results'[d] = results[d]
      BY <1>2, <2>1, <2>2
    <2>4. TypeInv'  BY <2>2, <2>3 DEF TypeInv, Moves
    <2> QED  BY <2>1, <2>2, <2>3, <2>4 DEF CallRefused, Moves
  <1> QED  BY <1>3, <1>4, <1>5, <1>6 DEF Call

LEMMA ReadIs ==
    ASSUME TypeInv, Batches, NEW c \in Callers, CallReads(c)
    PROVE  /\ \A i \in DOMAIN read'[c] : i \in DOMAIN read[c] \/ i = Len(read[c]) + 1
           /\ \A i \in DOMAIN read[c] : read'[c][i] = read[c][i]
           /\ Len(read'[c]) = Len(read[c]) + 1 /\ Len(read[c]) < Len(Items[c])
           /\ read'[c][Len(read[c]) + 1] \in Taken(Items[c][Len(read[c]) + 1])
           /\ Items[c][Len(read[c]) + 1] \in Shared /\ Items[c][Len(read[c]) + 1] \in Paths
  <1> DEFINE p == Items[c][Len(read[c]) + 1]
  <1>1. Len(read[c]) < Len(Items[c])  BY DEF CallReads, Batches
  <1>2. Len(read[c]) + 1 \in DOMAIN Items[c]  BY <1>1, BatchIs
  <1>3. p \in Shared /\ p \in Paths  BY <1>2, NamesDiffer
  <1>4. PICK v \in Taken(p) : read'[c] = Append(read[c], v)  BY DEF CallReads
  <1>5. v \in Views  BY <1>3, <1>4, TakenIs
  <1> HIDE DEF p
  <1>6. read[c] \in Seq(Views)  BY DEF TypeInv
  <1>7. /\ Len(Append(read[c], v)) = Len(read[c]) + 1 /\ Len(read[c]) \in Nat
        /\ Append(read[c], v)[Len(read[c]) + 1] = v
        /\ \A i \in 1..Len(read[c]) : Append(read[c], v)[i] = read[c][i]
        /\ DOMAIN read[c] = 1..Len(read[c])
        /\ DOMAIN Append(read[c], v) = 1..(Len(read[c]) + 1)
    BY <1>5, <1>6, Appended
  <1> QED  BY <1>1, <1>3, <1>4, <1>7 DEF p

\* What a caller has read stays in its hands.
LEMMA ReadsStay ==
    ASSUME TypeInv, Batches, [Next]_vars, NEW d \in Callers, NEW i \in DOMAIN read[d]
    PROVE  /\ i \in DOMAIN read'[d] /\ read'[d][i] = read[d][i]
           /\ Omitted(d, i)' <=> Omitted(d, i)
  <1>1. SUFFICES i \in DOMAIN read'[d] /\ read'[d][i] = read[d][i]  BY DEF Omitted
  <1>2. ASSUME NEW r \in Runs, Run(r) \/ RunFails(r) PROVE UNCHANGED read  BY <1>2, RunStep
  <1>3. ASSUME NEW c \in Callers, Call(c) \/ CallFails(c)
        PROVE  i \in DOMAIN read'[d] /\ read'[d][i] = read[d][i]
    <2>1. /\ TypeInv' /\ \A e \in Callers : e # c => read'[e] = read[e]
          /\ CallReads(c) \/ CallSpills(c) \/ CallRefused(c) \/ CallWrites(c)
      BY <1>3, CallStep
    <2>2. CASE CallReads(c) /\ d = c
      <3>1. /\ read'[c][i] = read[c][i] /\ Len(read'[c]) = Len(read[c]) + 1
            /\ Len(read[c]) \in Nat /\ i \in 1..Len(read[c])
        BY <2>2, ReadIs, BatchIs
      <3>2. DOMAIN read'[c] = 1..Len(read'[c])  BY <2>1 DEF TypeInv
      <3> QED  BY <2>2, <3>1, <3>2
    <2>3. CASE ~(CallReads(c) /\ d = c)
      BY <2>1, <2>3 DEF CallSpills, CallRefused, CallWrites
    <2> QED  BY <2>2, <2>3
  <1> QED  BY <1>2, <1>3, Steps

\* Entries change one at a time, as a whole, under a new ETag.
Grows ==
    /\ blobs \subseteq blobs'
    /\ \A p \in Paths : /\ primary[p].etag <= primary'[p].etag
                        /\ primary'[p].etag = primary[p].etag => primary'[p] = primary[p]
                        /\ ToSet(landed[p]) \subseteq ToSet(landed'[p])

LEMMA Growth ==
    ASSUME TypeInv, Batches, [Next]_vars
    PROVE  TypeInv' /\ Grows
  <1>1. \A p \in Paths : primary[p].etag \in Nat  BY DEF TypeInv, Entries
  <1>2. ASSUME NEW p \in Paths, NEW content \in Text, NEW expected, NEW line \in Lines,
               Put(p, content, expected, line), blobs \subseteq blobs'
        PROVE  Grows
    <2>1. /\ primary'[p].etag = primary[p].etag + 1
          /\ ToSet(landed'[p]) = ToSet(landed[p]) \cup {line}
          /\ \A q \in Paths : q # p => primary'[q] = primary[q] /\ landed'[q] = landed[q]
      BY <1>2, PutIs
    <2>2. ASSUME NEW q \in Paths
          PROVE  /\ primary[q].etag <= primary'[q].etag
                 /\ primary'[q].etag = primary[q].etag => primary'[q] = primary[q]
                 /\ ToSet(landed[q]) \subseteq ToSet(landed'[q])
      <3>1. CASE q = p  BY <1>1, <2>1, <3>1
      <3>2. CASE q # p  BY <1>1, <2>1, <3>2
      <3> QED  BY <3>1, <3>2
    <2> QED  BY <1>2, <2>2 DEF Grows
  <1>3. ASSUME UNCHANGED <<primary, landed>>, blobs \subseteq blobs' PROVE Grows
    BY <1>1, <1>3 DEF Grows
  <1>4. \A p, content : blobs \subseteq Spill(p, content)  BY DEF Spill, PutBlob
  <1>5. ASSUME NEW r \in Runs, Run(r) \/ RunFails(r) PROVE TypeInv' /\ Grows
    <2>1. TypeInv' /\ blobs \subseteq blobs' /\ (RunWrites(r) \/ RunElse(r))
      BY <1>4, <1>5, RunStep
    <2>2. "state" \in Paths /\ r \in Paths /\ "artifact" \in Lines /\ r \in Lines
      BY NamesDiffer, LineTypes DEF Shared
    <2>3. CASE RunWrites(r)  BY <1>2, <2>1, <2>2, <2>3, ArtifactIs, DigestIs DEF RunWrites
    <2>4. CASE RunElse(r)  BY <1>3, <2>1, <2>4 DEF RunElse
    <2> QED  BY <2>1, <2>3, <2>4
  <1>6. ASSUME NEW c \in Callers, Call(c) \/ CallFails(c) PROVE TypeInv' /\ Grows
    <2>1. TypeInv' /\ (CallReads(c) \/ CallSpills(c) \/ CallRefused(c) \/ CallWrites(c))
      BY <1>6, CallStep
    <2>2. CASE CallWrites(c)
      <3>1. Item(c) \in Paths /\ NewContent(c) \in Text /\ c \in Lines
        BY <2>2, BatchIs, LineTypes DEF CallWrites
      <3> QED  BY <1>2, <2>1, <2>2, <3>1 DEF CallWrites
    <2>3. CASE CallReads(c) \/ CallSpills(c) \/ CallRefused(c)
      BY <1>3, <1>4, <2>1, <2>3 DEF CallReads, CallSpills, CallRefused
    <2> QED  BY <2>1, <2>2, <2>3
  <1>7. CASE UNCHANGED <<primary, blobs, pc, seen, tries, read, results, landed, blind>>
    <2>1. TypeInv'  BY <1>7 DEF TypeInv
    <2> QED  BY <1>3, <1>7, <2>1
  <1> QED  BY <1>5, <1>6, <1>7, Steps
-----------------------------------------------------------------------------
(* What a step keeps. *)

\* The payload is stored first.
LEMMA PayloadsStay ==
    ASSUME TypeInv, Batches, BlobsFirst, [Next]_vars
    PROVE  BlobsFirst'
  <1>1. TypeInv' /\ Grows  BY Growth
  <1>2. \A p, content : /\ blobs \subseteq Spill(p, content)
                        /\ Spills(content) => <<p, content>> \in Spill(p, content)
    BY DEF Spill, PutBlob
  <1>3. ASSUME NEW p \in Paths, NEW content \in Text, NEW expected, NEW line \in Lines,
               Put(p, content, expected, line), Spills(content) => <<p, content>> \in blobs
        PROVE  \A q \in Paths : Readable(q)'
    <2>1. /\ primary'[p].content = content /\ primary'[p].spilled = Spills(content)
          /\ \A q \in Paths : q # p => primary'[q] = primary[q]
      BY <1>3, PutIs
    <2>2. Readable(p)'  BY <1>1, <1>3, <2>1 DEF Readable, Grows
    <2>3. \A q \in Paths : q # p => Readable(q)'  BY <1>1, <2>1 DEF Readable, Grows, BlobsFirst
    <2> QED  BY <2>2, <2>3
  <1>4. ASSUME UNCHANGED primary PROVE \A q \in Paths : Readable(q)'
    BY <1>1, <1>4 DEF Readable, Grows, BlobsFirst
  <1>5. ASSUME NEW q \in Runs, seen'[q] = seen[q], pc'[q] = pc[q]
        PROVE  /\ pc'[q] = "history" /\ Spills(Artifact(q)') => <<q, Artifact(q)'>> \in blobs'
               /\ pc'[q] = "append" /\ Spills(Digest(q)') => <<"state", Digest(q)'>> \in blobs'
    <2>1. Digest(q)' = Digest(q) /\ Artifact(q)' = Artifact(q)  BY <1>5 DEF Digest, Artifact
    <2> QED  BY <1>1, <1>5, <2>1 DEF Grows, BlobsFirst
  <1>6. ASSUME NEW d \in Callers, read'[d] = read[d], results'[d] = results[d], pc'[d] = pc[d]
        PROVE  pc'[d] = "write" /\ Spills(NewContent(d)') => <<Item(d)', NewContent(d)'>> \in blobs'
    <2>1. NewContent(d)' = NewContent(d) /\ Item(d)' = Item(d)  BY <1>6 DEF NewContent, Item, At
    <2> QED  BY <1>1, <1>6, <2>1 DEF Grows, BlobsFirst
  <1>7. \A r \in Runs : r \in Paths /\ r \notin Callers /\ r \in Lines /\ "state" \in Paths /\ "artifact" \in Lines
    BY NamesDiffer, LineTypes DEF Shared
  <1>8. ASSUME NEW r \in Runs, Run(r) \/ RunFails(r) PROVE BlobsFirst'
    <2>1. /\ UNCHANGED <<read, results>>
          /\ \A d \in Runs \cup Callers : d # r => pc'[d] = pc[d]
          /\ \A q \in Runs : q # r => seen'[q] = seen[q]
          /\ (RunWrites(r) /\ UNCHANGED blobs) \/ RunElse(r)
          /\ \/ UNCHANGED blobs /\ ~(pc[r] = "record" /\ pc'[r] = "history")
                                /\ ~(pc[r] = "trim" /\ pc'[r] = "append")
             \/ pc[r] = "record" /\ blobs' = Spill(r, Artifact(r)) /\ UNCHANGED seen
             \/ pc[r] = "trim" /\ blobs' = Spill("state", Digest(r)) /\ UNCHANGED seen
      BY <1>8, RunStep
    <2>2. \A q \in Paths : Readable(q)'
      <3>1. CASE pc[r] = "history" /\ Put(r, Artifact(r), 0, "artifact")
        BY <1>3, <1>7, <3>1, ArtifactIs DEF BlobsFirst
      <3>2. CASE pc[r] = "append" /\ Put("state", Digest(r), seen[r].etag, r)
        BY <1>3, <1>7, <3>2, DigestIs DEF BlobsFirst
      <3>3. CASE UNCHANGED primary  BY <1>4, <3>3
      <3> QED  BY <2>1, <3>1, <3>2, <3>3 DEF RunWrites, RunElse
    <2>3. ASSUME pc'[r] = "history", Spills(Artifact(r)') PROVE <<r, Artifact(r)'>> \in blobs'
      <3>1. Artifact(r)' = Artifact(r)  BY DEF Artifact
      <3>2. pc[r] = "record"  BY <2>1, <2>3 DEF RunWrites, RunElse
      <3> QED  BY <1>2, <2>1, <2>3, <3>1, <3>2
    <2>4. ASSUME pc'[r] = "append", Spills(Digest(r)') PROVE <<"state", Digest(r)'>> \in blobs'
      <3>1. pc[r] = "trim"  BY <2>1, <2>4 DEF RunWrites, RunElse
      <3>2. UNCHANGED seen /\ blobs' = Spill("state", Digest(r))  BY <2>1, <2>4, <3>1
      <3>3. Digest(r)' = Digest(r)  BY <3>2 DEF Digest
      <3> QED  BY <1>2, <2>4, <3>2, <3>3
    <2>5. \A q \in Runs : /\ pc'[q] = "history" /\ Spills(Artifact(q)') => <<q, Artifact(q)'>> \in blobs'
                          /\ pc'[q] = "append" /\ Spills(Digest(q)') => <<"state", Digest(q)'>> \in blobs'
      BY <1>5, <2>1, <2>3, <2>4
    <2>6. \A d \in Callers : pc'[d] = "write" /\ Spills(NewContent(d)') => <<Item(d)', NewContent(d)'>> \in blobs'
      BY <1>6, <1>7, <2>1
    <2> QED  BY <2>2, <2>5, <2>6 DEF BlobsFirst
  <1>9. ASSUME NEW c \in Callers, Call(c) \/ CallFails(c) PROVE BlobsFirst'
    <2>1. /\ UNCHANGED seen
          /\ \A d \in Runs \cup Callers : d # c => pc'[d] = pc[d]
          /\ \A d \in Callers : d # c => read'[d] = read[d] /\ results'[d] = results[d]
          /\ CallReads(c) \/ CallSpills(c) \/ CallRefused(c) \/ CallWrites(c)
      BY <1>9, CallStep
    <2>2. \A q \in Paths : Readable(q)'
      <3>1. CASE CallWrites(c)
        <4>1. Item(c) \in Paths /\ NewContent(c) \in Text /\ c \in Lines
          BY <3>1, BatchIs, LineTypes DEF CallWrites
        <4> QED  BY <1>3, <3>1, <4>1 DEF CallWrites, BlobsFirst
      <3>2. CASE UNCHANGED primary  BY <1>4, <3>2
      <3> QED  BY <2>1, <3>1, <3>2 DEF CallReads, CallSpills, CallRefused
    <2>3. ASSUME pc'[c] = "write", Spills(NewContent(c)') PROVE <<Item(c)', NewContent(c)'>> \in blobs'
      <3>1. CASE CallSpills(c)
        <4>1. NewContent(c)' = NewContent(c) /\ Item(c)' = Item(c)
          BY <3>1 DEF CallSpills, NewContent, Item, At
        <4> QED  BY <1>2, <2>3, <3>1, <4>1 DEF CallSpills
      <3>2. CASE CallReads(c)  BY <2>3, <3>2 DEF CallReads
      <3>3. ASSUME NEW a \in {"ok", "conflict", "failed"}, Answer(c, a), pc[c] \in {"item", "write"}
            PROVE FALSE
        BY <2>3, <3>3, AnswerIs
      <3> QED  BY <2>1, <3>1, <3>2, <3>3 DEF CallRefused, CallWrites
    <2>4. \A d \in Callers : pc'[d] = "write" /\ Spills(NewContent(d)') => <<Item(d)', NewContent(d)'>> \in blobs'
      BY <1>6, <2>1, <2>3
    <2>5. \A q \in Runs : /\ pc'[q] = "history" /\ Spills(Artifact(q)') => <<q, Artifact(q)'>> \in blobs'
                          /\ pc'[q] = "append" /\ Spills(Digest(q)') => <<"state", Digest(q)'>> \in blobs'
      BY <1>5, <1>7, <2>1
    <2> QED  BY <2>2, <2>4, <2>5 DEF BlobsFirst
  <1>10. CASE UNCHANGED <<primary, blobs, pc, seen, tries, read, results, landed, blind>>
    BY <1>4, <1>5, <1>6, <1>10 DEF BlobsFirst
  <1> QED  BY <1>8, <1>9, <1>10, Steps

\* What was read stays what it was under its ETag.
StillAgrees(view, p) == /\ view.etag <= primary'[p].etag
                        /\ view.etag = primary'[p].etag => view.content = primary'[p].content

LEMMA ViewsAgree ==
    ASSUME TypeInv, Batches, Fresh, [Next]_vars
    PROVE  Fresh'
  <1>1. TypeInv' /\ Grows  BY Growth
  <1>2. \A p \in Paths : primary[p].etag \in Nat /\ primary'[p].etag \in Nat
    BY <1>1 DEF TypeInv, Entries
  <1>3. ASSUME NEW p \in Paths, NEW v \in Views, Agrees(v, p) PROVE StillAgrees(v, p)
    <2>1. v.etag \in Nat  BY DEF Views
    <2> QED  BY <1>1, <1>2, <1>3, <2>1 DEF Agrees, StillAgrees, Grows
  <1>4. ASSUME NEW p \in Paths, UNCHANGED primary, NEW v \in Taken(p) PROVE StillAgrees(v, p)
    BY <1>2, <1>4, TakenIs DEF StillAgrees
  <1>5. "state" \in Paths  BY NamesDiffer DEF Shared
  <1>6. ASSUME NEW q \in Runs PROVE StillAgrees(seen[q], "state")
    <2>1. seen[q] \in Views  BY DEF TypeInv
    <2> QED  BY <1>3, <1>5, <2>1 DEF Fresh
  <1>7. ASSUME NEW d \in Callers, NEW i \in DOMAIN read[d] PROVE StillAgrees(read[d][i], Items[d][i])
    <2>1. read[d][i] \in Views /\ i \in DOMAIN Items[d]  BY BatchIs DEF Batches
    <2>2. Items[d][i] \in Paths  BY <2>1, NamesDiffer
    <2>3. Agrees(read[d][i], Items[d][i])  BY DEF Fresh
    <2> QED  BY <1>3, <2>1, <2>2, <2>3
  <1>8. SUFFICES /\ \A q \in Runs : StillAgrees(seen'[q], "state")
                 /\ \A d \in Callers : \A i \in DOMAIN read'[d] : StillAgrees(read'[d][i], Items[d][i])
    BY DEF Fresh, Agrees, StillAgrees
  <1>9. ASSUME NEW r \in Runs, Run(r) \/ RunFails(r)
        PROVE  /\ \A q \in Runs : StillAgrees(seen'[q], "state")
               /\ \A d \in Callers : \A i \in DOMAIN read'[d] : StillAgrees(read'[d][i], Items[d][i])
    <2>1. /\ UNCHANGED read
          /\ \A q \in Runs : q # r => seen'[q] = seen[q]
          /\ seen'[r] = seen[r] \/ (seen'[r] = View("state") /\ UNCHANGED primary)
      BY <1>9, RunStep
    <2>2. StillAgrees(seen'[r], "state")
      <3>1. CASE seen'[r] = seen[r]  BY <1>6, <3>1
      <3>2. CASE seen'[r] = View("state") /\ UNCHANGED primary  BY <1>4, <1>5, <3>2 DEF Taken
      <3> QED  BY <2>1, <3>1, <3>2
    <2>3. ASSUME NEW q \in Runs, q # r PROVE StillAgrees(seen'[q], "state")
      BY <1>6, <2>1, <2>3
    <2> QED  BY <1>7, <2>1, <2>2, <2>3
  <1>10. ASSUME NEW c \in Callers, Call(c) \/ CallFails(c)
         PROVE  /\ \A q \in Runs : StillAgrees(seen'[q], "state")
                /\ \A d \in Callers : \A i \in DOMAIN read'[d] : StillAgrees(read'[d][i], Items[d][i])
    <2>1. /\ UNCHANGED seen /\ \A d \in Callers : d # c => read'[d] = read[d]
          /\ CallReads(c) \/ CallSpills(c) \/ CallRefused(c) \/ CallWrites(c)
      BY <1>10, CallStep
    <2>2. CASE read'[c] = read[c]
      <3>1. \A d \in Callers : read'[d] = read[d]  BY <2>1, <2>2
      <3> QED  BY <1>6, <1>7, <2>1, <3>1
    <2>3. CASE CallReads(c)
      <3>1. /\ \A i \in DOMAIN read'[c] : i \in DOMAIN read[c] \/ i = Len(read[c]) + 1
            /\ \A i \in DOMAIN read[c] : read'[c][i] = read[c][i]
            /\ read'[c][Len(read[c]) + 1] \in Taken(Items[c][Len(read[c]) + 1])
            /\ Items[c][Len(read[c]) + 1] \in Paths
        BY <2>3, ReadIs
      <3>2. UNCHANGED primary  BY <2>3 DEF CallReads
      <3>3. ASSUME NEW i \in DOMAIN read'[c] PROVE StillAgrees(read'[c][i], Items[c][i])
        <4>1. CASE i \in DOMAIN read[c]  BY <1>7, <3>1, <4>1
        <4>2. CASE i = Len(read[c]) + 1  BY <1>4, <3>1, <3>2, <4>2
        <4> QED  BY <3>1, <4>1, <4>2
      <3>4. ASSUME NEW d \in Callers, d # c, NEW i \in DOMAIN read'[d]
            PROVE  StillAgrees(read'[d][i], Items[d][i])
        BY <1>7, <2>1, <3>4
      <3> QED  BY <1>6, <2>1, <3>3, <3>4
    <2> QED  BY <2>1, <2>2, <2>3 DEF CallSpills, CallRefused, CallWrites
  <1>11. CASE UNCHANGED <<primary, blobs, pc, seen, tries, read, results, landed, blind>>
    BY <1>6, <1>7, <1>11
  <1> QED  BY <1>9, <1>10, <1>11, Steps

\* Every item is answered in its turn.
LEMMA BatchesAdvance ==
    ASSUME TypeInv, Batches, [Next]_vars
    PROVE  Batches'
  <1>1. ASSUME NEW d \in Callers, read'[d] = read[d], results'[d] = results[d], pc'[d] = pc[d]
        PROVE  /\ Len(read'[d]) <= Len(Items[d])
               /\ pc'[d] = "read" => Len(read'[d]) < Len(Items[d]) /\ results'[d] = <<>>
               /\ pc'[d] \in {"item", "write"} => /\ Len(read'[d]) = Len(Items[d])
                                                  /\ Len(results'[d]) < Len(Items[d])
               /\ pc'[d] = "done" => Len(read'[d]) = Len(Items[d]) /\ Len(results'[d]) = Len(Items[d])
    BY <1>1 DEF Batches
  <1>2. ASSUME NEW r \in Runs, Run(r) \/ RunFails(r) PROVE Batches'
    <2>1. UNCHANGED <<read, results>> /\ \A d \in Runs \cup Callers : d # r => pc'[d] = pc[d]
      BY <1>2, RunStep
    <2> QED  BY <1>1, <2>1, NamesDiffer DEF Batches
  <1>3. ASSUME NEW c \in Callers, Call(c) \/ CallFails(c) PROVE Batches'
    <2>1. /\ \A d \in Runs \cup Callers : d # c => pc'[d] = pc[d]
          /\ \A d \in Callers : d # c => read'[d] = read[d] /\ results'[d] = results[d]
          /\ CallReads(c) \/ CallSpills(c) \/ CallRefused(c) \/ CallWrites(c)
      BY <1>3, CallStep
    <2>2. Len(read[c]) \in Nat /\ Len(results[c]) \in Nat /\ Len(Items[c]) \in Nat  BY BatchIs
    <2>3. /\ Len(read'[c]) <= Len(Items[c])
          /\ pc'[c] = "read" => Len(read'[c]) < Len(Items[c]) /\ results'[c] = <<>>
          /\ pc'[c] \in {"item", "write"} => /\ Len(read'[c]) = Len(Items[c])
                                             /\ Len(results'[c]) < Len(Items[c])
          /\ pc'[c] = "done" => Len(read'[c]) = Len(Items[c]) /\ Len(results'[c]) = Len(Items[c])
      <3>1. CASE CallReads(c)
        <4>1. Len(read'[c]) = Len(read[c]) + 1 /\ Len(read[c]) < Len(Items[c])  BY <3>1, ReadIs
        <4>2. results'[c] = <<>> /\ pc'[c] = IF Len(read[c]) + 1 = Len(Items[c]) THEN "item" ELSE "read"
          BY <3>1 DEF CallReads, Batches
        <4>3. Len(<<>>) = 0  OBVIOUS
        <4> QED  BY <2>2, <4>1, <4>2, <4>3
      <3>2. CASE CallSpills(c)  BY <3>2 DEF CallSpills, Batches
      <3>3. ASSUME NEW a \in {"ok", "conflict", "failed"}, Answer(c, a), pc[c] \in {"item", "write"},
                   UNCHANGED read
            PROVE  /\ pc'[c] \in {"item", "done"} /\ Len(read'[c]) = Len(Items[c])
                   /\ pc'[c] = "item" => Len(results'[c]) < Len(Items[c])
                   /\ pc'[c] = "done" => Len(results'[c]) = Len(Items[c])
        <4>1. /\ Len(results'[c]) = Len(results[c]) + 1
              /\ pc'[c] = IF At(c) = Len(Items[c]) THEN "done" ELSE "item"
          BY <3>3, AnswerIs
        <4>2. Len(read[c]) = Len(Items[c]) /\ Len(results[c]) < Len(Items[c])  BY <3>3 DEF Batches
        <4> QED  BY <2>2, <3>3, <4>1, <4>2 DEF At
      <3>4. CASE CallRefused(c) \/ CallWrites(c)
        <4>1. PICK a \in {"ok", "conflict", "failed"} :
                 Answer(c, a) /\ pc[c] \in {"item", "write"} /\ UNCHANGED read
          BY <3>4 DEF CallRefused, CallWrites
        <4> QED  BY <2>2, <3>3, <4>1
      <3> QED  BY <2>1, <3>1, <3>2, <3>4
    <2> QED  BY <1>1, <2>1, <2>3 DEF Batches
  <1>4. CASE UNCHANGED <<primary, blobs, pc, seen, tries, read, results, landed, blind>>
    BY <1>1, <1>4 DEF Batches
  <1> QED  BY <1>2, <1>3, <1>4, Steps

\* A line of a caller is in an entry when an item of the caller was answered ok.
LEMMA AnswersTell ==
    ASSUME TypeInv, Batches, Answered, [Next]_vars
    PROVE  Answered'
  <1>1. TypeInv' /\ Grows  BY Growth
  <1> DEFINE Told1(d) == \A i \in DOMAIN results'[d] : results'[d][i] = "ok" =>
                            d \in ToSet(landed'[Items[d][i]])
             Told2(d) == \A p \in Paths : d \in ToSet(landed'[p]) =>
                            \E i \in DOMAIN results'[d] :
                               Items[d][i] = p /\ results'[d][i] \in {"ok", "failed"}
  <1>2. ASSUME NEW d \in Callers, results'[d] = results[d] PROVE Told1(d)
    <2>1. ASSUME NEW i \in DOMAIN results[d], results[d][i] = "ok" PROVE d \in ToSet(landed'[Items[d][i]])
      <3>1. d \in ToSet(landed[Items[d][i]])  BY <2>1 DEF Answered
      <3>2. Items[d][i] \in Paths
        <4>1. Len(results[d]) <= Len(Items[d])
          <5>1. pc[d] \in CallPC  BY DEF TypeInv
          <5>2. Len(<<>>) = 0  OBVIOUS
          <5> QED  BY <5>1, <5>2, BatchIs DEF Batches, CallPC
        <4>2. i \in DOMAIN Items[d]  BY <4>1, BatchIs
        <4> QED  BY <4>2, NamesDiffer
      <3> QED  BY <1>1, <3>1, <3>2 DEF Grows
    <2> QED  BY <1>2, <2>1
  <1>3. ASSUME NEW d \in Callers, results'[d] = results[d],
               \A p \in Paths : d \in ToSet(landed'[p]) => d \in ToSet(landed[p])
        PROVE  Told2(d)
    BY <1>3 DEF Answered
  <1>4. SUFFICES \A d \in Callers : Told1(d) /\ Told2(d)  BY DEF Answered
  <1>5. ASSUME NEW r \in Runs, Run(r) \/ RunFails(r) PROVE \A d \in Callers : Told1(d) /\ Told2(d)
    <2>1. UNCHANGED results /\ (RunWrites(r) \/ RunElse(r))  BY <1>5, RunStep
    <2>2. /\ "state" \in Paths /\ r \in Paths /\ "artifact" \in Lines /\ r \in Lines
          /\ \A d \in Callers : d # r /\ d # "artifact"
      BY NamesDiffer, LineTypes DEF Shared
    <2>3. ASSUME NEW p \in Paths, NEW content \in Text, NEW expected, NEW line \in Lines,
                 Put(p, content, expected, line), NEW d \in Callers, d # line
          PROVE  \A q \in Paths : d \in ToSet(landed'[q]) => d \in ToSet(landed[q])
      <3>1. /\ ToSet(landed'[p]) = ToSet(landed[p]) \cup {line}
            /\ \A q \in Paths : q # p => landed'[q] = landed[q]
        BY <2>3, PutIs
      <3> QED  BY <2>3, <3>1
    <2>4. ASSUME NEW d \in Callers
          PROVE  \A p \in Paths : d \in ToSet(landed'[p]) => d \in ToSet(landed[p])
      <3>1. CASE pc[r] = "history" /\ Put(r, Artifact(r), 0, "artifact")
        BY <2>2, <2>3, <3>1, ArtifactIs
      <3>2. CASE pc[r] = "append" /\ Put("state", Digest(r), seen[r].etag, r)
        BY <2>2, <2>3, <3>2, DigestIs
      <3>3. CASE UNCHANGED landed  BY <3>3
      <3> QED  BY <2>1, <3>1, <3>2, <3>3 DEF RunWrites, RunElse
    <2> QED  BY <1>2, <1>3, <2>1, <2>4
  <1>6. ASSUME NEW c \in Callers, Call(c) \/ CallFails(c) PROVE \A d \in Callers : Told1(d) /\ Told2(d)
    <2>1. /\ \A d \in Callers : d # c => results'[d] = results[d]
          /\ CallReads(c) \/ CallSpills(c) \/ CallRefused(c) \/ CallWrites(c)
      BY <1>6, CallStep
    <2>2. CASE CallReads(c) \/ CallSpills(c)
      <3>1. UNCHANGED <<landed, results>>  BY <2>2 DEF CallReads, CallSpills
      <3> QED  BY <1>2, <1>3, <3>1
    <2>3. ASSUME NEW a \in {"ok", "conflict", "failed"}, Answer(c, a), pc[c] \in {"item", "write"}
          PROVE  /\ results'[c][At(c)] = a /\ At(c) \in DOMAIN results'[c]
                 /\ \A i \in DOMAIN results[c] : i \in DOMAIN results'[c] /\ results'[c][i] = results[c][i]
                                                 /\ Items[c][i] \in Paths
                 /\ \A i \in DOMAIN results'[c] : i \in DOMAIN results[c] \/ i = At(c)
      <3>1. /\ results'[c][At(c)] = a
            /\ \A i \in DOMAIN results[c] : results'[c][i] = results[c][i]
            /\ DOMAIN results'[c] = DOMAIN results[c] \cup {At(c)}
        BY <2>3, AnswerIs
      <3>2. Len(results[c]) < Len(Items[c])  BY <2>3 DEF Batches
      <3>3. \A i \in DOMAIN results[c] : i \in DOMAIN Items[c]  BY <3>2, BatchIs
      <3>4. \A i \in DOMAIN results[c] : Items[c][i] \in Paths  BY <3>3, NamesDiffer
      <3> QED  BY <3>1, <3>4
    <2>4. CASE CallRefused(c)
      <3>1. PICK a \in {"conflict", "failed"} : Answer(c, a)  BY <2>4 DEF CallRefused
      <3>2. pc[c] \in {"item", "write"} /\ UNCHANGED landed  BY <2>4 DEF CallRefused
      <3>3. Told1(c)  BY <2>3, <3>1, <3>2 DEF Answered
      <3>4. Told2(c)
        <4> SUFFICES ASSUME NEW p \in Paths, c \in ToSet(landed[p])
                     PROVE  \E i \in DOMAIN results'[c] :
                               Items[c][i] = p /\ results'[c][i] \in {"ok", "failed"}
          BY <3>2
        <4>1. PICK i \in DOMAIN results[c] : Items[c][i] = p /\ results[c][i] \in {"ok", "failed"}
          BY DEF Answered
        <4> QED  BY <2>3, <3>1, <3>2, <4>1
      <3> QED  BY <1>2, <1>3, <2>1, <3>2, <3>3, <3>4
    <2>5. CASE CallWrites(c)
      <3>1. /\ \E a \in {"ok", "failed"} : Answer(c, a)
            /\ pc[c] = "write" /\ Put(Item(c), NewContent(c), Expected(c), c)
        BY <2>5 DEF CallWrites
      <3>2. Item(c) \in Paths /\ NewContent(c) \in Text /\ c \in Lines  BY <3>1, BatchIs, LineTypes
      <3>3. /\ ToSet(landed'[Item(c)]) = ToSet(landed[Item(c)]) \cup {c}
            /\ \A q \in Paths : q # Item(c) => landed'[q] = landed[q]
        BY <3>1, <3>2, PutIs
      <3>4. Told1(c)
        <4> SUFFICES ASSUME NEW i \in DOMAIN results'[c], results'[c][i] = "ok"
                     PROVE  c \in ToSet(landed'[Items[c][i]])
          OBVIOUS
        <4>1. CASE i = At(c)  BY <3>3, <4>1 DEF Item
        <4>2. CASE i \in DOMAIN results[c]
          <5>1. c \in ToSet(landed[Items[c][i]]) /\ Items[c][i] \in Paths  BY <2>3, <3>1, <4>2 DEF Answered
          <5> QED  BY <1>1, <5>1 DEF Grows
        <4> QED  BY <2>3, <3>1, <4>1, <4>2
      <3>5. Told2(c)
        <4> SUFFICES ASSUME NEW p \in Paths, c \in ToSet(landed'[p])
                     PROVE  \E i \in DOMAIN results'[c] :
                               Items[c][i] = p /\ results'[c][i] \in {"ok", "failed"}
          OBVIOUS
        <4>1. CASE p = Item(c)  BY <2>3, <3>1, <4>1 DEF Item
        <4>2. CASE p # Item(c)
          <5>1. PICK i \in DOMAIN results[c] : Items[c][i] = p /\ results[c][i] \in {"ok", "failed"}
            BY <3>3, <4>2 DEF Answered
          <5> QED  BY <2>3, <3>1, <5>1
        <4> QED  BY <4>1, <4>2
      <3>6. ASSUME NEW d \in Callers, d # c PROVE Told1(d) /\ Told2(d)
        <4>1. \A p \in Paths : d \in ToSet(landed'[p]) => d \in ToSet(landed[p])  BY <3>3, <3>6
        <4> QED  BY <1>2, <1>3, <2>1, <3>6, <4>1
      <3> QED  BY <3>4, <3>5, <3>6
    <2> QED  BY <2>1, <2>2, <2>4, <2>5
  <1>7. CASE UNCHANGED <<primary, blobs, pc, seen, tries, read, results, landed, blind>>
    BY <1>2, <1>3, <1>7
  <1> QED  BY <1>5, <1>6, <1>7, Steps

\* The runs an entry tells of have written their history.
StillTold(content) == \A r \in Runs : r \in ToSet(content) => primary'[r].etag # 0

LEMMA HistoriesFirst ==
    ASSUME TypeInv, Batches, Histories, [Next]_vars
    PROVE  Histories'
  <1>1. TypeInv' /\ Grows  BY Growth
  <1>2. \A p \in Paths : primary[p].etag \in Nat /\ primary'[p].etag \in Nat
    BY <1>1 DEF TypeInv, Entries
  <1>3. ASSUME NEW content, Told(content) PROVE StillTold(content)
    BY <1>1, <1>2, <1>3, NamesDiffer DEF Told, StillTold, Grows
  <1>4. /\ \A r \in Runs : Told(seen[r].content)
        /\ \A d \in Callers : \A i \in DOMAIN read[d] : Told(read[d][i].content)
        /\ \A p \in Paths : Told(primary[p].content)
    BY DEF Histories
  <1>5. /\ \A r \in Runs : /\ r \in Paths /\ r \notin Callers /\ r \notin Shared /\ r # "artifact" /\ r # "state"
                           /\ r # Trimmed /\ r \notin ToSet(Header) /\ r \in Lines
        /\ "state" \in Paths /\ "artifact" \in Lines
    BY NamesDiffer, LineTypes DEF Shared
  <1> DEFINE Own(q) == /\ pc'[q] \in {"load", "record", "history"} => primary'[q].etag = 0
                       /\ pc'[q] \in {"digest", "trim", "append"} => primary'[q].etag # 0
  <1>6. SUFFICES /\ \A q \in Runs : Own(q)
                 /\ \A p \in Paths : StillTold(primary'[p].content)
                 /\ \A q \in Runs : StillTold(seen'[q].content)
                 /\ \A d \in Callers : \A i \in DOMAIN read'[d] : StillTold(read'[d][i].content)
    BY DEF Histories, Told, StillTold
  <1>7. ASSUME NEW q \in Runs, pc'[q] = pc[q], primary'[q] = primary[q] PROVE Own(q)
    BY <1>7 DEF Histories
  <1>8. ASSUME NEW p \in Paths, NEW content \in Text, NEW expected, NEW line \in Lines,
               Put(p, content, expected, line), StillTold(content)
        PROVE  /\ \A q \in Paths : StillTold(primary'[q].content)
               /\ \A q \in Paths : q # p => primary'[q] = primary[q]
               /\ primary'[p].etag # 0
    <2>1. /\ primary'[p].content = content /\ primary'[p].etag = primary[p].etag + 1
          /\ \A q \in Paths : q # p => primary'[q] = primary[q]
      BY <1>8, PutIs
    <2> QED  BY <1>2, <1>3, <1>4, <1>8, <2>1
  <1>9. ASSUME UNCHANGED primary PROVE \A q \in Paths : StillTold(primary'[q].content)
    BY <1>3, <1>4, <1>9
  <1>10. ASSUME NEW r \in Runs, Run(r) \/ RunFails(r)
         PROVE  /\ \A q \in Runs : Own(q)
                /\ \A p \in Paths : StillTold(primary'[p].content)
                /\ \A q \in Runs : StillTold(seen'[q].content)
                /\ \A d \in Callers : \A i \in DOMAIN read'[d] : StillTold(read'[d][i].content)
    <2>1. /\ UNCHANGED read
          /\ \A d \in Runs \cup Callers : d # r => pc'[d] = pc[d]
          /\ \A q \in Runs : q # r => seen'[q] = seen[q]
          /\ seen'[r] = seen[r] \/ (seen'[r] = View("state") /\ UNCHANGED primary)
          /\ RunWrites(r) \/ RunElse(r)
      BY <1>10, RunStep
    <2>2. StillTold(seen'[r].content)
      <3>1. View("state").content = primary["state"].content  BY DEF View
      <3> QED  BY <1>3, <1>4, <1>5, <2>1, <3>1
    <2>3. \A q \in Runs : StillTold(seen'[q].content)  BY <1>3, <1>4, <2>1, <2>2
    <2>4. /\ Own(r) /\ \A p \in Paths : StillTold(primary'[p].content)
          /\ \A q \in Paths : q # r /\ q # "state" => primary'[q] = primary[q]
      <3>1. CASE pc[r] = "history" /\ Put(r, Artifact(r), 0, "artifact") /\ pc'[r] = "digest"
        <4>1. StillTold(Artifact(r))  BY <1>5, ArtifactIs DEF StillTold
        <4> QED  BY <1>5, <1>8, <3>1, <4>1, ArtifactIs
      <3>2. CASE pc[r] = "append" /\ Put("state", Digest(r), seen[r].etag, r) /\ pc'[r] = "done"
        <4>1. Digest(r) \in Text
              /\ ToSet(Digest(r)) \subseteq ToSet(IF seen[r].etag = 0 THEN Header ELSE seen[r].content)
                                              \cup {r, Trimmed}
          BY DigestIs
        <4>2. StillTold(IF seen[r].etag = 0 THEN Header ELSE seen[r].content)
          <5>1. StillTold(Header)  BY <1>5 DEF StillTold
          <5> QED  BY <1>3, <1>4, <5>1
        <4>3. primary'[r].etag # 0
          <5>1. primary[r].etag # 0  BY <3>2 DEF Histories
          <5> QED  BY <1>1, <1>2, <1>5, <5>1 DEF Grows
        <4>4. StillTold(Digest(r))  BY <1>5, <4>1, <4>2, <4>3 DEF StillTold
        <4> QED  BY <1>5, <1>8, <3>2, <4>1, <4>4
      <3>3. CASE RunElse(r)
        <4>1. Own(r)  BY <3>3 DEF RunElse, Histories
        <4> QED  BY <1>9, <3>3, <4>1 DEF RunElse
      <3> QED  BY <2>1, <3>1, <3>2, <3>3 DEF RunWrites
    <2>5. \A q \in Runs : Own(q)  BY <1>5, <1>7, <2>1, <2>4
    <2> QED  BY <1>3, <1>4, <2>1, <2>3, <2>4, <2>5
  <1>11. ASSUME NEW c \in Callers, Call(c) \/ CallFails(c)
         PROVE  /\ \A q \in Runs : Own(q)
                /\ \A p \in Paths : StillTold(primary'[p].content)
                /\ \A q \in Runs : StillTold(seen'[q].content)
                /\ \A d \in Callers : \A i \in DOMAIN read'[d] : StillTold(read'[d][i].content)
    <2>1. /\ UNCHANGED seen
          /\ \A d \in Runs \cup Callers : d # c => pc'[d] = pc[d]
          /\ \A d \in Callers : d # c => read'[d] = read[d]
          /\ CallReads(c) \/ CallSpills(c) \/ CallRefused(c) \/ CallWrites(c)
      BY <1>11, CallStep
    <2>2. \A q \in Runs : StillTold(seen'[q].content)  BY <1>3, <1>4, <2>1
    <2>3. /\ \A p \in Paths : StillTold(primary'[p].content)
          /\ \A q \in Runs : primary'[q] = primary[q]
      <3>1. CASE CallWrites(c)
        <4>1. /\ Item(c) \in Paths /\ Item(c) \in Shared /\ NewContent(c) \in Text /\ c \in Lines
              /\ ToSet(NewContent(c)) = ToSet(read[c][At(c)].content) \cup {c} /\ At(c) \in DOMAIN read[c]
          BY <3>1, BatchIs, LineTypes DEF CallWrites
        <4>2. StillTold(read[c][At(c)].content)  BY <1>3, <1>4, <4>1
        <4>3. StillTold(NewContent(c))  BY <1>5, <4>1, <4>2 DEF StillTold
        <4>4. Put(Item(c), NewContent(c), Expected(c), c)  BY <3>1 DEF CallWrites
        <4>5. /\ \A q \in Paths : StillTold(primary'[q].content)
              /\ \A q \in Paths : q # Item(c) => primary'[q] = primary[q]
          BY <1>8, <4>1, <4>3, <4>4
        <4> QED  BY <1>5, <4>1, <4>5
      <3>2. CASE UNCHANGED primary  BY <1>9, <3>2
      <3> QED  BY <2>1, <3>1, <3>2 DEF CallReads, CallSpills, CallRefused
    <2>4. \A q \in Runs : Own(q)  BY <1>5, <1>7, <2>1, <2>3
    <2>5. \A i \in DOMAIN read'[c] : StillTold(read'[c][i].content)
      <3>1. CASE CallReads(c)
        <4>1. /\ \A i \in DOMAIN read'[c] : i \in DOMAIN read[c] \/ i = Len(read[c]) + 1
              /\ \A i \in DOMAIN read[c] : read'[c][i] = read[c][i]
              /\ read'[c][Len(read[c]) + 1] \in Taken(Items[c][Len(read[c]) + 1])
              /\ Items[c][Len(read[c]) + 1] \in Paths
          BY <3>1, ReadIs
        <4>2. read'[c][Len(read[c]) + 1].content = primary[Items[c][Len(read[c]) + 1]].content
          BY <4>1, TakenIs
        <4>3. StillTold(read'[c][Len(read[c]) + 1].content)  BY <1>3, <1>4, <4>1, <4>2
        <4> QED  BY <1>3, <1>4, <4>1, <4>3
      <3> QED
        <4>1. read'[c] = read[c] \/ CallReads(c)  BY <2>1 DEF CallSpills, CallRefused, CallWrites
        <4> QED  BY <1>3, <1>4, <3>1, <4>1
    <2> QED  BY <1>3, <1>4, <2>1, <2>2, <2>3, <2>4, <2>5
  <1>12. CASE UNCHANGED <<primary, blobs, pc, seen, tries, read, results, landed, blind>>
    BY <1>3, <1>4, <1>5, <1>7, <1>12
  <1> QED  BY <1>10, <1>11, <1>12, Steps

\* Whoever read an entry as absent read it before its first write.
StillNew(p) == ToSet(landed'[p]) \subseteq Runs \cup Callers

LEMMA AbsentStart ==
    ASSUME TypeInv, Batches, Absent, [Next]_vars
    PROVE  Absent'
  <1>1. TypeInv' /\ Grows  BY Growth
  <1>2. \A p \in Paths : primary[p].etag \in Nat /\ primary'[p].etag \in Nat
    BY <1>1 DEF TypeInv, Entries
  <1>3. ToSet(<<>>) = {}  BY DEF ToSet
  <1>4. /\ \A r \in Runs : /\ r \in Paths /\ r \notin Callers /\ r \notin Shared /\ r # "artifact" /\ r # "state"
                           /\ r \in Lines
        /\ "state" \in Paths /\ "artifact" \in Lines
        /\ \A d \in Callers : \A i \in DOMAIN read[d] : Items[d][i] \in Shared
    <2>1. ASSUME NEW d \in Callers, NEW i \in DOMAIN read[d] PROVE Items[d][i] \in Shared
      <3>1. i \in DOMAIN Items[d]  BY BatchIs DEF Batches
      <3> QED  BY <3>1, NamesDiffer
    <2> QED  BY <2>1, NamesDiffer, LineTypes DEF Shared
  <1> DEFINE Entry(p) == /\ primary'[p].etag = 0 => /\ primary'[p].content = <<>> /\ landed'[p] = <<>>
                                                    /\ p \notin blind'
                         /\ primary'[p].etag # 0 => landed'[p] # <<>> /\ primary'[p].content # <<>>
             Own(q) == /\ pc'[q] \in {"trim", "append"} /\ seen'[q].etag = 0 => StillNew("state")
                       /\ q \in ToSet(landed'["state"]) => pc'[q] = "done"
             Given(d) == \A i \in DOMAIN read'[d] :
                read'[d][i].etag = 0 /\ read'[d][i].content = <<>> => StillNew(Items[d][i])
  <1>5. SUFFICES /\ \A p \in Paths : Entry(p)
                 /\ \A q \in Runs : Own(q)
                 /\ \A d \in Callers : Given(d)
    BY DEF Absent, New, StillNew, Omitted
  <1>6. ASSUME NEW p \in Paths, NEW content \in Text, NEW expected, NEW line \in Lines,
               Put(p, content, expected, line), content # <<>>
        PROVE  /\ \A q \in Paths : Entry(q)
               /\ ToSet(landed'[p]) = ToSet(landed[p]) \cup {line}
               /\ \A q \in Paths : q # p => landed'[q] = landed[q]
    <2>1. /\ primary'[p].etag = primary[p].etag + 1 /\ landed'[p] # <<>>
          /\ primary'[p].content # <<>>
          /\ ToSet(landed'[p]) = ToSet(landed[p]) \cup {line}
          /\ \A q \in Paths : q # p => primary'[q] = primary[q] /\ landed'[q] = landed[q]
      BY <1>6, PutIs
    <2>2. \A q \in blind' : q = p \/ q \in blind  BY <1>6 DEF Put
    <2>3. Entry(p)  BY <1>2, <2>1
    <2>4. \A q \in Paths : q # p => Entry(q)  BY <2>1, <2>2 DEF Absent
    <2> QED  BY <2>1, <2>3, <2>4
  <1>7. ASSUME UNCHANGED <<primary, landed, blind>> PROVE \A p \in Paths : Entry(p)
    BY <1>7 DEF Absent
  <1>8. ASSUME NEW p \in Paths, New(p), landed'[p] = landed[p] \/ \E line \in Runs \cup Callers :
                  ToSet(landed'[p]) = ToSet(landed[p]) \cup {line}
        PROVE  StillNew(p)
    BY <1>8 DEF New, StillNew
  <1>9. ASSUME NEW r \in Runs, Run(r) \/ RunFails(r)
        PROVE  /\ \A p \in Paths : Entry(p)
               /\ \A q \in Runs : Own(q)
               /\ \A d \in Callers : Given(d)
    <2>1. /\ UNCHANGED read
          /\ \A d \in Runs \cup Callers : d # r => pc'[d] = pc[d]
          /\ \A q \in Runs : q # r => seen'[q] = seen[q]
          /\ \/ seen'[r] = seen[r] /\ ~(pc[r] = "digest" /\ pc'[r] = "trim")
             \/ seen'[r] = View("state") /\ UNCHANGED primary
          /\ RunWrites(r) \/ RunElse(r)
      BY <1>9, RunStep
    <2>2. /\ \A p \in Paths : Entry(p)
          /\ \A p \in Shared : \/ landed'[p] = landed[p]
                               \/ p = "state" /\ pc'[r] = "done"
                                  /\ ToSet(landed'[p]) = ToSet(landed[p]) \cup {r}
      <3>1. CASE pc[r] = "history" /\ Put(r, Artifact(r), 0, "artifact") /\ pc'[r] = "digest"
        BY <1>4, <1>6, <3>1, ArtifactIs, NamesDiffer
      <3>2. CASE pc[r] = "append" /\ Put("state", Digest(r), seen[r].etag, r) /\ pc'[r] = "done"
        BY <1>4, <1>6, <3>2, DigestIs, NamesDiffer
      <3>3. CASE RunElse(r)  BY <1>7, <3>3 DEF RunElse
      <3> QED  BY <2>1, <3>1, <3>2, <3>3 DEF RunWrites
    <2>3. \A p \in Shared : New(p) => StillNew(p)  BY <1>8, <2>2, NamesDiffer
    <2>4. \A d \in Callers : Given(d)
      <3> SUFFICES ASSUME NEW d \in Callers, NEW i \in DOMAIN read[d], read[d][i].etag = 0,
                          read[d][i].content = <<>>
                   PROVE  StillNew(Items[d][i])
        BY <2>1
      <3>1. New(Items[d][i]) /\ Items[d][i] \in Shared  BY <1>4 DEF Absent, Omitted
      <3> QED  BY <2>3, <3>1
    <2>5. "state" \in Shared  BY DEF Shared
    <2>6. ASSUME NEW q \in Runs, q # r PROVE Own(q)
      <3>1. q \in ToSet(landed'["state"]) => q \in ToSet(landed["state"])  BY <2>2, <2>5, <2>6
      <3> QED  BY <2>1, <2>3, <2>5, <2>6, <3>1 DEF Absent
    <2>7. Own(r)
      <3>1. ASSUME pc'[r] \in {"trim", "append"}, seen'[r].etag = 0 PROVE New("state")
        <4>1. CASE seen'[r] = seen[r] /\ ~(pc[r] = "digest" /\ pc'[r] = "trim")
          <5>1. pc[r] \in {"trim", "append"}  BY <2>1, <3>1, <4>1 DEF RunWrites, RunElse
          <5> QED  BY <3>1, <4>1, <5>1 DEF Absent
        <4>2. CASE seen'[r] = View("state")
          <5>1. primary["state"].etag = 0  BY <3>1, <4>2 DEF View
          <5> QED  BY <1>3, <1>4, <5>1 DEF Absent, New
        <4> QED  BY <2>1, <4>1, <4>2
      <3>2. ASSUME r \in ToSet(landed'["state"]) PROVE pc'[r] = "done"
        <4>1. CASE landed'["state"] = landed["state"]
          <5>1. pc[r] = "done"  BY <3>2, <4>1 DEF Absent
          <5>2. ~RunWrites(r) /\ ~RunElse(r)  BY <5>1 DEF RunWrites, RunElse
          <5> QED  BY <2>1, <5>2
        <4> QED  BY <2>2, <2>5, <4>1
      <3> QED  BY <2>3, <2>5, <3>1, <3>2
    <2> QED  BY <2>2, <2>4, <2>6, <2>7
  <1>10. ASSUME NEW c \in Callers, Call(c) \/ CallFails(c)
         PROVE  /\ \A p \in Paths : Entry(p)
                /\ \A q \in Runs : Own(q)
                /\ \A d \in Callers : Given(d)
    <2>1. /\ UNCHANGED seen
          /\ \A d \in Runs \cup Callers : d # c => pc'[d] = pc[d]
          /\ \A d \in Callers : d # c => read'[d] = read[d]
          /\ CallReads(c) \/ CallSpills(c) \/ CallRefused(c) \/ CallWrites(c)
      BY <1>10, CallStep
    <2>2. /\ \A p \in Paths : Entry(p)
          /\ \A p \in Paths : landed'[p] = landed[p] \/ ToSet(landed'[p]) = ToSet(landed[p]) \cup {c}
      <3>1. CASE CallWrites(c)
        <4>1. Item(c) \in Paths /\ NewContent(c) \in Text /\ NewContent(c) # <<>> /\ c \in Lines
          BY <3>1, BatchIs, LineTypes DEF CallWrites
        <4>2. Put(Item(c), NewContent(c), Expected(c), c)  BY <3>1 DEF CallWrites
        <4> QED  BY <1>6, <4>1, <4>2
      <3>2. CASE UNCHANGED <<primary, landed, blind>>  BY <1>7, <3>2
      <3> QED  BY <2>1, <3>1, <3>2 DEF CallReads, CallSpills, CallRefused
    <2>3. \A p \in Paths : New(p) => StillNew(p)  BY <1>8, <2>2
    <2>4. ASSUME NEW q \in Runs PROVE Own(q)
      <3>1. q # c /\ pc'[q] = pc[q] /\ seen'[q] = seen[q]  BY <1>4, <2>1
      <3>2. q \in ToSet(landed'["state"]) => q \in ToSet(landed["state"])  BY <1>4, <2>2, <3>1
      <3> QED  BY <1>4, <2>3, <3>1, <3>2 DEF Absent
    <2>5. ASSUME NEW d \in Callers, NEW i \in DOMAIN read[d], read[d][i].etag = 0,
                 read[d][i].content = <<>>
          PROVE  StillNew(Items[d][i])
      <3>1. New(Items[d][i])  BY <2>5 DEF Absent, Omitted
      <3>2. Items[d][i] \in Paths  BY <1>4, NamesDiffer
      <3> QED  BY <2>3, <3>1, <3>2
    <2>6. Given(c)
      <3>1. CASE CallReads(c)
        <4> DEFINE n == Len(read[c]) + 1
        <4>1. /\ \A i \in DOMAIN read'[c] : i \in DOMAIN read[c] \/ i = n
              /\ \A i \in DOMAIN read[c] : read'[c][i] = read[c][i]
              /\ read'[c][n] \in Taken(Items[c][n])
              /\ Items[c][n] \in Paths
          BY <3>1, ReadIs
        <4>2. read'[c][n].etag = 0 /\ read'[c][n].content = <<>> => New(Items[c][n])
          <5>1. read'[c][n].content = primary[Items[c][n]].content  BY <4>1, TakenIs
          <5> QED  BY <1>3, <4>1, <5>1 DEF Absent, New
        <4> HIDE DEF n
        <4> QED  BY <2>3, <2>5, <4>1, <4>2
      <3> QED
        <4>1. read'[c] = read[c] \/ CallReads(c)  BY <2>1 DEF CallSpills, CallRefused, CallWrites
        <4> QED  BY <2>5, <3>1, <4>1
    <2>7. \A d \in Callers : Given(d)  BY <2>1, <2>5, <2>6
    <2> QED  BY <2>2, <2>4, <2>7
  <1>11. CASE UNCHANGED <<primary, blobs, pc, seen, tries, read, results, landed, blind>>
    BY <1>7, <1>11 DEF Absent, New, StillNew, Omitted
  <1> QED  BY <1>9, <1>10, <1>11, Steps

\* A line that is added at the end is the newest, and those before it stay.
LEMMA NewestStay ==
    ASSUME NEW s \in Text, NEW l \in Text, NEW t \in Text, NEW x \in Lines,
           SameEnd(s, l, Min2(Len(l), DigestLines - 1)),
           \A m \in Nat : m <= DigestLines - 1 /\ m <= Len(s) + 1 => SameEnd(t, Append(s, x), m)
    PROVE  SameEnd(t, Append(l, x), Min2(Len(l) + 1, DigestLines - 1))
  <1> DEFINE k == DigestLines - 1
             n == Min2(Len(l), k)
             m == Min2(Len(l) + 1, k)
  <1>1. k \in Nat /\ Len(s) \in Nat /\ Len(l) \in Nat /\ Len(t) \in Nat  BY Bounds DEF Text
  <1>2. n \in Nat /\ m \in Nat /\ m <= n + 1 /\ m <= k /\ n <= Len(l) /\ m <= Len(l) + 1
    BY <1>1 DEF Min2
  <1>3. SameEnd(s, l, n)  OBVIOUS
  <1>4. \A j \in Nat : j <= k /\ j <= Len(s) + 1 => SameEnd(t, Append(s, x), j)  OBVIOUS
  <1> HIDE DEF n, m, k
  <1>5. n <= Len(s) /\ \A i \in 0..(n - 1) : s[Len(s) - i] = l[Len(l) - i]  BY <1>3 DEF SameEnd
  <1>6. SameEnd(t, Append(s, x), m)  BY <1>1, <1>2, <1>4, <1>5
  <1>7. /\ Len(Append(s, x)) = Len(s) + 1 /\ Append(s, x)[Len(s) + 1] = x
        /\ \A i \in 1..Len(s) : Append(s, x)[i] = s[i]
        /\ Len(Append(l, x)) = Len(l) + 1 /\ Append(l, x)[Len(l) + 1] = x
        /\ \A i \in 1..Len(l) : Append(l, x)[i] = l[i]
    BY Appended DEF Text
  <1> DEFINE sx == Append(s, x)
             lx == Append(l, x)
  <1> HIDE DEF sx, lx
  <1>8. m <= Len(t) /\ \A i \in 0..(m - 1) : t[Len(t) - i] = sx[Len(s) + 1 - i]
    <2>1. SameEnd(t, sx, m) /\ Len(sx) = Len(s) + 1  BY <1>6, <1>7 DEF sx
    <2> QED  BY <2>1 DEF SameEnd
  <1>9. ASSUME NEW i \in 0..(m - 1) PROVE sx[Len(s) + 1 - i] = lx[Len(l) + 1 - i]
    <2>1. CASE i = 0
      <3>1. Len(s) + 1 - i = Len(s) + 1 /\ Len(l) + 1 - i = Len(l) + 1  BY <1>1, <2>1
      <3> QED  BY <1>7, <3>1 DEF sx, lx
    <2>2. CASE i # 0
      <3> DEFINE j == i - 1
      <3>1. /\ j \in 0..(n - 1) /\ Len(s) + 1 - i = Len(s) - j /\ Len(l) + 1 - i = Len(l) - j
            /\ Len(s) - j \in 1..Len(s) /\ Len(l) - j \in 1..Len(l)
        BY <1>1, <1>2, <1>5, <2>2
      <3> HIDE DEF j
      <3>2. sx[Len(s) - j] = s[Len(s) - j] /\ lx[Len(l) - j] = l[Len(l) - j]  BY <1>7, <3>1 DEF sx, lx
      <3> QED  BY <1>5, <3>1, <3>2
    <2> QED  BY <2>1, <2>2
  <1>10. Len(lx) = Len(l) + 1  BY <1>7 DEF lx
  <1>11. m <= Len(lx) /\ \A i \in 0..(m - 1) : t[Len(t) - i] = lx[Len(lx) - i]
    BY <1>2, <1>8, <1>9, <1>10
  <1> QED  BY <1>8, <1>11 DEF SameEnd, lx, m, k

\* Keeps, of what an entry holds and what was accepted.
KeptIn(content, lines) == SameEnd(content, lines, Min2(Len(lines), DigestLines - 1))

LEMMA KeepsIs ==
    ASSUME NEW content, NEW lines \in Text, NEW n, n = Min2(Len(lines), DigestLines - 1)
    PROVE  /\ n <= Len(content)
           /\ \A i \in 0..(n - 1) : content[Len(content) - i] = lines[Len(lines) - i]
           <=> KeptIn(content, lines)
  <1>1. Len(lines) \in Nat  BY DEF Text
  <1>2. n <= Len(lines)  BY <1>1, Bounds DEF Min2
  <1> QED  BY <1>2 DEF KeptIn, SameEnd

\* A write that was compared, and the first write of an entry, keep what was
\* there; a write that was not compared is one of the exceptions.
LEMMA NewestKept ==
    ASSUME MemoryInv, [Next]_vars
    PROVE  Kept'
  <1>1. /\ TypeInv /\ Fresh /\ Batches /\ Answered /\ Histories /\ Absent /\ Kept
        /\ TypeInv' /\ Grows
    BY Growth DEF MemoryInv
  <1>2. \A p \in Paths : /\ primary[p].etag \in Nat /\ primary[p].content \in Text
                         /\ landed[p] \in Text /\ landed'[p] \in Text
    BY <1>1 DEF TypeInv, Entries
  <1>3. /\ Shared \subseteq Paths /\ "state" \in Shared
        /\ \A r \in Runs : r \in Paths /\ r \notin Shared /\ r \in Lines
        /\ "artifact" \in Lines
    BY NamesDiffer, LineTypes DEF Shared
  <1> DEFINE Two(p) == \/ \E c, d \in ToSet(landed'[p]) : c # d /\ {c, d} \subseteq Runs \cup Callers
                       \/ \E c \in Callers : \E i, j \in DOMAIN Items[c] :
                             i # j /\ Items[c][i] = p /\ Items[c][j] = p
             Left(p) == \E c \in Callers \cap ToSet(landed'[p]) : \E i \in DOMAIN read'[c] :
                           Items[c][i] = p /\ read'[c][i].etag = 0 /\ read'[c][i].content # <<>>
             Way(p) == Left(p) \/ (StillNew(p) /\ landed'[p] # <<>> /\ Two(p))
             Next1(p) == /\ p \in blind' => p \in Shared /\ Way(p)
                         /\ p \in Shared \ blind' => KeptIn(primary'[p].content, landed'[p])
  <1>4. \A p \in Shared \ blind : KeptIn(primary[p].content, landed[p])
    <2> SUFFICES ASSUME NEW p \in Shared \ blind PROVE KeptIn(primary[p].content, landed[p])
      OBVIOUS
    <2> DEFINE n == Min2(Len(landed[p]), DigestLines - 1)
    <2>1. Keeps(p, n)  BY <1>1 DEF Kept
    <2>2. landed[p] \in Text  BY <1>2, <1>3
    <2> QED  BY <2>1, <2>2, KeepsIs DEF Keeps
  <1>5. SUFFICES \A p \in Paths : Next1(p)
    <2>1. ASSUME NEW p \in Shared \ blind' PROVE Keeps(p, Min2(Len(landed[p]), DigestLines - 1))'
      <3> DEFINE n == Min2(Len(landed'[p]), DigestLines - 1)
                 content == primary'[p].content
                 lines == landed'[p]
      <3>1. KeptIn(primary'[p].content, landed'[p])  BY <1>3, <1>5, <2>1
      <3>2. landed'[p] \in Text  BY <1>2, <1>3
      <3>3. n = Min2(Len(lines), DigestLines - 1)  OBVIOUS
      <3>4. KeptIn(content, lines) /\ lines \in Text  BY <3>1, <3>2
      <3> HIDE DEF n, content, lines
      <3>5. n <= Len(content) /\ \A i \in 0..(n - 1) : content[Len(content) - i] = lines[Len(lines) - i]
        BY <3>3, <3>4, KeepsIs
      <3> QED  BY <3>5 DEF Keeps, n, content, lines
    <2>2. ASSUME NEW p \in blind' PROVE Replaced(p)'
      <3>1. p \in Paths  BY <1>1, <2>2 DEF TypeInv
      <3>2. p \in Shared /\ Way(p)  BY <1>5, <2>2, <3>1
      <3>3. Left(p) => LeftOut(p)'  BY DEF LeftOut, Omitted
      <3>4. Two(p) => Both(p)'  BY DEF Both
      <3> QED  BY <3>2, <3>3, <3>4 DEF Replaced, New, StillNew
    <2> QED  BY <2>1, <2>2 DEF Kept
  <1>14. ASSUME NEW p \in Paths, LeftOut(p) PROVE Left(p)
    <2>0. PICK c \in Callers \cap ToSet(landed[p]) :
             \E i \in DOMAIN read[c] : Items[c][i] = p /\ Omitted(c, i)
      BY <1>14 DEF LeftOut
    <2>1. PICK i \in DOMAIN read[c] : Items[c][i] = p /\ Omitted(c, i)  BY <2>0
    <2>2. c \in Callers \cap ToSet(landed'[p])  BY <1>1, <2>1 DEF Grows
    <2>3. i \in DOMAIN read'[c] /\ read'[c][i] = read[c][i]  BY <1>1, <2>1, ReadsStay
    <2> QED  BY <2>1, <2>2, <2>3 DEF Omitted
  <1>6. ASSUME NEW p \in Paths, landed'[p] = landed[p], primary'[p] = primary[p],
               p \in blind' <=> p \in blind
        PROVE  Next1(p)
    <2>1. p \in Shared \ blind' => KeptIn(primary'[p].content, landed'[p])  BY <1>4, <1>6
    <2>2. p \in blind' => Replaced(p)  BY <1>1, <1>6 DEF Kept
    <2>3. Both(p) => Two(p)  BY <1>6 DEF Both
    <2> HIDE DEF Left, Two
    <2> QED  BY <1>6, <1>14, <2>1, <2>2, <2>3 DEF Replaced, New, StillNew
  <1>7. ASSUME NEW p \in Shared, NEW content \in Text, NEW expected, NEW line \in Runs \cup Callers,
               NEW body \in Text,
               Put(p, content, expected, line), Accepts(p, expected),
               \A m \in Nat : m <= DigestLines - 1 /\ m <= Len(body) + 1 =>
                  SameEnd(content, Append(body, line), m),
               expected = primary[p].etag /\ p \notin blind => KeptIn(body, landed[p]),
               expected = 0 /\ primary[p].etag # 0 => Left(p) \/ (New(p) /\ Two(p))
        PROVE  \A q \in Paths : Next1(q)
    <2>1. TypeInv /\ p \in Paths /\ line \in Lines /\ Put(p, content, expected, line)
      BY <1>1, <1>3, <1>7, LineTypes
    <2>2. /\ primary'[p].content = content /\ landed'[p] = Append(landed[p], line)
          /\ ToSet(landed'[p]) = ToSet(landed[p]) \cup {line} /\ landed'[p] # <<>>
          /\ Len(landed'[p]) = Len(landed[p]) + 1
          /\ \A q \in Paths : q # p => primary'[q] = primary[q] /\ landed'[q] = landed[q]
      BY <2>1, PutIs
    <2>3. blind' = IF expected = 0 /\ primary[p].etag # 0 THEN blind \cup {p} ELSE blind
      BY <1>7 DEF Put
    <2>4. ASSUME NEW q \in Paths, q # p PROVE Next1(q)  BY <1>6, <2>2, <2>3, <2>4
    <2>5. SUFFICES Next1(p)  BY <2>4
    <2>6. CASE p \in blind
      <3>1. Replaced(p) /\ p \in blind'  BY <1>1, <2>3, <2>6 DEF Kept
      <3>2. New(p) => StillNew(p)  BY <2>2 DEF New, StillNew
      <3>3. Both(p) => Two(p)  BY <2>2 DEF Both
      <3>4. LeftOut(p) => Left(p)  BY <1>3, <1>14
      <3> HIDE DEF Two, Left
      <3> QED  BY <2>2, <3>1, <3>2, <3>3, <3>4 DEF Replaced
    <2>7. CASE p \notin blind /\ expected = 0 /\ primary[p].etag # 0
      <3>1. (Left(p) \/ (New(p) /\ Two(p))) /\ p \in blind'  BY <1>7, <2>3, <2>7
      <3>2. New(p) => StillNew(p)  BY <2>2 DEF New, StillNew
      <3> HIDE DEF Two, Left
      <3> QED  BY <2>2, <3>1, <3>2
    <2>8. CASE p \notin blind /\ ~(expected = 0 /\ primary[p].etag # 0)
      <3>1. expected = primary[p].etag /\ p \notin blind'  BY <1>7, <2>3, <2>8 DEF Accepts
      <3>2. KeptIn(body, landed[p])  BY <1>7, <2>8, <3>1
      <3>3. SameEnd(content, Append(landed[p], line), Min2(Len(landed[p]) + 1, DigestLines - 1))
        BY <1>2, <1>7, <2>1, <3>2, NewestStay DEF KeptIn
      <3>4. KeptIn(primary'[p].content, landed'[p])  BY <2>2, <3>3 DEF KeptIn
      <3> HIDE DEF Two, Left
      <3> QED  BY <3>1, <3>4
    <2> QED  BY <2>6, <2>7, <2>8
  <1>8. ASSUME UNCHANGED <<primary, landed, blind>> PROVE \A q \in Paths : Next1(q)
    BY <1>6, <1>8
  <1>9. ASSUME NEW p \in Paths, NEW content \in Text, NEW expected, NEW line \in Lines,
               Put(p, content, expected, line)
        PROVE  ToSet(landed'[p]) = ToSet(landed[p]) \cup {line}
    <2>1. TypeInv /\ p \in Paths /\ line \in Lines /\ Put(p, content, expected, line)
      BY <1>1, <1>9
    <2>2. /\ landed'[p] = Append(landed[p], line)
          /\ ToSet(landed'[p]) = ToSet(landed[p]) \cup {line} /\ landed'[p] # <<>>
          /\ Len(landed'[p]) = Len(landed[p]) + 1
          /\ \A q \in Paths : q # p => primary'[q] = primary[q] /\ landed'[q] = landed[q]
      BY <2>1, PutIs
    <2> QED  BY <2>2
  <1>10. ASSUME NEW l \in Text, l # <<>>, ToSet(l) \subseteq Runs \cup Callers
        PROVE  \E d \in ToSet(l) : d \in Runs \cup Callers
    <2>1. 1 \in DOMAIN l  BY <1>10 DEF Text
    <2>2. l[1] \in ToSet(l)  BY <2>1 DEF ToSet
    <2> QED  BY <1>10, <2>2
  <1>11. ASSUME NEW r \in Runs, Run(r) \/ RunFails(r) PROVE \A q \in Paths : Next1(q)
    <2>1. RunWrites(r) \/ RunElse(r)  BY <1>1, <1>11, RunStep
    <2>2. CASE pc[r] = "history" /\ Put(r, Artifact(r), 0, "artifact")
      <3>1. \A q \in Paths : q # r => primary'[q] = primary[q] /\ landed'[q] = landed[q]
        BY <1>1, <1>3, <2>2, PutIs, ArtifactIs
      <3>2. primary[r].etag = 0  BY <1>1, <2>2 DEF Histories
      <3>3. blind' = blind  BY <2>2, <3>2 DEF Put
      <3>4. \A q \in Paths : q # r => Next1(q)  BY <1>6, <3>1, <3>3
      <3>5. r \notin blind' /\ r \notin Shared  BY <1>1, <1>3, <3>3 DEF Kept, Replaced
      <3> QED  BY <3>4, <3>5
    <2>3. CASE pc[r] = "append" /\ Accepts("state", seen[r].etag) /\ Put("state", Digest(r), seen[r].etag, r)
      <3> DEFINE body == IF seen[r].etag = 0 THEN Header ELSE seen[r].content
      <3>1. /\ Digest(r) \in Text /\ body \in Text
            /\ \A m \in Nat : m <= DigestLines - 1 /\ m <= Len(body) + 1 =>
                  SameEnd(Digest(r), Append(body, r), m)
        BY <1>1, DigestIs
      <3>2. ASSUME seen[r].etag = primary["state"].etag, "state" \notin blind
            PROVE  KeptIn(body, landed["state"])
        <4>1. CASE seen[r].etag = 0
          <5>1. landed["state"] = <<>>  BY <1>1, <1>3, <3>2, <4>1 DEF Absent
          <5>2. Len(body) \in Nat /\ Len(<<>>) = 0 /\ Min2(0, DigestLines - 1) = 0
            BY <3>1, Bounds DEF Min2, Text
          <5> HIDE DEF body
          <5> QED  BY <5>1, <5>2 DEF KeptIn, SameEnd
        <4>2. CASE seen[r].etag # 0
          <5>1. body = primary["state"].content  BY <1>1, <3>2, <4>2 DEF Fresh, Agrees
          <5> QED  BY <1>3, <1>4, <3>2, <5>1
        <4> QED  BY <4>1, <4>2
      <3>3. ASSUME seen[r].etag = 0, primary["state"].etag # 0 PROVE New("state") /\ Two("state")
        <4>1. New("state") /\ landed["state"] # <<>> /\ r \notin ToSet(landed["state"])
          BY <1>1, <1>3, <2>3, <3>3 DEF Absent
        <4>2. PICK d \in ToSet(landed["state"]) : d \in Runs \cup Callers
          BY <1>2, <1>3, <1>10, <4>1 DEF New
        <4>3. ToSet(landed'["state"]) = ToSet(landed["state"]) \cup {r}
          <5>1. TypeInv /\ "state" \in Paths /\ r \in Lines /\ Digest(r) \in Text
                /\ Put("state", Digest(r), seen[r].etag, r)
            BY <1>1, <1>3, <2>3, <3>1
          <5> QED  BY <1>9, <5>1
        <4> QED  BY <4>1, <4>2, <4>3
      <3> HIDE DEF body
      <3> QED  BY <1>3, <1>7, <2>3, <3>1, <3>2, <3>3
    <2>4. CASE RunElse(r)  BY <1>8, <2>4 DEF RunElse
    <2> QED  BY <2>1, <2>2, <2>3, <2>4 DEF RunWrites
  <1>12. ASSUME NEW c \in Callers, Call(c) \/ CallFails(c) PROVE \A q \in Paths : Next1(q)
    <2>1. CallReads(c) \/ CallSpills(c) \/ CallRefused(c) \/ CallWrites(c)  BY <1>1, <1>12, CallStep
    <2>2. CASE CallReads(c) \/ CallSpills(c) \/ CallRefused(c)
      BY <1>8, <2>2 DEF CallReads, CallSpills, CallRefused
    <2>3. CASE CallWrites(c)
      <3> DEFINE p == Item(c)
                 body == read[c][At(c)].content
      <3>1. /\ pc[c] = "write" /\ Accepts(p, Expected(c)) /\ Put(p, NewContent(c), Expected(c), c)
        BY <2>3 DEF CallWrites
      <3>2. /\ At(c) \in DOMAIN Items[c] /\ At(c) \in DOMAIN read[c] /\ p \in Shared /\ body \in Text
            /\ NewContent(c) \in Text /\ NewContent(c) = Append(body, c)
        BY <1>1, <3>1, BatchIs
      <3>3. Expected(c) = read[c][At(c)].etag /\ p = Items[c][At(c)]  BY DEF Expected, Item
      <3>4. ASSUME Expected(c) = primary[p].etag, p \notin blind PROVE KeptIn(body, landed[p])
        <4>1. body = primary[p].content  BY <1>1, <3>2, <3>3, <3>4 DEF Fresh, Agrees
        <4> QED  BY <1>4, <3>2, <3>4, <4>1
      <3>5. \A m \in Nat : m <= DigestLines - 1 /\ m <= Len(body) + 1 =>
                  SameEnd(NewContent(c), Append(body, c), m)
        <4>1. Len(Append(body, c)) = Len(body) + 1  BY <3>2, LineTypes, Appended DEF Text
        <4> HIDE DEF body
        <4> QED  BY <3>2, <4>1 DEF SameEnd
      <3>7. UNCHANGED read /\ ToSet(landed'[p]) = ToSet(landed[p]) \cup {c}
        BY <1>1, <1>3, <2>3, <3>1, <3>2, LineTypes, PutIs DEF CallWrites
      <3>8. Omitted(c, At(c)) => Left(p)  BY <3>2, <3>3, <3>7 DEF Omitted
      <3>6. ASSUME Expected(c) = 0, primary[p].etag # 0, ~Omitted(c, At(c)) PROVE New(p) /\ Two(p)
        <4>1. New(p) /\ landed[p] # <<>>  BY <1>1, <1>3, <3>2, <3>3, <3>6 DEF Absent
        <4>2. PICK d \in ToSet(landed[p]) : d \in Runs \cup Callers
          BY <1>2, <1>3, <1>10, <3>2, <4>1 DEF New
        <4>3. ToSet(landed'[p]) = ToSet(landed[p]) \cup {c}  BY <3>7
        <4>4. CASE d # c  BY <4>1, <4>2, <4>3, <4>4
        <4>5. CASE d = c
          <5>1. PICK i \in DOMAIN results[c] : Items[c][i] = p
            BY <1>1, <1>3, <3>2, <4>2, <4>5 DEF Answered
          <5>2. i \in 1..Len(results[c]) /\ Len(results[c]) \in Nat /\ Len(results[c]) < Len(Items[c])
                /\ Len(Items[c]) \in Nat
            BY <1>1, <3>1, <5>1, BatchIs DEF Batches
          <5>3. i # At(c) /\ i \in DOMAIN Items[c]  BY <1>1, <5>2, BatchIs DEF At
          <5> QED  BY <3>2, <3>3, <4>1, <5>1, <5>3
        <4> QED  BY <4>4, <4>5
      <3> HIDE DEF p, body, Left, Two
      <3> QED  BY <1>7, <3>1, <3>2, <3>4, <3>5, <3>6, <3>8
    <2> QED  BY <2>1, <2>2, <2>3
  <1>13. CASE UNCHANGED <<primary, blobs, pc, seen, tries, read, results, landed, blind>>
    BY <1>8, <1>13
  <1> QED  BY <1>11, <1>12, <1>13, Steps
-----------------------------------------------------------------------------
(* The invariant. *)

LEMMA MemoryStarts ==
    ASSUME Init
    PROVE  MemoryInv
  <1>1. PICK s \in StateAtStart :
           /\ primary = [p \in Paths |-> IF p = "state" /\ s # <<>> THEN Stored(s, 1)
                                         ELSE Stored(<<>>, 0)]
           /\ blobs = IF Spills(s) THEN {<<"state", s>>} ELSE {}
           /\ landed = [p \in Paths |-> IF p = "state" THEN s ELSE <<>>]
    BY DEF Init
  <1>2. /\ pc = [c \in Runs \cup Callers |-> IF c \in Runs THEN "load" ELSE "read"]
        /\ seen = [r \in Runs |-> NoEntry] /\ tries = [r \in Runs |-> 0]
        /\ read = [c \in Callers |-> <<>>] /\ results = [c \in Callers |-> <<>>]
        /\ blind = {}
    BY DEF Init
  <1>3. /\ "state" \in Paths /\ Shared \subseteq Paths
        /\ \A r \in Runs : r \in Paths /\ r \notin Callers /\ r # "state"
        /\ \A c \in Callers : c \notin Runs /\ Len(Items[c]) \in Nat /\ Len(Items[c]) # 0
    BY NamesDiffer DEF Shared
  <1>4. s \in Text /\ <<>> \in Text /\ ToSet(s) \cap (Runs \cup Callers) = {}
    BY LineTypes, StartAssumption
  <1>5. ToSet(<<>>) = {} /\ Len(<<>>) = 0 /\ DOMAIN <<>> = {}  BY DEF ToSet
  <1>6. ~Spills(<<>>)  BY <1>5, Bounds DEF Spills
  <1>7. \A p \in Paths :
           /\ primary[p] \in Entries
           /\ p = "state" /\ s # <<>> => /\ primary[p].etag = 1 /\ primary[p].content = s
                                         /\ primary[p].spilled = Spills(s)
           /\ p # "state" \/ s = <<>> => /\ primary[p].etag = 0 /\ primary[p].content = <<>>
                                         /\ ~primary[p].spilled
    <2>1. ASSUME NEW c \in Text, NEW n \in Nat
          PROVE  /\ Stored(c, n) \in Entries /\ Stored(c, n).etag = n /\ Stored(c, n).content = c
                 /\ Stored(c, n).spilled = Spills(c)
      BY DEF Stored, Entries, Spills
    <2>2. \A p \in Paths : primary[p] = IF p = "state" /\ s # <<>> THEN Stored(s, 1) ELSE Stored(<<>>, 0)
      BY <1>1
    <2> QED  BY <1>4, <1>6, <2>1, <2>2
  <1>8. \A p \in Paths : landed[p] = IF p = "state" THEN s ELSE <<>>  BY <1>1
  <1>9. TypeInv
    <2>1. primary \in [Paths -> Entries]  BY <1>1, <1>7
    <2>2. landed \in [Paths -> Text]  BY <1>1, <1>4
    <2>3. NoEntry \in Views  BY <1>4 DEF NoEntry, Views
    <2>4. /\ pc \in [Runs \cup Callers -> PC]
          /\ \A r \in Runs : pc[r] \in RunPC
          /\ \A c \in Callers : pc[c] \in CallPC
      BY <1>2, <1>3 DEF PC, RunPC, CallPC
    <2>5. read \in [Callers -> Seq(Views)] /\ results \in [Callers -> Seq({"ok", "conflict", "failed"})]
      BY <1>2
    <2>6. seen \in [Runs -> Views] /\ tries \in [Runs -> Nat] /\ blind \subseteq Paths  BY <1>2, <2>3
    <2> QED  BY <2>1, <2>2, <2>4, <2>5, <2>6 DEF TypeInv
  <1>10. /\ \A r \in Runs : pc[r] = "load" /\ seen[r].etag = 0 /\ seen[r].content = <<>>
         /\ \A c \in Callers : pc[c] = "read" /\ read[c] = <<>> /\ results[c] = <<>>
    BY <1>2, <1>3 DEF NoEntry
  <1>11. BlobsFirst
    <2>1. ASSUME NEW p \in Paths PROVE Readable(p)  BY <1>1, <1>7 DEF Readable
    <2> QED  BY <1>10, <2>1 DEF BlobsFirst
  <1>12. Fresh
    <2>1. primary["state"].etag \in Nat /\ (primary["state"].etag = 0 => primary["state"].content = <<>>)
      BY <1>3, <1>7
    <2> QED  BY <1>5, <1>10, <2>1 DEF Fresh, Agrees
  <1>13. Batches  BY <1>3, <1>5, <1>10 DEF Batches
  <1>14. Answered
    <2>1. \A c \in Callers : \A p \in Paths : c \notin ToSet(landed[p])  BY <1>4, <1>5, <1>8
    <2> QED  BY <1>5, <1>10, <2>1 DEF Answered
  <1>15. Histories
    <2>1. \A r \in Runs : \A p \in Paths : r \notin ToSet(primary[p].content)  BY <1>4, <1>5, <1>7
    <2>2. \A r \in Runs : primary[r].etag = 0  BY <1>3, <1>7
    <2> QED  BY <1>5, <1>10, <2>1, <2>2 DEF Histories, Told
  <1>16. Absent
    <2>1. \A r \in Runs : r \notin ToSet(landed["state"])  BY <1>3, <1>4, <1>8
    <2> QED  BY <1>2, <1>5, <1>7, <1>8, <1>10, <2>1 DEF Absent
  <1>17. Kept
    <2>1. ASSUME NEW p \in Shared PROVE Keeps(p, Min2(Len(landed[p]), DigestLines - 1))
      <3> DEFINE n == Min2(Len(landed[p]), DigestLines - 1)
      <3>1. landed[p] = primary[p].content /\ landed[p] \in Text  BY <1>3, <1>4, <1>7, <1>8
      <3>2. Len(landed[p]) \in Nat  BY <3>1 DEF Text
      <3>3. n <= Len(landed[p])  BY <3>2, Bounds DEF Min2
      <3> HIDE DEF n
      <3>4. Keeps(p, n)  BY <3>1, <3>3 DEF Keeps
      <3> QED  BY <3>4 DEF n
    <2> QED  BY <1>2, <2>1 DEF Kept
  <1> QED  BY <1>9, <1>11, <1>12, <1>13, <1>14, <1>15, <1>16, <1>17 DEF MemoryInv

\* MemoryInv is an inductive invariant.
THEOREM MemoryInvariant == Spec => []MemoryInv
  <1>1. Init => MemoryInv  BY MemoryStarts
  <1>2. ASSUME MemoryInv, [Next]_vars PROVE MemoryInv'
    <2>1. TypeInv /\ BlobsFirst /\ Fresh /\ Batches /\ Answered /\ Histories /\ Absent  BY <1>2 DEF MemoryInv
    <2>2. TypeInv'  BY <1>2, <2>1, Growth
    <2>3. BlobsFirst'  BY <1>2, <2>1, PayloadsStay
    <2>4. Fresh'  BY <1>2, <2>1, ViewsAgree
    <2>5. Batches'  BY <1>2, <2>1, BatchesAdvance
    <2>6. Answered'  BY <1>2, <2>1, AnswersTell
    <2>7. Histories'  BY <1>2, <2>1, HistoriesFirst
    <2>8. Absent'  BY <1>2, <2>1, AbsentStart
    <2>9. Kept'  BY <1>2, NewestKept
    <2> QED  BY <2>2, <2>3, <2>4, <2>5, <2>6, <2>7, <2>8, <2>9 DEF MemoryInv
  <1> QED  BY <1>1, <1>2, PTL DEF Spec

\* The newest lines of an entry are the writes accepted last: neither the
\* digest appends of auto-memory (recordProgress), nor the trimming of the
\* digest, nor the tools' writes lose one, but for an entry that was replaced
\* by a write without an ETag: a caller left out the one it was given, or two
\* writers read the entry as absent.
THEOREM NewestLinesKept == Spec => []NewestWritesKept
  <1>1. MemoryInv => NewestWritesKept
    <2> SUFFICES ASSUME MemoryInv PROVE NewestWritesKept
      OBVIOUS
    <2>1. TypeInv /\ Kept  BY DEF MemoryInv
    <2>2. \A p \in {"state", "decisions"} \ blind : Keeps(p, Min2(Len(landed[p]), DigestLines - 1))
      BY <2>1 DEF Kept, Shared
    <2>3. ASSUME NEW p \in blind
          PROVE  /\ p \notin Runs
                 /\ LeftOut(p) \/ (landed[p][1] \in Runs \cup Callers /\ Both(p))
      <3>1. Replaced(p)  BY <2>1 DEF Kept
      <3>2. p \in Shared  BY <3>1 DEF Replaced
      <3>3. p \notin Runs /\ p \in Paths  BY <3>2, NamesDiffer
      <3>4. landed[p] \in Text  BY <2>1, <3>3 DEF TypeInv
      <3>5. landed[p] # <<>> => 1 \in DOMAIN landed[p]  BY <3>4 DEF Text
      <3>6. landed[p] # <<>> => landed[p][1] \in ToSet(landed[p])  BY <3>5 DEF ToSet
      <3> QED  BY <3>1, <3>3, <3>6 DEF Replaced, New
    <2> QED  BY <2>2, <2>3 DEF NewestWritesKept, LeftOut, Both
  <1> QED  BY <1>1, MemoryInvariant, PTL

\* A digest line in the state entry names a run whose history entry exists
\* and can be read: recordProgress writes the history first.
THEOREM DigestsHaveHistory == Spec => []DigestHasHistory
  <1>1. MemoryInv => DigestHasHistory
    <2> SUFFICES ASSUME MemoryInv, NEW r \in Runs, r \in LinesIn("state")
                 PROVE  primary[r].etag # 0 /\ Readable(r)
      BY DEF DigestHasHistory
    <2>1. "state" \in Paths /\ r \in Paths  BY NamesDiffer DEF Shared
    <2>2. Told(primary["state"].content) /\ Readable(r)  BY <2>1 DEF MemoryInv, Histories, BlobsFirst
    <2> QED  BY <2>2 DEF Told, LinesIn
  <1> QED  BY <1>1, MemoryInvariant, PTL

\* Every item of a batch has its own answer when the batch is done; ok is the
\* answer of writes that were accepted, and what was accepted is never
\* answered as a conflict: at worst, with the store's answer lost, as failed.
THEOREM BatchesAreAnswered == Spec => []BatchAnswered
  <1>1. MemoryInv => BatchAnswered  BY DEF MemoryInv, Batches, Answered, BatchAnswered
  <1> QED  BY <1>1, MemoryInvariant, PTL

\* Behind its pointers the overflow store is a squad-memory store: an entry
\* that exists can be read at every moment, and a step writes one entry as a
\* whole, or none.
THEOREM MemoryImplementsContract == Spec => ImplementsContract
  <1> DEFINE Plain == [p \in Paths |-> [etag |-> primary[p].etag, content |-> primary[p].content]]
  <1>1. MemoryInv => AsRead = Plain
    <2> SUFFICES ASSUME MemoryInv PROVE AsRead = Plain
      OBVIOUS
    <2>1. \A p \in Paths : Readable(p)  BY DEF MemoryInv, BlobsFirst
    <2> QED  BY <2>1 DEF AsRead
  <1>2. (MemoryInv => AsRead = Plain)'  BY <1>1, PTL
  <1>3. Init => Contract!Init
    <2> SUFFICES ASSUME Init, NEW p \in Paths
                 PROVE  /\ AsRead[p].etag \in {0, 1} /\ AsRead[p].content \in Seq(Lines)
                        /\ AsRead[p].etag = 0 => AsRead[p].content = <<>>
      BY DEF Contract!Init
    <2>1. MemoryInv /\ AsRead = Plain  BY <1>1, MemoryStarts
    <2>2. PICK s \in StateAtStart :
             primary = [q \in Paths |-> IF q = "state" /\ s # <<>> THEN Stored(s, 1) ELSE Stored(<<>>, 0)]
      BY DEF Init
    <2>3. primary[p].etag \in {0, 1} /\ (primary[p].etag = 0 => primary[p].content = <<>>)
      BY <2>2 DEF Stored
    <2>4. primary[p].content \in Seq(Lines)  BY <2>1 DEF MemoryInv, TypeInv, Entries, Text
    <2> QED  BY <2>1, <2>3, <2>4
  <1>4. ASSUME MemoryInv, MemoryInv', [Next]_vars
        PROVE  [Contract!Next]_AsRead
    <2>1. TypeInv /\ Batches /\ AsRead = Plain /\ AsRead' = Plain'  BY <1>1, <1>2, <1>4 DEF MemoryInv
    <2>2. ASSUME NEW p \in Paths, NEW content \in Text, NEW expected, NEW line \in Lines,
                 Put(p, content, expected, line)
          PROVE  Contract!Write(p)
      <3>1. /\ primary'[p].etag = primary[p].etag + 1 /\ primary'[p].content = content
            /\ \A q \in Paths : q # p => primary'[q] = primary[q]
        BY <2>1, <2>2, PutIs
      <3>2. /\ AsRead = Plain
            /\ AsRead' = [q \in Paths |-> [etag |-> primary'[q].etag, content |-> primary'[q].content]]
        BY <2>1
      <3>3. AsRead'[p].content = content /\ content \in Seq(Lines)  BY <3>1, <3>2 DEF Text
      <3>4. AsRead' = [AsRead EXCEPT ![p] = [etag |-> AsRead[p].etag + 1, content |-> AsRead'[p].content]]
        BY <3>1, <3>2, <3>3
      <3> QED  BY <3>3, <3>4 DEF Contract!Write
    <2>3. ASSUME UNCHANGED primary PROVE UNCHANGED AsRead  BY <2>1, <2>3
    <2>4. ASSUME NEW r \in Runs, Run(r) \/ RunFails(r) PROVE [Contract!Next]_AsRead
      <3>1. RunWrites(r) \/ RunElse(r)  BY <2>1, <2>4, RunStep
      <3>2. r \in Paths /\ "state" \in Paths /\ "artifact" \in Lines /\ r \in Lines
        BY NamesDiffer, LineTypes DEF Shared
      <3>3. CASE RunWrites(r)
        BY <2>1, <2>2, <3>2, <3>3, ArtifactIs, DigestIs DEF RunWrites, Contract!Next
      <3>4. CASE RunElse(r)  BY <2>3, <3>4 DEF RunElse
      <3> QED  BY <3>1, <3>3, <3>4
    <2>5. ASSUME NEW c \in Callers, Call(c) \/ CallFails(c) PROVE [Contract!Next]_AsRead
      <3>1. CallReads(c) \/ CallSpills(c) \/ CallRefused(c) \/ CallWrites(c)  BY <2>1, <2>5, CallStep
      <3>2. CASE CallWrites(c)
        <4>1. Item(c) \in Paths /\ NewContent(c) \in Text /\ c \in Lines
          BY <2>1, <3>2, BatchIs, LineTypes DEF CallWrites
        <4> QED  BY <2>2, <3>2, <4>1 DEF CallWrites, Contract!Next
      <3>3. CASE CallReads(c) \/ CallSpills(c) \/ CallRefused(c)
        BY <2>3, <3>3 DEF CallReads, CallSpills, CallRefused
      <3> QED  BY <3>1, <3>2, <3>3
    <2>6. CASE UNCHANGED <<primary, blobs, pc, seen, tries, read, results, landed, blind>>
      BY <2>3, <2>6
    <2> QED  BY <1>4, <2>4, <2>5, <2>6, Steps
  <1> QED  BY <1>3, <1>4, MemoryInvariant, PTL DEF Spec, ImplementsContract, Contract!Spec
=============================================================================
