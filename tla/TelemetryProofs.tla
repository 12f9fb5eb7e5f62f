--------------------------- MODULE TelemetryProofs ---------------------------
(***************************************************************************)
(* Proofs about Telemetry, for any nodes, zones, patterns and what they    *)
(* select, length of the day, and any bounds on messages, failures,        *)
(* queries and the stream.                                                 *)
(***************************************************************************)
EXTENDS Telemetry, FiniteSetTheorems, SequenceTheorems, TLAPS

-----------------------------------------------------------------------------
(* The inductive invariant.                                                *)

Asks == [start : Int, end : 0 .. LastTick, limit : Nat, kind : {"any", "event"}]

Types ==
  /\ now \in Ticks
  /\ sent \in 0 .. MaxMessages
  /\ inbox \in [Subscriptions -> Seq(Messages)]
  /\ held \in [Subscriptions -> Records \cup {None}]
  /\ files \in [Paths -> Seq(Records)]
  /\ torn \in [Paths -> BOOLEAN]
  /\ written \in Nat
  /\ failures \in 0 .. MaxFailures
  /\ phase \in {"idle", "reading", "answered"}
  /\ ask \in Asks
  /\ todo \subseteq Paths
  /\ unopened \subseteq Paths
  /\ before \subseteq Records
  /\ got \subseteq Records
  /\ answer \subseteq got
  /\ stream \in Seq(1 .. MaxMessages)

\* What waits at a subscription, and what a file holds.
Waiting(s) == ToSet(inbox[s])
Lines(p) == ToSet(files[p])

\* A record is kept in the file of its date and node, and nothing is kept
\* that no message was sent for.
FileInv == \A p \in Paths : \A r \in Lines(p) : PathFor(r) = p

\* What a query has read, what it passed over and what is in the files it has
\* still to read, are all the records it must return.
ReadInv ==
  /\ phase = "idle" => got = {} /\ answer = {}
  /\ phase # "reading" => todo = {}
  /\ IsFiniteSet(got)
  /\ \A r \in got : Matches(r) /\ r \in Stored
  /\ phase # "idle" =>
       \A r \in before : Matches(r) =>
         r \in got \/ PassedOver(r) \/ \E p \in todo : r \in Lines(p)
  /\ phase = "answered" => IF Cardinality(got) > ask.limit
                             THEN Cardinality(answer) = ask.limit
                             ELSE answer = got

QueryInv == FileInv /\ ReadInv

-----------------------------------------------------------------------------
(* Where a message is, from its publication to its file.                   *)

\* The messages and the records there are.
Items == (UNION {Waiting(s) : s \in Subscriptions})
           \cup {r \in Records : \E s \in Subscriptions : held[s] = r /\ r # None}
           \cup Stored

\* No message has a number that is still to come.
NumbersInv == \A x \in Items : x.id <= sent

\* A subscription handles the messages it selects in the order in which they
\* were published.
OrderInv(s) ==
  /\ \A m \in Waiting(s) : m.kind \in Selected(s)
  /\ \A i, j \in DOMAIN inbox[s] : i < j => inbox[s][i].id < inbox[s][j].id
  /\ held[s] # None =>
       /\ held[s].by = s /\ held[s].kind \in Selected(s)
       /\ \A m \in Waiting(s) : held[s].id < m.id
  /\ \A r \in Stored : r.by = s =>
       /\ r.kind \in Selected(s)
       /\ held[s] # None => r.id < held[s].id
       /\ \A m \in Waiting(s) : r.id < m.id

\* No subscription has stored a message twice.
LinesDistinct ==
  \A p, q \in Paths : \A i \in DOMAIN files[p], j \in DOMAIN files[q] :
    files[p][i].id = files[q][j].id /\ files[p][i].by = files[q][j].by => p = q /\ i = j

StoreInv ==
  /\ NumbersInv
  /\ \A s \in Subscriptions : OrderInv(s)
  /\ LinesDistinct

\* A file that ends in half a line has swallowed none of the records that
\* count as written yet.
Torn == {p \in Paths : torn[p]}

CountInv ==
  /\ IsFiniteSet(Stored)
  /\ IsFiniteSet(Torn)
  /\ written + Cardinality(Torn) <= Cardinality(Stored) + failures

-----------------------------------------------------------------------------
(* Sequences, days and paths.                                              *)

LEMMA AppendSet ==
  ASSUME NEW S, NEW s \in Seq(S), NEW e \in S
  PROVE  /\ Append(s, e) \in Seq(S)
         /\ ToSet(Append(s, e)) = ToSet(s) \cup {e}
         /\ DOMAIN s = 1 .. Len(s)
         /\ DOMAIN Append(s, e) = 1 .. (Len(s) + 1)
         /\ Append(s, e)[Len(s) + 1] = e
         /\ \A i \in 1 .. Len(s) : Append(s, e)[i] = s[i]
<1> DEFINE a == Append(s, e)
<1>1. /\ a \in Seq(S)
      /\ Len(s) \in Nat
      /\ DOMAIN s = 1 .. Len(s)
      /\ DOMAIN a = 1 .. (Len(s) + 1)
      /\ a[Len(s) + 1] = e
      /\ \A i \in 1 .. Len(s) : a[i] = s[i]
  OBVIOUS
<1> HIDE DEF a
<1>2. ToSet(s) \cup {e} \subseteq ToSet(a) BY <1>1 DEF ToSet
<1>3. ASSUME NEW i \in DOMAIN a PROVE a[i] \in ToSet(s) \cup {e}
  BY <1>1, <1>3 DEF ToSet
<1>4. ToSet(a) \subseteq ToSet(s) \cup {e} BY <1>3 DEF ToSet
<1>5. QED BY <1>1, <1>2, <1>4 DEF a

LEMMA TailSet ==
  ASSUME NEW S, NEW s \in Seq(S), s # <<>>
  PROVE  /\ Head(s) \in S /\ Head(s) \in ToSet(s) /\ Head(s) = s[1]
         /\ Tail(s) \in Seq(S) /\ ToSet(Tail(s)) \subseteq ToSet(s)
         /\ DOMAIN s = 1 .. Len(s) /\ Len(s) \in Nat \ {0}
         /\ DOMAIN Tail(s) = 1 .. (Len(s) - 1)
         /\ \A i \in 1 .. (Len(s) - 1) : Tail(s)[i] = s[i + 1]
<1> DEFINE t == Tail(s)
<1>1. /\ t \in Seq(S)
      /\ Len(s) \in Nat \ {0}
      /\ DOMAIN s = 1 .. Len(s)
      /\ DOMAIN t = 1 .. (Len(s) - 1)
      /\ \A i \in 1 .. (Len(s) - 1) : t[i] = s[i + 1]
      /\ Head(s) = s[1] /\ Head(s) \in S
  OBVIOUS
<1> HIDE DEF t
<1>2. Head(s) \in ToSet(s) BY <1>1 DEF ToSet
<1>3. ASSUME NEW i \in DOMAIN t PROVE t[i] \in ToSet(s)
  <2>1. i + 1 \in DOMAIN s /\ t[i] = s[i + 1] BY <1>1
  <2>2. QED BY <2>1 DEF ToSet
<1>4. ToSet(t) \subseteq ToSet(s) BY <1>3 DEF ToSet
<1>5. QED BY <1>1, <1>2, <1>4 DEF t

LEMMA Elements ==
  ASSUME NEW S, NEW s \in Seq(S)
  PROVE  ToSet(s) \subseteq S /\ \A i \in DOMAIN s : s[i] \in S /\ s[i] \in ToSet(s)
<1>1. \A i \in DOMAIN s : s[i] \in S OBVIOUS
<1>2. QED BY <1>1 DEF ToSet

LEMMA Division ==
  ASSUME NEW x \in Nat, NEW d \in Nat \ {0}
  PROVE  /\ x \div d \in Nat
         /\ (x \div d) * d <= x
         /\ x < (x \div d + 1) * d
<1> DEFINE q == x \div d
           r == x % d
<1>1. q \in Int /\ r \in Int /\ x = d * q + r /\ 0 <= r /\ r < d OBVIOUS
<1>2. q \in Nat OBVIOUS
<1> HIDE DEF q, r
<1>3. d * q = q * d BY <1>1
<1>4. (q + 1) * d = q * d + d BY <1>1
<1> DEFINE y == q * d
<1>5. y \in Int /\ x = y + r /\ (q + 1) * d = y + d BY <1>1, <1>3, <1>4
<1> HIDE DEF y
<1>6. y <= x /\ x < y + d BY <1>1, <1>5
<1>7. QED BY <1>2, <1>5, <1>6 DEF q, y

LEMMA Products ==
  ASSUME NEW i \in Nat, NEW j \in Nat, NEW k \in Nat, i <= j
  PROVE  i * k \in Nat /\ j * k \in Nat /\ i * k <= j * k
<1> DEFINE d == j - i
<1>1. d \in Nat /\ j = i + d OBVIOUS
<1> HIDE DEF d
<1>2. d * k \in Nat /\ i * k \in Nat BY <1>1
<1>3. (i + d) * k = i * k + d * k BY <1>1
<1>4. QED BY <1>1, <1>2, <1>3

\* The date of a record is one of the directories there may be.
LEMMA PathFacts ==
  ASSUME NEW r \in Records
  PROVE  /\ PathFor(r) \in Paths
         /\ PathFor(r)[1] \in Nat
         /\ PathFor(r)[1] * Day \in Nat
         /\ PathFor(r)[1] * Day <= r.at + r.zone
         /\ r.at + r.zone < (PathFor(r)[1] + 1) * Day
         /\ (PathFor(r)[1] + 1) * Day \in Nat
         /\ r.at \in Day .. LastTick
         /\ r.zone \in -Day .. Day
<1> DEFINE x == r.at + r.zone
           q == x \div Day
           last == LastTick \div Day
<1>1. Day \in Nat \ {0} /\ LastTick \in Nat BY TelemetryAssumption
<1>2. r.at \in Day .. LastTick /\ r.zone \in -Day .. Day
  BY TelemetryAssumption DEF Records, Ticks
<1>3. x \in Nat /\ x <= LastTick + Day BY <1>1, <1>2
<1> HIDE DEF x
<1>4. /\ q \in Nat /\ q * Day <= x /\ x < (q + 1) * Day
      /\ last \in Nat /\ LastTick < (last + 1) * Day
  BY <1>1, <1>3, Division
<1>5. q * Day \in Nat /\ (q + 1) * Day \in Nat BY <1>1, <1>4, Products
<1>6. PathFor(r) = <<q, r.node>> BY DEF PathFor, x
<1> HIDE DEF q, last
<1>7. q <= last + 1
  <2> SUFFICES ASSUME ~(q <= last + 1) PROVE FALSE OBVIOUS
  <2>1. last + 2 <= q BY <1>4
  <2>2. (last + 2) * Day <= q * Day BY <1>1, <1>4, <2>1, Products
  <2> DEFINE y == (last + 1) * Day
             z == q * Day
  <2>3. (last + 2) * Day = y + Day BY <1>1, <1>4
  <2>4. y \in Nat BY <1>1, <1>4, Products
  <2>5. LastTick < y /\ y + Day <= z /\ z <= x /\ z \in Nat BY <1>4, <1>5, <2>2, <2>3
  <2> HIDE DEF y, z
  <2>6. QED BY <1>1, <1>3, <2>4, <2>5
<1>a. r.node \in Nodes BY DEF Records
<1>b. q \in 0 .. (last + 1) BY <1>4, <1>7
<1>8. PathFor(r) \in Paths BY <1>6, <1>a, <1>b DEF Paths, last
<1>9. PathFor(r)[1] = q BY <1>6
<1>10. QED BY <1>2, <1>4, <1>5, <1>8, <1>9 DEF x

\* A pattern that is not in the configuration is events.>, once, and then no
\* other pattern is.
LEMMA PatternFacts ==
  ASSUME NEW a \in Subscriptions, NEW b \in Subscriptions, a # b
  PROVE  Patterns[a] # Patterns[b] \/ {a, b} \subseteq DOMAIN Configured
<1> DEFINE S == DOMAIN Selects
           c == Configured
<1>a. "logs.>" \in S /\ "events.>" \in S /\ Subjects \in Seq(S) BY TelemetryAssumption
<1>b. c = IF Subjects = <<>> THEN <<"logs.>">> ELSE Subjects BY DEF Configured
<1> HIDE DEF S, c
<1>c. <<"logs.>">> \in Seq(S) BY <1>a
<1>1. c \in Seq(S) /\ "events.>" \in S BY <1>a, <1>b, <1>c
<1>2. CASE Patterns = c BY <1>2 DEF Subscriptions, c
<1>3. CASE Patterns # c
  <2>1. Patterns = Append(c, "events.>") /\ "events.>" \notin ToSet(c)
    BY <1>3 DEF Patterns, c
  <2>2. /\ DOMAIN c = 1 .. Len(c) /\ Len(c) \in Nat
        /\ DOMAIN Patterns = 1 .. (Len(c) + 1)
        /\ Patterns[Len(c) + 1] = "events.>"
        /\ \A i \in 1 .. Len(c) : Patterns[i] = c[i]
    BY <1>1, <2>1, AppendSet
  <2>3. \A i \in DOMAIN c : Patterns[i] # "events.>" BY <1>1, <2>1, <2>2, Elements
  <2>4. \A i \in Subscriptions : i \in DOMAIN c \/ i = Len(c) + 1 BY <2>2 DEF Subscriptions
  <2>5. QED BY <2>2, <2>3, <2>4 DEF c
<1>4. QED BY <1>2, <1>3

\* What a callback makes of a message keeps its number and its kind.
LEMMA RecordFacts ==
  ASSUME NEW m \in Messages, NEW s \in Subscriptions, now \in Ticks
  PROVE  /\ RecordOf(m, s) \in Records
         /\ RecordOf(m, s).id = m.id /\ RecordOf(m, s).kind = m.kind
         /\ RecordOf(m, s).by = s
<1>1. /\ m.id \in 1 .. MaxMessages /\ m.kind \in Kinds /\ m.node \in Nodes
      /\ m.at \in Ticks /\ m.zone \in Zones
  BY DEF Messages
<1> DEFINE l == m.form = "long"
           a == IF Stamped(m) THEN m.at ELSE now
           z == IF Stamped(m) THEN m.zone ELSE ServerZone
<1>2. a \in Ticks /\ z \in Zones \cup {ServerZone} /\ l \in BOOLEAN BY <1>1
<1>3. RecordOf(m, s) = [id |-> m.id, kind |-> m.kind, node |-> m.node, by |-> s, long |-> l,
                        at |-> a, zone |-> z]
  BY DEF RecordOf
<1> HIDE DEF a, z, l
<1>4. QED BY <1>1, <1>2, <1>3 DEF Records

-----------------------------------------------------------------------------
(* Types.                                                                  *)

LEMMA InitTypes == Init => Types
<1> SUFFICES ASSUME Init PROVE Types OBVIOUS
<1>1. Day \in Nat /\ LastTick \in Nat /\ Day <= LastTick /\ MaxMessages \in Nat /\ MaxFailures \in Nat
  BY TelemetryAssumption
<1>2. now \in Ticks /\ sent \in 0 .. MaxMessages /\ failures \in 0 .. MaxFailures
  BY <1>1 DEF Init, Ticks
<1>3. NoAsk \in Asks BY <1>1 DEF NoAsk, Asks
<1>4. QED BY <1>2, <1>3 DEF Init, Types

LEMMA PublishTypes ==
  ASSUME Types, NEW k \in Kinds, NEW n \in Nodes, NEW z \in Zones, NEW f \in Forms,
         Publish(k, n, z, f)
  PROVE  Types'
<1> DEFINE m == [id |-> sent + 1, kind |-> k, node |-> n, at |-> now, zone |-> z, form |-> f]
<1>1. MaxMessages \in Nat /\ sent \in 0 .. MaxMessages /\ sent < MaxMessages /\ now \in Ticks
  BY TelemetryAssumption DEF Types, Publish
<1>2. sent + 1 \in 1 .. MaxMessages /\ sent' \in 0 .. MaxMessages BY <1>1 DEF Publish
<1>3. m \in Messages /\ m.id = sent + 1 BY <1>1, <1>2 DEF Messages
<1>4. inbox' = [s \in Subscriptions |-> IF k \in Selected(s) THEN Append(inbox[s], m) ELSE inbox[s]]
  BY DEF Publish
<1>5. k = "event" => Capture(m.id) BY DEF Publish
<1>6. k # "event" => stream' = stream BY DEF Publish
<1> HIDE DEF m
<1>7. inbox \in [Subscriptions -> Seq(Messages)] /\ stream \in Seq(1 .. MaxMessages) BY DEF Types
<1>8. inbox' \in [Subscriptions -> Seq(Messages)]
  <2>1. ASSUME NEW s \in Subscriptions PROVE Append(inbox[s], m) \in Seq(Messages)
    BY <1>3, <1>7, AppendSet
  <2>2. QED BY <1>4, <1>7, <2>1
<1>9. stream' \in Seq(1 .. MaxMessages)
  <2> DEFINE a == Append(stream, m.id)
  <2>1. a \in Seq(1 .. MaxMessages) /\ Len(a) = Len(stream) + 1 /\ Len(stream) \in Nat
    BY <1>2, <1>3, <1>7
  <2>2. k = "event" => stream' = IF Len(a) > StreamCap THEN Tail(a) ELSE a
    BY <1>5 DEF Capture
  <2> HIDE DEF a
  <2>3. a # <<>> BY <2>1
  <2>4. Tail(a) \in Seq(1 .. MaxMessages) BY <2>1, <2>3
  <2>5. QED BY <1>6, <1>7, <2>1, <2>2, <2>4
<1>10. UNCHANGED <<now, held, files, torn, written, failures, phase, ask, todo, unopened, before, got, answer>>
  BY DEF Publish, storeVars, queryVars
<1>11. QED BY <1>2, <1>8, <1>9, <1>10 DEF Types

LEMMA NormalizeTypes ==
  ASSUME Types, NEW s \in Subscriptions, Normalize(s)
  PROVE  /\ Types'
         /\ Head(inbox[s]) \in Messages
         /\ held' = [held EXCEPT ![s] = IF Accepted(Head(inbox[s]))
                                          THEN RecordOf(Head(inbox[s]), s) ELSE None]
<1> DEFINE m == Head(inbox[s])
           h == IF Accepted(m) THEN RecordOf(m, s) ELSE None
<1>1. /\ inbox \in [Subscriptions -> Seq(Messages)]
      /\ held \in [Subscriptions -> Records \cup {None}]
      /\ now \in Ticks
      /\ inbox[s] \in Seq(Messages) /\ inbox[s] # <<>>
  BY DEF Types, Normalize
<1>2. m \in Messages /\ Tail(inbox[s]) \in Seq(Messages) BY <1>1, TailSet
<1>3. h \in Records \cup {None} BY <1>1, <1>2, RecordFacts
<1>4. inbox' = [inbox EXCEPT ![s] = Tail(inbox[s])] /\ held' = [held EXCEPT ![s] = h]
  BY DEF Normalize
<1>5. inbox' \in [Subscriptions -> Seq(Messages)] BY <1>1, <1>2, <1>4
<1>6. held' \in [Subscriptions -> Records \cup {None}]
  <2> HIDE DEF h
  <2>1. QED BY <1>1, <1>3, <1>4
<1>7. UNCHANGED <<now, sent, files, torn, written, failures, phase, ask, todo, unopened, before, got,
                  answer, stream>>
  BY DEF Normalize, storeVars, queryVars
<1>8. Types' BY <1>5, <1>6, <1>7 DEF Types
<1>9. QED BY <1>2, <1>4, <1>8

\* A write appends the record to the file of its date, unless that file ends
\* in half a line.
LEMMA WriteFacts ==
  ASSUME Types, NEW s \in Subscriptions, Write(s)
  PROVE  LET h == held[s]
             p == PathFor(h)
             lost == torn[p] /\ ~h.long
             new == IF lost THEN {} ELSE {h}
         IN  /\ h \in Records /\ p \in Paths
             /\ lost => files' = files
             /\ ~lost => files' = [files EXCEPT ![p] = Append(files[p], h)]
             /\ files' \in [Paths -> Seq(Records)]
             /\ \A q \in Paths : Lines(q)' = IF q = p THEN Lines(q) \cup new ELSE Lines(q)
             /\ Stored' = Stored \cup new
             /\ held' = [held EXCEPT ![s] = None]
             /\ torn' = [torn EXCEPT ![p] = FALSE]
<1> DEFINE h == held[s]
           p == PathFor(h)
           lost == torn[p] /\ ~h.long
           new == IF lost THEN {} ELSE {h}
<1>1. files \in [Paths -> Seq(Records)] /\ held \in [Subscriptions -> Records \cup {None}]
  BY DEF Types
<1>2. h \in Records /\ p \in Paths BY <1>1, PathFacts DEF Write
<1>3. /\ files' = IF lost THEN files ELSE [files EXCEPT ![p] = Append(files[p], h)]
      /\ held' = [held EXCEPT ![s] = None]
      /\ torn' = [torn EXCEPT ![p] = FALSE]
  BY DEF Write
<1>4. files[p] \in Seq(Records) BY <1>1, <1>2
<1>5. /\ Append(files[p], h) \in Seq(Records)
      /\ ToSet(Append(files[p], h)) = ToSet(files[p]) \cup {h}
  BY <1>2, <1>4, AppendSet
<1> HIDE DEF h, p, lost
<1>6. files' \in [Paths -> Seq(Records)] BY <1>1, <1>2, <1>3, <1>5
<1>7. ASSUME NEW q \in Paths
      PROVE  ToSet(files'[q]) = IF q = p THEN ToSet(files[q]) \cup new ELSE ToSet(files[q])
  <2>1. CASE lost BY <1>3, <2>1
  <2>2. CASE ~lost
    <3>1. CASE q = p BY <1>1, <1>2, <1>3, <1>5, <2>2, <3>1
    <3>2. CASE q # p
      <4>1. files'[q] = files[q] BY <1>1, <1>3, <2>2, <3>2
      <4>2. QED BY <3>2, <4>1
    <3>3. QED BY <3>1, <3>2
  <2>3. QED BY <2>1, <2>2
<1> HIDE DEF new
<1>8. Stored' = Stored \cup new
  <2>1. Stored' = UNION {ToSet(files'[q]) : q \in Paths} BY DEF Stored
  <2>2. ASSUME NEW r PROVE r \in Stored' <=> r \in Stored \cup new
    BY <1>2, <1>7, <2>1 DEF Stored
  <2>3. QED BY <2>2
<1>9. QED BY <1>2, <1>3, <1>6, <1>7, <1>8 DEF Lines, h, p, new, lost

LEMMA StoreTypes ==
  ASSUME Types, NEW s \in Subscriptions, Write(s) \/ WriteFails(s)
  PROVE  Types'
<1>1. CASE Write(s)
  <2>1. /\ files' \in [Paths -> Seq(Records)]
        /\ held' = [held EXCEPT ![s] = None]
        /\ PathFor(held[s]) \in Paths
        /\ torn' = [torn EXCEPT ![PathFor(held[s])] = FALSE]
    BY <1>1, WriteFacts
  <2>2. held' \in [Subscriptions -> Records \cup {None}] /\ torn' \in [Paths -> BOOLEAN]
    BY <2>1 DEF Types
  <2>3. written' \in Nat BY <1>1 DEF Write, Types
  <2>4. UNCHANGED <<now, sent, inbox, failures, phase, ask, todo, unopened, before, got, answer, stream>>
    BY <1>1 DEF Write, queryVars
  <2>5. QED BY <2>1, <2>2, <2>3, <2>4 DEF Types
<1>2. CASE WriteFails(s)
  <2>1. held[s] \in Records BY <1>2 DEF WriteFails, Types
  <2>2. PathFor(held[s]) \in Paths BY <2>1, PathFacts
  <2>3. torn' \in [Paths -> BOOLEAN] BY <1>2, <2>2 DEF WriteFails, Types
  <2>4. held' \in [Subscriptions -> Records \cup {None}] BY <1>2 DEF WriteFails, Types
  <2>5. failures' \in 0 .. MaxFailures BY <1>2, TelemetryAssumption DEF WriteFails, Types
  <2>6. UNCHANGED <<now, sent, inbox, files, written, phase, ask, todo, unopened, before, got, answer, stream>>
    BY <1>2 DEF WriteFails, queryVars
  <2>7. QED BY <2>3, <2>4, <2>5, <2>6 DEF Types
<1>3. QED BY <1>1, <1>2

LEMMA RestartTypes ==
  ASSUME Types, Restart
  PROVE  Types'
<1>1. failures' \in 0 .. MaxFailures BY TelemetryAssumption DEF Restart, Types
<1>2. NoAsk \in Asks BY TelemetryAssumption DEF NoAsk, Asks
<1>3. QED BY <1>1, <1>2 DEF Restart, Types

LEMMA StoredRecords == ASSUME Types PROVE Stored \subseteq Records
<1>1. ASSUME NEW p \in Paths PROVE ToSet(files[p]) \subseteq Records
  <2>1. files[p] \in Seq(Records) BY DEF Types
  <2>2. QED BY <2>1, Elements
<1>2. QED BY <1>1 DEF Stored

LEMMA QueryTypes ==
  ASSUME Types,
         \/ \E since, until \in 0 .. LastTick, l \in 0 .. MaxQueryLimit, k \in {"any", "event"} :
              QueryBegin(since, until, l, k)
         \/ QueryRead
         \/ QueryReadFails
         \/ QueryAnswer
         \/ QueryReplied
  PROVE  Types'
<1>1. ASSUME NEW since \in 0 .. LastTick, NEW until \in 0 .. LastTick,
             NEW l \in 0 .. MaxQueryLimit, NEW k \in {"any", "event"}, QueryBegin(since, until, l, k)
      PROVE  Types'
  <2> DEFINE start == ResolveStart(since, until)
             limit == EffectiveLimit(l)
  <2>1. /\ start \in Int /\ limit \in Nat
        /\ until \in 0 .. LastTick
    BY TelemetryAssumption DEF ResolveStart, EffectiveLimit
  <2>2. ask' = [start |-> start, end |-> until, limit |-> limit, kind |-> k]
    BY <1>1 DEF QueryBegin
  <2> HIDE DEF start, limit
  <2>3. ask' \in Asks BY <2>1, <2>2 DEF Asks
  <2>4. before' \subseteq Records BY <1>1, StoredRecords DEF QueryBegin
  <2>5. phase' = "reading" /\ UNCHANGED <<now, sent, inbox, held, files, torn, written, got,
                                           answer, stream>>
    BY <1>1 DEF QueryBegin, storeVars
  <2>6. PathsForRange(start, until) \subseteq Paths BY DEF PathsForRange
  <2>7. /\ todo' \subseteq PathsForRange(start, until)
        /\ unopened' = unopened \/ unopened' \subseteq PathsForRange(start, until)
        /\ failures' = failures \/ (failures < MaxFailures /\ failures' = failures + 1)
    BY <1>1 DEF QueryBegin, start
  <2>8. failures' \in 0 .. MaxFailures
    <3>1. MaxFailures \in Nat /\ failures \in 0 .. MaxFailures BY TelemetryAssumption DEF Types
    <3>2. QED BY <2>7, <3>1
  <2>9. todo' \subseteq Paths /\ unopened' \subseteq Paths BY <2>6, <2>7 DEF Types
  <2>10. QED BY <2>3, <2>4, <2>5, <2>8, <2>9 DEF Types
<1>2. CASE QueryRead
  <2>1. PICK p \in todo : /\ todo' = todo \ {p}
                          /\ got' = got \cup {r \in Scanned(p) : Matches(r)}
    BY <1>2 DEF QueryRead
  <2>2. Scanned(p) \subseteq Records
    <3>1. p \in Paths /\ files[p] \in Seq(Records) BY DEF Types
    <3>2. QED BY <3>1, Elements DEF Scanned
  <2>3. UNCHANGED <<now, sent, inbox, held, files, torn, written, failures, phase, ask, unopened,
                    before, answer, stream>>
    BY <1>2 DEF QueryRead, storeVars
  <2>4. QED BY <2>1, <2>2, <2>3 DEF Types
<1>6. CASE QueryReadFails
  <2>1. todo' \subseteq Paths /\ unopened' \subseteq Paths BY <1>6 DEF QueryReadFails, Types
  <2>2. failures' \in 0 .. MaxFailures BY <1>6, TelemetryAssumption DEF QueryReadFails, Types
  <2>3. UNCHANGED <<now, sent, inbox, held, files, torn, written, phase, ask, before, got, answer,
                    stream>>
    BY <1>6 DEF QueryReadFails, storeVars
  <2>4. QED BY <2>1, <2>2, <2>3 DEF Types
<1>3. CASE QueryAnswer
  <2>1. answer' \subseteq got BY <1>3 DEF QueryAnswer, kSubset
  <2>2. phase' = "answered" BY <1>3 DEF QueryAnswer
  <2>3. UNCHANGED <<now, sent, inbox, held, files, torn, written, failures, ask, todo, unopened,
                    before, got, stream>>
    BY <1>3 DEF QueryAnswer, storeVars
  <2>4. QED BY <2>1, <2>2, <2>3 DEF Types
<1>4. CASE QueryReplied
  <2>1. NoAsk \in Asks BY TelemetryAssumption DEF NoAsk, Asks
  <2>2. QED BY <1>4, <2>1 DEF QueryReplied, storeVars, Types
<1>5. QED BY <1>1, <1>2, <1>3, <1>4, <1>6

LEMMA TypesStep == Types /\ [Next]_vars => Types'
<1> SUFFICES ASSUME Types, [Next]_vars PROVE Types' OBVIOUS
<1>1. CASE UNCHANGED vars BY <1>1 DEF vars, storeVars, queryVars, Types
<1>2. CASE Tick
  <2>1. now' \in Ticks BY <1>2, TelemetryAssumption DEF Tick, Types, Ticks
  <2>2. QED BY <1>2, <2>1 DEF Tick, storeVars, queryVars, Types
<1>3. QED BY <1>1, <1>2, PublishTypes, NormalizeTypes, StoreTypes, RestartTypes, QueryTypes DEF Next

\* The type invariant holds in every behaviour.
THEOREM TypeCorrect == Spec => []TypeOK
<1>1. Types => TypeOK BY DEF Types, TypeOK
<1>2. QED BY <1>1, InitTypes, TypesStep, PTL DEF Spec

LEMMA TypesInvariant == Spec => []Types
BY InitTypes, TypesStep, PTL DEF Spec

-----------------------------------------------------------------------------
(* Queries.                                                                *)

LEMMA FiniteLines ==
  ASSUME NEW S, NEW s \in Seq(S)
  PROVE  IsFiniteSet(ToSet(s))
<1>1. s \in [1 .. Len(s) -> S] /\ Len(s) \in Nat OBVIOUS
<1>2. s \in Surjection(1 .. Len(s), ToSet(s)) BY <1>1 DEF Surjection, ToSet
<1>3. IsFiniteSet(1 .. Len(s)) BY <1>1, FS_Interval
<1>4. QED BY <1>2, <1>3, FS_Surjection

LEMMA MinOfTwo ==
  ASSUME NEW i \in Nat, NEW j \in Nat
  PROVE  Min({i, j}) = IF j > i THEN i ELSE j
<1> DEFINE k == IF j > i THEN i ELSE j
<1>1. k \in {i, j} /\ \A y \in {i, j} : k <= y OBVIOUS
<1>2. Min({i, j}) \in {i, j} /\ \A y \in {i, j} : Min({i, j}) <= y
  BY <1>1 DEF Min
<1>3. QED BY <1>2

\* Everything a file holds is read when its date is in the range of the query.
LEMMA RangeCovers ==
  ASSUME Types, FileInv, NEW start \in Int, NEW until \in Int,
         NEW p \in Paths, NEW r \in Lines(p), start <= r.at, r.at <= until
  PROVE  p \in PathsForRange(start, until)
<1>1. files[p] \in Seq(Records) BY DEF Types
<1>2. r \in Records /\ files[p] # <<>>
  <2>1. r \in Records BY <1>1, Elements DEF Lines
  <2>2. files[p] # <<>> BY DEF Lines, ToSet
  <2>3. QED BY <2>1, <2>2
<1>3. PathFor(r) = p BY DEF FileInv
<1> DEFINE a == p[1] * Day
           b == (p[1] + 1) * Day
<1>4. /\ a \in Nat /\ b \in Nat /\ a <= r.at + r.zone /\ r.at + r.zone < b
      /\ r.at \in Day .. LastTick /\ r.zone \in -Day .. Day
  BY <1>2, <1>3, PathFacts
<1> HIDE DEF a, b
<1>5. b >= start - Day /\ a <= until + Day BY <1>4, TelemetryAssumption
<1>6. QED BY <1>2, <1>5 DEF PathsForRange, a, b

\* A line of a file stays where it is.
LEMMA FileStep ==
  ASSUME Types, FileInv, [Next]_vars
  PROVE  /\ FileInv'
         /\ \A p \in Paths : \A i \in DOMAIN files[p] :
              i \in DOMAIN files'[p] /\ files'[p][i] = files[p][i]
         /\ Stored \subseteq Stored'
<1>1. CASE files' = files BY <1>1 DEF FileInv, Lines, Stored
<1>2. ASSUME NEW s \in Subscriptions, Write(s)
      PROVE  /\ FileInv'
             /\ \A p \in Paths : \A i \in DOMAIN files[p] :
                  i \in DOMAIN files'[p] /\ files'[p][i] = files[p][i]
             /\ Stored \subseteq Stored'
  <2> DEFINE h == held[s]
             w == PathFor(h)
             lost == torn[w] /\ ~h.long
             new == IF lost THEN {} ELSE {h}
  <2>1. /\ h \in Records /\ w \in Paths
        /\ lost => files' = files
        /\ ~lost => files' = [files EXCEPT ![w] = Append(files[w], h)]
        /\ \A q \in Paths : Lines(q)' = IF q = w THEN Lines(q) \cup new ELSE Lines(q)
        /\ Stored' = Stored \cup new
    BY <1>2, WriteFacts
  <2>2. \A r \in new : PathFor(r) = w OBVIOUS
  <2>3. files \in [Paths -> Seq(Records)] BY DEF Types
  <2> HIDE DEF h, w, lost, new
  <2>4. \A q \in Paths : \A r \in Lines(q)' : PathFor(r) = q BY <2>1, <2>2 DEF FileInv
  <2>5. ASSUME NEW p \in Paths, NEW i \in DOMAIN files[p]
        PROVE  i \in DOMAIN files'[p] /\ files'[p][i] = files[p][i]
    <3>1. CASE lost \/ p # w BY <2>1, <2>3, <3>1
    <3>2. CASE ~lost /\ p = w
      <4>1. files'[p] = Append(files[p], h) /\ files[p] \in Seq(Records) BY <2>1, <2>3, <3>2
      <4>2. QED BY <2>1, <4>1, AppendSet
    <3>3. QED BY <3>1, <3>2
  <2>6. QED BY <2>1, <2>4, <2>5 DEF FileInv
<1>3. files' = files \/ \E s \in Subscriptions : Write(s)
  BY DEF Next, vars, storeVars, queryVars, Tick, Publish, Normalize, WriteFails, Restart,
         QueryBegin, QueryRead, QueryReadFails, QueryAnswer, QueryReplied
<1>4. QED BY <1>1, <1>2, <1>3

\* What was passed over, or is in a file, stays so.
LEMMA LinesStay ==
  ASSUME Types, unopened \subseteq unopened',
         \A p \in Paths : \A i \in DOMAIN files[p] :
           i \in DOMAIN files'[p] /\ files'[p][i] = files[p][i]
  PROVE  /\ \A r : PassedOver(r) => PassedOver(r)'
         /\ \A p \in Paths : Lines(p) \subseteq Lines(p)'
<1>1. ASSUME NEW r, PassedOver(r) PROVE PassedOver(r)'
  <2>1. PICK p \in Paths : \E i \in DOMAIN files[p] :
          files[p][i] = r /\ (p \in unopened \/ \E j \in 1 .. i : files[p][j].long)
    BY <1>1 DEF PassedOver
  <2>2. PICK i \in DOMAIN files[p] :
          files[p][i] = r /\ (p \in unopened \/ \E j \in 1 .. i : files[p][j].long)
    BY <2>1
  <2>3. files[p] \in Seq(Records) BY DEF Types
  <2>4. \A j \in 1 .. i : j \in DOMAIN files[p] BY <2>3
  <2>5. i \in DOMAIN files'[p] /\ files'[p][i] = r /\ \A j \in 1 .. i : files'[p][j] = files[p][j]
    BY <2>2, <2>4
  <2>6. p \in unopened' \/ \E j \in 1 .. i : files'[p][j].long BY <2>2, <2>5
  <2>7. QED BY <2>5, <2>6 DEF PassedOver
<1>2. \A p \in Paths : Lines(p) \subseteq Lines(p)' BY DEF Lines, ToSet
<1>3. QED BY <1>1, <1>2

LEMMA ReadKept ==
  ASSUME Types, ReadInv, UNCHANGED queryVars,
         \A p \in Paths : \A i \in DOMAIN files[p] :
           i \in DOMAIN files'[p] /\ files'[p][i] = files[p][i],
         Stored \subseteq Stored'
  PROVE  ReadInv'
<1>1. UNCHANGED <<phase, ask, todo, unopened, before, got, answer>> BY DEF queryVars
<1>2. \A r : Matches(r)' <=> Matches(r) BY <1>1 DEF Matches
<1>3. /\ \A r : PassedOver(r) => PassedOver(r)'
      /\ \A p \in Paths : Lines(p) \subseteq Lines(p)'
  BY <1>1, LinesStay
<1>4. \A p \in todo : p \in Paths BY DEF Types
<1>5. QED BY <1>1, <1>2, <1>3, <1>4 DEF ReadInv

LEMMA BeginReads ==
  ASSUME Types, FileInv, ReadInv, NEW since \in 0 .. LastTick, NEW until \in 0 .. LastTick,
         NEW l, NEW k, QueryBegin(since, until, l, k)
  PROVE  ReadInv'
<1> DEFINE start == ResolveStart(since, until)
           listed == PathsForRange(start, until)
<1>1. start \in Int BY TelemetryAssumption DEF ResolveStart
<1>2. /\ phase = "idle" /\ phase' = "reading"
      /\ ask'.start = start /\ ask'.end = until
      /\ before' = Stored
      /\ UNCHANGED <<files, got, answer>>
  BY DEF QueryBegin, storeVars
<1>a. \A p \in listed : p \in todo' \/ p \in unopened' BY DEF QueryBegin
<1>b. todo' \subseteq Paths /\ listed \subseteq Paths BY DEF QueryBegin, PathsForRange
<1> HIDE DEF start, listed
<1>3. got' = {} /\ answer' = {} BY <1>2 DEF ReadInv
<1>4. ASSUME NEW r \in before', Matches(r)'
      PROVE  PassedOver(r)' \/ \E p \in todo' : r \in Lines(p)'
  <2>1. PICK p \in Paths : r \in Lines(p) BY <1>2 DEF Stored, Lines
  <2>2. start <= r.at /\ r.at <= until BY <1>2, <1>4 DEF Matches
  <2>3. until \in Int OBVIOUS
  <2>4. p \in listed BY <1>1, <1>2, <2>1, <2>2, <2>3, RangeCovers DEF listed
  <2>5. r \in Lines(p)' BY <1>2, <2>1 DEF Lines
  <2>6. p \in unopened' => PassedOver(r)'
    <3>1. PICK i \in DOMAIN files'[p] : files'[p][i] = r BY <2>5 DEF Lines, ToSet
    <3>2. QED BY <3>1 DEF PassedOver
  <2>7. QED BY <1>a, <2>4, <2>5, <2>6
<1>5. QED BY <1>2, <1>3, <1>4, FS_EmptySet DEF ReadInv

LEMMA ReadReads ==
  ASSUME Types, ReadInv, QueryRead
  PROVE  ReadInv'
<1>1. PICK p \in todo : /\ todo' = todo \ {p}
                        /\ got' = got \cup {r \in Scanned(p) : Matches(r)}
  BY DEF QueryRead
<1>2. phase = "reading" /\ UNCHANGED <<files, phase, ask, unopened, before, answer>>
  BY DEF QueryRead, storeVars
<1>3. p \in Paths /\ files[p] \in Seq(Records) BY DEF Types
<1>4. \A r : Matches(r)' <=> Matches(r) BY <1>2 DEF Matches
<1>5. /\ Stored' = Stored /\ \A q \in Paths : Lines(q)' = Lines(q)
      /\ \A r : PassedOver(r)' <=> PassedOver(r)
  BY <1>2 DEF Stored, Lines, PassedOver
<1> DEFINE found == {r \in Scanned(p) : Matches(r)}
<1>a. Scanned(p) \subseteq ToSet(files[p]) BY <1>3, Elements DEF Scanned
<1>6. IsFiniteSet(got')
  <2>1. IsFiniteSet(ToSet(files[p])) BY <1>3, FiniteLines
  <2>2. IsFiniteSet(found) BY <1>a, <2>1, FS_Subset
  <2>3. IsFiniteSet(got) BY DEF ReadInv
  <2>4. QED BY <1>1, <2>2, <2>3, FS_Union
<1>7. \A r \in got' : Matches(r)' /\ r \in Stored'
  <2>1. \A r \in ToSet(files[p]) : r \in Stored BY <1>3 DEF Stored
  <2>2. QED BY <1>1, <1>4, <1>5, <1>a, <2>1 DEF ReadInv
<1>8. ASSUME NEW r \in before', Matches(r)'
      PROVE  r \in got' \/ PassedOver(r)' \/ \E q \in todo' : r \in Lines(q)'
  <2>1. r \in got \/ PassedOver(r) \/ \E q \in todo : r \in Lines(q)
    BY <1>2, <1>4, <1>8 DEF ReadInv
  <2>2. \A q \in todo : q \in Paths BY DEF Types
  <2>3. ASSUME r \in Lines(p) PROVE r \in got' \/ PassedOver(r)
    <3>1. PICK i \in DOMAIN files[p] : files[p][i] = r BY <2>3 DEF Lines, ToSet
    <3>2. CASE \E j \in 1 .. i : files[p][j].long BY <1>3, <3>1, <3>2 DEF PassedOver
    <3>3. CASE \A j \in 1 .. i : ~files[p][j].long
      <4>1. r \in Scanned(p) BY <3>1, <3>3 DEF Scanned
      <4>2. QED BY <1>1, <1>4, <1>8, <4>1
    <3>4. QED BY <3>2, <3>3
  <2>4. QED BY <1>1, <1>5, <2>1, <2>2, <2>3
<1>9. QED BY <1>2, <1>6, <1>7, <1>8 DEF ReadInv

LEMMA PassReads ==
  ASSUME Types, ReadInv, QueryReadFails
  PROVE  ReadInv'
<1>1. PICK p \in todo : todo' = todo \ {p} /\ unopened' = unopened \cup {p}
  BY DEF QueryReadFails
<1>2. phase = "reading" /\ UNCHANGED <<files, phase, ask, before, got, answer>>
  BY DEF QueryReadFails, storeVars
<1>3. p \in Paths /\ \A q \in todo : q \in Paths BY DEF Types
<1>4. \A r : Matches(r)' <=> Matches(r) BY <1>2 DEF Matches
<1>5. /\ Stored' = Stored /\ \A q \in Paths : Lines(q)' = Lines(q)
      /\ \A r : PassedOver(r) => PassedOver(r)'
  BY <1>1, <1>2, LinesStay DEF Stored, Lines
<1>6. ASSUME NEW r \in Lines(p) PROVE PassedOver(r)'
  <2>1. PICK i \in DOMAIN files[p] : files[p][i] = r BY <1>6 DEF Lines, ToSet
  <2>2. QED BY <1>1, <1>2, <1>3, <2>1 DEF PassedOver
<1>7. ASSUME NEW r \in before', Matches(r)'
      PROVE  r \in got' \/ PassedOver(r)' \/ \E q \in todo' : r \in Lines(q)'
  <2>1. r \in got \/ PassedOver(r) \/ \E q \in todo : r \in Lines(q)
    BY <1>2, <1>4, <1>7 DEF ReadInv
  <2>2. QED BY <1>1, <1>2, <1>3, <1>5, <1>6, <2>1
<1>8. QED BY <1>2, <1>4, <1>5, <1>7 DEF ReadInv

LEMMA AnswerReads ==
  ASSUME Types, ReadInv, QueryAnswer
  PROVE  ReadInv'
<1>1. /\ phase = "reading" /\ phase' = "answered" /\ todo = {}
      /\ UNCHANGED <<files, ask, todo, unopened, before, got>>
  BY DEF QueryAnswer, storeVars
<1>2. answer' \subseteq got /\ Cardinality(answer') = Min({ask.limit, Cardinality(got)})
  BY DEF QueryAnswer, kSubset
<1>3. IsFiniteSet(got) /\ Cardinality(got) \in Nat /\ ask.limit \in Nat
  BY FS_CardinalityType DEF ReadInv, Types, Asks
<1>4. IF Cardinality(got) > ask.limit THEN Cardinality(answer') = ask.limit
                                      ELSE answer' = got
  <2>1. CASE Cardinality(got) > ask.limit BY <1>2, <1>3, <2>1, MinOfTwo
  <2>2. CASE ~(Cardinality(got) > ask.limit)
    <3>1. Cardinality(answer') = Cardinality(got) BY <1>2, <1>3, <2>2, MinOfTwo
    <3>2. QED BY <1>2, <1>3, <2>2, <3>1, FS_Subset
  <2>3. QED BY <2>1, <2>2
<1>5. \A r : Matches(r)' <=> Matches(r) BY <1>1 DEF Matches
<1>6. Stored' = Stored /\ \A r : PassedOver(r)' <=> PassedOver(r)
  BY <1>1 DEF Stored, PassedOver
<1>7. QED BY <1>1, <1>4, <1>5, <1>6 DEF ReadInv

LEMMA QueryStep ==
  ASSUME Types, QueryInv, [Next]_vars
  PROVE  QueryInv'
<1>1. FileInv /\ ReadInv BY DEF QueryInv
<1>2. /\ FileInv' /\ Stored \subseteq Stored'
      /\ \A p \in Paths : \A i \in DOMAIN files[p] :
           i \in DOMAIN files'[p] /\ files'[p][i] = files[p][i]
  BY <1>1, FileStep
<1>4. CASE Restart
  <2>1. phase' = "idle" /\ got' = {} /\ answer' = {} /\ todo' = {} BY <1>4 DEF Restart
  <2>2. ReadInv' BY <2>1, FS_EmptySet DEF ReadInv
  <2>3. QED BY <1>2, <2>2 DEF QueryInv
<1>5. CASE UNCHANGED queryVars BY <1>1, <1>2, <1>5, ReadKept DEF QueryInv
<1>6. CASE QueryReplied
  <2>1. /\ phase = "answered" /\ phase' = "idle" /\ got' = {} /\ answer' = {} /\ todo' = todo
    BY <1>6 DEF QueryReplied
  <2>2. ReadInv' BY <1>1, <2>1, FS_EmptySet DEF ReadInv
  <2>3. QED BY <1>2, <2>2 DEF QueryInv
<1>7. CASE QueryRead \/ QueryReadFails \/ QueryAnswer
  BY <1>1, <1>2, <1>7, ReadReads, PassReads, AnswerReads DEF QueryInv
<1>8. ASSUME NEW since \in 0 .. LastTick, NEW until \in 0 .. LastTick, NEW l, NEW k,
             QueryBegin(since, until, l, k)
      PROVE  QueryInv'
  BY <1>1, <1>2, <1>8, BeginReads DEF QueryInv
<1>9. \/ Restart \/ UNCHANGED queryVars \/ QueryReplied \/ QueryRead \/ QueryReadFails
      \/ QueryAnswer
      \/ \E since, until \in 0 .. LastTick, l \in 0 .. MaxQueryLimit, k \in {"any", "event"} :
           QueryBegin(since, until, l, k)
  BY DEF Next, vars, Tick, Publish, Normalize, Write, WriteFails
<1>10. QED BY <1>4, <1>5, <1>6, <1>7, <1>8, <1>9

\* A query loses no record of its window but those it passes over, and invents
\* none.
THEOREM QueriesAreExact == Spec => []QueryExact
<1>1. Init => QueryInv
  <2> SUFFICES ASSUME Init PROVE QueryInv OBVIOUS
  <2>1. \A p \in Paths : Lines(p) = {} BY DEF Init, Lines, ToSet
  <2>2. QED BY <2>1, FS_EmptySet DEF Init, QueryInv, FileInv, ReadInv
<1>2. Types /\ QueryInv /\ [Next]_vars => QueryInv' BY QueryStep
<1>3. Types /\ QueryInv => QueryExact BY DEF Types, QueryInv, ReadInv, QueryExact
<1>4. QED BY <1>1, <1>2, <1>3, TypesInvariant, PTL DEF Spec

-----------------------------------------------------------------------------
(* What is stored is stored once.                                          *)

LEMMA ItemTypes ==
  ASSUME Types
  PROVE  /\ \A s \in Subscriptions : Waiting(s) \subseteq Messages
         /\ \A x \in Items : x.id \in 1 .. MaxMessages /\ x.id \in Nat
         /\ sent \in Nat
<1>1. ASSUME NEW s \in Subscriptions PROVE Waiting(s) \subseteq Messages
  <2>1. inbox[s] \in Seq(Messages) BY DEF Types
  <2>2. QED BY <2>1, Elements DEF Waiting
<1>2. \A x \in Items : x \in Messages \/ x \in Records BY <1>1, StoredRecords DEF Items
<1>3. \A x : x \in Messages \/ x \in Records => x.id \in 1 .. MaxMessages
  BY DEF Messages, Records
<1>4. MaxMessages \in Nat BY TelemetryAssumption
<1>5. sent \in Nat BY <1>4 DEF Types
<1>6. QED BY <1>1, <1>2, <1>3, <1>4, <1>5

LEMMA ItemsOf ==
  ASSUME Types, NEW s \in Subscriptions
  PROVE  /\ \A m \in Waiting(s) : m \in Items
         /\ held[s] # None => held[s] \in Items /\ held[s] \in Records
         /\ \A r \in Stored : r \in Items
BY DEF Items, Types

\* A step that makes no number of its own.
LEMMA NumbersKept ==
  ASSUME NumbersInv, sent' = sent, \A x \in Items' : \E y \in Items : x.id = y.id
  PROVE  NumbersInv'
BY DEF NumbersInv

LEMMA OrderKept ==
  ASSUME NEW s \in Subscriptions, OrderInv(s), inbox'[s] = inbox[s],
         held'[s] = held[s] \/ held'[s] = None,
         \A r \in Stored' : r.by = s => r \in Stored
  PROVE  OrderInv(s)'
<1>1. Waiting(s)' = Waiting(s) BY DEF Waiting
<1>2. QED BY <1>1 DEF OrderInv

LEMMA PublishOnce ==
  ASSUME Types, StoreInv, NEW k \in Kinds, NEW n \in Nodes, NEW z \in Zones,
         NEW f \in Forms, Publish(k, n, z, f)
  PROVE  StoreInv'
<1> DEFINE m == [id |-> sent + 1, kind |-> k, node |-> n, at |-> now, zone |-> z, form |-> f]
<1>1. /\ inbox' = [s \in Subscriptions |-> IF k \in Selected(s) THEN Append(inbox[s], m) ELSE inbox[s]]
      /\ sent' = sent + 1
      /\ UNCHANGED <<held, files>>
  BY DEF Publish, storeVars
<1>2. m.id = sent + 1 /\ m.kind = k OBVIOUS
<1>3. m \in Messages
  <2>1. sent \in 0 .. MaxMessages /\ sent < MaxMessages /\ MaxMessages \in Nat /\ now \in Ticks
    BY TelemetryAssumption DEF Types, Publish
  <2>2. QED BY <2>1 DEF Messages
<1> HIDE DEF m
<1>4. inbox \in [Subscriptions -> Seq(Messages)] /\ sent \in Nat BY ItemTypes DEF Types
<1>5. ASSUME NEW s \in Subscriptions
      PROVE  Waiting(s)' = IF k \in Selected(s) THEN Waiting(s) \cup {m} ELSE Waiting(s)
  <2>1. inbox[s] \in Seq(Messages) BY <1>4
  <2>2. CASE k \in Selected(s)
    <3>1. inbox'[s] = Append(inbox[s], m) BY <1>1, <2>2
    <3>2. ToSet(Append(inbox[s], m)) = ToSet(inbox[s]) \cup {m} BY <1>3, <2>1, AppendSet
    <3>3. QED BY <2>2, <3>1, <3>2 DEF Waiting
  <2>3. CASE k \notin Selected(s)
    <3>1. inbox'[s] = inbox[s] BY <1>1, <2>3
    <3>2. QED BY <2>3, <3>1 DEF Waiting
  <2>4. QED BY <2>2, <2>3
<1>6. Stored' = Stored BY <1>1 DEF Stored
<1>7. \A x \in Items' : x \in Items \/ x = m BY <1>1, <1>5, <1>6 DEF Items
<1>8. NumbersInv'
  <2>1. \A x \in Items : x.id <= sent /\ x.id \in Nat BY ItemTypes DEF StoreInv, NumbersInv
  <2>2. \A x \in Items : x.id <= sent + 1 /\ x.id # sent + 1 BY <1>4, <2>1
  <2>3. \A x \in Items' : x.id <= sent' BY <1>1, <1>2, <1>4, <1>7, <2>2
  <2>4. QED BY <2>3 DEF NumbersInv
<1>9. ASSUME NEW s \in Subscriptions PROVE OrderInv(s)'
  <2>1. OrderInv(s) BY DEF StoreInv
  <2>2. CASE k \notin Selected(s)
    <3>1. inbox'[s] = inbox[s] BY <1>1, <2>2
    <3>2. QED BY <1>1, <1>6, <2>1, <3>1, OrderKept
  <2>3. CASE k \in Selected(s)
    <3>1. inbox'[s] = Append(inbox[s], m) /\ inbox[s] \in Seq(Messages) BY <1>1, <1>4, <2>3
    <3>2. /\ DOMAIN inbox[s] = 1 .. Len(inbox[s])
          /\ DOMAIN inbox'[s] = 1 .. (Len(inbox[s]) + 1)
          /\ inbox'[s][Len(inbox[s]) + 1] = m
          /\ \A i \in 1 .. Len(inbox[s]) : inbox'[s][i] = inbox[s][i]
          /\ Len(inbox[s]) \in Nat
      BY <1>3, <3>1, AppendSet
    <3>3. \A x \in Items : x.id <= sent /\ x.id \in Nat BY ItemTypes DEF StoreInv, NumbersInv
    <3>4. \A x \in Items : x.id < m.id BY <1>2, <1>4, <3>3
    <3>5. Waiting(s)' = Waiting(s) \cup {m} BY <1>5, <2>3
    <3>6. \A i \in 1 .. Len(inbox[s]) : inbox[s][i] \in Waiting(s)
      BY <3>1, <3>2, Elements DEF Waiting
    <3>7. ASSUME NEW i \in DOMAIN inbox'[s], NEW j \in DOMAIN inbox'[s], i < j
          PROVE  inbox'[s][i].id < inbox'[s][j].id
      <4>1. i \in 1 .. Len(inbox[s]) BY <3>2, <3>7
      <4>2. inbox'[s][i] = inbox[s][i] /\ inbox[s][i] \in Items BY <3>2, <3>6, <4>1, ItemsOf
      <4>3. CASE j = Len(inbox[s]) + 1 BY <3>2, <3>4, <4>2, <4>3
      <4>4. CASE j # Len(inbox[s]) + 1
        <5>1. j \in 1 .. Len(inbox[s]) BY <3>2, <4>4
        <5>2. inbox[s][i].id < inbox[s][j].id BY <2>1, <3>2, <3>7, <4>1, <5>1 DEF OrderInv
        <5>3. QED BY <3>2, <4>2, <5>1, <5>2
      <4>5. QED BY <4>3, <4>4
    <3>8. \A w \in Waiting(s)' : w.kind \in Selected(s) BY <1>2, <2>1, <2>3, <3>5 DEF OrderInv
    <3>9. held'[s] # None => /\ held'[s].by = s /\ held'[s].kind \in Selected(s)
                             /\ \A w \in Waiting(s)' : held'[s].id < w.id
      BY <1>1, <2>1, <3>4, <3>5, ItemsOf DEF OrderInv
    <3>10. \A r \in Stored' : r.by = s =>
             /\ r.kind \in Selected(s)
             /\ held'[s] # None => r.id < held'[s].id
             /\ \A w \in Waiting(s)' : r.id < w.id
      BY <1>1, <1>6, <2>1, <3>4, <3>5, ItemsOf DEF OrderInv
    <3>11. QED BY <3>7, <3>8, <3>9, <3>10 DEF OrderInv
  <2>4. QED BY <2>2, <2>3
<1>10. LinesDistinct' BY <1>1 DEF StoreInv, LinesDistinct
<1>11. QED BY <1>8, <1>9, <1>10 DEF StoreInv

LEMMA NormalizeOnce ==
  ASSUME Types, StoreInv, NEW s \in Subscriptions, Normalize(s)
  PROVE  StoreInv'
<1> DEFINE m == Head(inbox[s])
           h == IF Accepted(m) THEN RecordOf(m, s) ELSE None
<1>1. /\ inbox \in [Subscriptions -> Seq(Messages)]
      /\ held \in [Subscriptions -> Records \cup {None}]
      /\ inbox[s] \in Seq(Messages) /\ inbox[s] # <<>>
      /\ now \in Ticks
  BY DEF Types, Normalize
<1>2. inbox' = [inbox EXCEPT ![s] = Tail(inbox[s])] /\ held' = [held EXCEPT ![s] = h]
      /\ UNCHANGED <<sent, files>>
  BY DEF Normalize, storeVars
<1>3. /\ m \in Messages /\ m \in Waiting(s) /\ m = inbox[s][1]
      /\ ToSet(Tail(inbox[s])) \subseteq Waiting(s)
      /\ DOMAIN inbox[s] = 1 .. Len(inbox[s]) /\ Len(inbox[s]) \in Nat \ {0}
      /\ DOMAIN Tail(inbox[s]) = 1 .. (Len(inbox[s]) - 1)
      /\ \A i \in 1 .. (Len(inbox[s]) - 1) : Tail(inbox[s])[i] = inbox[s][i + 1]
  BY <1>1, TailSet DEF Waiting
<1>4. h # None => h.id = m.id /\ h.kind = m.kind /\ h.by = s /\ h \in Records
  BY <1>1, <1>3, RecordFacts
<1> HIDE DEF m, h
<1>5. /\ inbox'[s] = Tail(inbox[s]) /\ held'[s] = h
      /\ \A t \in Subscriptions : t # s => inbox'[t] = inbox[t] /\ held'[t] = held[t]
  BY <1>1, <1>2
<1>6. \A t \in Subscriptions : Waiting(t)' \subseteq Waiting(t)
  <2>1. \A t \in Subscriptions : t # s => Waiting(t)' = Waiting(t) BY <1>5 DEF Waiting
  <2>2. Waiting(s)' \subseteq Waiting(s) BY <1>3, <1>5 DEF Waiting
  <2>3. QED BY <2>1, <2>2
<1>7. Stored' = Stored BY <1>2 DEF Stored
<1>8. NumbersInv'
  <2>1. ASSUME NEW x \in Items' PROVE \E y \in Items : x.id = y.id
    <3>1. \/ \E t \in Subscriptions : x \in Waiting(t)'
          \/ \E t \in Subscriptions : held'[t] = x /\ x # None
          \/ x \in Stored'
      BY <2>1 DEF Items
    <3>2. ASSUME NEW t \in Subscriptions, held'[t] = x, x # None
          PROVE  \E y \in Items : x.id = y.id
      <4>1. CASE t = s BY <1>3, <1>4, <1>5, <3>2, <4>1, ItemsOf
      <4>2. CASE t # s BY <1>5, <3>2, <4>2, ItemsOf
      <4>3. QED BY <4>1, <4>2
    <3>3. (\E t \in Subscriptions : x \in Waiting(t)') => x \in Items BY <1>6, ItemsOf
    <3>4. x \in Stored' => x \in Items BY <1>7 DEF Items
    <3>5. QED BY <3>1, <3>2, <3>3, <3>4
  <2>2. QED BY <1>2, <2>1, NumbersKept DEF StoreInv
<1>9. ASSUME NEW t \in Subscriptions PROVE OrderInv(t)'
  <2>1. OrderInv(t) BY DEF StoreInv
  <2>2. CASE t # s BY <1>5, <1>7, <2>1, <2>2, OrderKept
  <2>3. CASE t = s
    <3>1. OrderInv(s) BY <2>1, <2>3
    <3>2. ASSUME NEW i \in DOMAIN inbox'[s], NEW j \in DOMAIN inbox'[s], i < j
          PROVE  inbox'[s][i].id < inbox'[s][j].id
      <4>1. i + 1 \in DOMAIN inbox[s] /\ j + 1 \in DOMAIN inbox[s] /\ i + 1 < j + 1
        BY <1>3, <1>5, <3>2
      <4>2. inbox'[s][i] = inbox[s][i + 1] /\ inbox'[s][j] = inbox[s][j + 1]
        BY <1>3, <1>5, <3>2
      <4>3. inbox[s][i + 1].id < inbox[s][j + 1].id BY <3>1, <4>1 DEF OrderInv
      <4>4. QED BY <4>2, <4>3
    <3>3. ASSUME NEW w \in Waiting(s)' PROVE m.id < w.id
      <4>1. PICK i \in DOMAIN inbox'[s] : w = inbox'[s][i] BY <3>3 DEF Waiting, ToSet
      <4>2. /\ i + 1 \in DOMAIN inbox[s] /\ 1 \in DOMAIN inbox[s] /\ 1 < i + 1
            /\ w = inbox[s][i + 1]
        BY <1>3, <1>5, <4>1
      <4>3. inbox[s][1].id < inbox[s][i + 1].id BY <3>1, <4>2 DEF OrderInv
      <4>4. QED BY <1>3, <4>2, <4>3
    <3>4. \A w \in Waiting(s)' : w.kind \in Selected(s) BY <1>6, <3>1 DEF OrderInv
    <3>5. held'[s] # None => /\ held'[s].by = s /\ held'[s].kind \in Selected(s)
                             /\ \A w \in Waiting(s)' : held'[s].id < w.id
      BY <1>3, <1>4, <1>5, <3>1, <3>3 DEF OrderInv
    <3>6. \A r \in Stored' : r.by = s =>
            /\ r.kind \in Selected(s)
            /\ held'[s] # None => r.id < held'[s].id
            /\ \A w \in Waiting(s)' : r.id < w.id
      BY <1>3, <1>4, <1>5, <1>6, <1>7, <3>1 DEF OrderInv
    <3>7. QED BY <2>3, <3>2, <3>4, <3>5, <3>6 DEF OrderInv
  <2>4. QED BY <2>2, <2>3
<1>10. LinesDistinct' BY <1>2 DEF StoreInv, LinesDistinct
<1>11. QED BY <1>8, <1>9, <1>10 DEF StoreInv

\* No record that a subscription has stored is the one it is about to store.
LEMMA HeldIsNew ==
  ASSUME Types, StoreInv, NEW s \in Subscriptions, held[s] # None, NEW r \in Stored
  PROVE  held[s].by = s /\ (r.by = s => r.id # held[s].id)
<1>1. held[s] \in Items /\ r \in Items BY ItemsOf
<1>2. OrderInv(s) BY DEF StoreInv
<1>3. r.id \in Nat /\ held[s].id \in Nat BY <1>1, ItemTypes
<1>4. r.by = s => r.id < held[s].id BY <1>2 DEF OrderInv
<1>5. held[s].by = s BY <1>2 DEF OrderInv
<1>6. QED BY <1>3, <1>4, <1>5

LEMMA WriteOnce ==
  ASSUME Types, StoreInv, NEW s \in Subscriptions, Write(s)
  PROVE  StoreInv'
<1> DEFINE h == held[s]
           p == PathFor(h)
           lost == torn[p] /\ ~h.long
           new == IF lost THEN {} ELSE {h}
<1>1. /\ h \in Records /\ p \in Paths
      /\ lost => files' = files
      /\ ~lost => files' = [files EXCEPT ![p] = Append(files[p], h)]
      /\ Stored' = Stored \cup new
      /\ held' = [held EXCEPT ![s] = None]
  BY WriteFacts
<1>2. h # None /\ UNCHANGED <<sent, inbox>> BY DEF Write
<1>3. /\ held \in [Subscriptions -> Records \cup {None}]
      /\ files \in [Paths -> Seq(Records)]
  BY DEF Types
<1>4. new \subseteq {h} OBVIOUS
<1>5. \A r \in Stored : r.by = s => r.id # h.id BY <1>2, HeldIsNew
<1>6. h.by = s /\ h.kind \in Selected(s) /\ \A m \in Waiting(s) : h.id < m.id BY <1>2 DEF StoreInv, OrderInv
<1>7. h \in Items BY <1>2, ItemsOf
<1> HIDE DEF h, p, new, lost
<1>8. held'[s] = None /\ \A t \in Subscriptions : t # s => held'[t] = held[t] BY <1>1, <1>3
<1>9. \A t \in Subscriptions : Waiting(t)' = Waiting(t) BY <1>2 DEF Waiting
<1>10. NumbersInv'
  <2>1. ASSUME NEW x \in Items' PROVE x \in Items
    <3>1. \/ \E t \in Subscriptions : x \in Waiting(t)'
          \/ \E t \in Subscriptions : held'[t] = x /\ x # None
          \/ x \in Stored'
      BY <2>1 DEF Items
    <3>2. (\E t \in Subscriptions : held'[t] = x /\ x # None) => x \in Items
      BY <1>8, ItemsOf
    <3>3. (\E t \in Subscriptions : x \in Waiting(t)') => x \in Items BY <1>9, ItemsOf
    <3>4. x \in Stored' => x \in Items BY <1>1, <1>4, <1>7 DEF Items
    <3>5. QED BY <3>1, <3>2, <3>3, <3>4
  <2>2. QED BY <1>2, <2>1, NumbersKept DEF StoreInv
<1>11. ASSUME NEW t \in Subscriptions PROVE OrderInv(t)'
  <2>1. OrderInv(t) BY DEF StoreInv
  <2>2. CASE t # s
    <3>1. \A r \in Stored' : r.by = t => r \in Stored BY <1>1, <1>4, <1>6, <2>2
    <3>2. QED BY <1>2, <1>8, <2>1, <2>2, <3>1, OrderKept
  <2>3. CASE t = s
    <3>1. OrderInv(s) /\ held'[s] = None /\ inbox'[s] = inbox[s] BY <1>2, <1>8, <2>1, <2>3
    <3>2. \A r \in Stored' : r.by = s =>
            r.kind \in Selected(s) /\ \A w \in Waiting(s)' : r.id < w.id
      BY <1>1, <1>4, <1>6, <1>9, <3>1 DEF OrderInv
    <3>3. QED BY <1>9, <2>3, <3>1, <3>2 DEF OrderInv
  <2>4. QED BY <2>2, <2>3
<1>12. LinesDistinct'
  <2>1. LinesDistinct BY DEF StoreInv
  <2>2. CASE lost BY <1>1, <2>1, <2>2 DEF LinesDistinct
  <2>3. CASE ~lost
    <3>1. files[p] \in Seq(Records) BY <1>1, <1>3
    <3> DEFINE l == Len(files[p]) + 1
    <3>2. /\ files'[p] = Append(files[p], h)
          /\ \A q \in Paths : q # p => files'[q] = files[q]
      BY <1>1, <1>3, <2>3
    <3>3. /\ DOMAIN files[p] = 1 .. Len(files[p])
          /\ DOMAIN files'[p] = 1 .. l
          /\ files'[p][l] = h
          /\ \A i \in 1 .. Len(files[p]) : files'[p][i] = files[p][i]
          /\ Len(files[p]) \in Nat
      BY <1>1, <3>1, <3>2, AppendSet
    <3>4. ASSUME NEW q \in Paths, NEW i \in DOMAIN files'[q]
          PROVE  \/ q = p /\ i = l /\ files'[q][i] = h
                 \/ /\ i \in DOMAIN files[q] /\ files'[q][i] = files[q][i]
                    /\ files[q][i].by = h.by => files[q][i].id # h.id
      <4>1. ASSUME i \in DOMAIN files[q]
            PROVE  files[q][i].by = h.by => files[q][i].id # h.id
        <5>1. files[q] \in Seq(Records) BY <1>3
        <5>2. files[q][i] \in ToSet(files[q]) BY <4>1, <5>1, Elements
        <5>3. files[q][i] \in Stored BY <5>2 DEF Stored
        <5>4. QED BY <1>5, <1>6, <5>3
      <4>2. CASE q # p BY <3>2, <3>4, <4>1, <4>2
      <4>3. CASE q = p /\ i = l BY <3>3, <4>3
      <4>4. CASE q = p /\ i # l
        <5>1. i \in 1 .. Len(files[p]) BY <3>3, <3>4, <4>4
        <5>2. QED BY <3>3, <4>1, <4>4, <5>1
      <4>5. QED BY <4>2, <4>3, <4>4
    <3> HIDE DEF l
    <3>5. ASSUME NEW q \in Paths, NEW r \in Paths,
                 NEW i \in DOMAIN files'[q], NEW j \in DOMAIN files'[r],
                 files'[q][i].id = files'[r][j].id, files'[q][i].by = files'[r][j].by
          PROVE  q = r /\ i = j
      BY <2>1, <3>4, <3>5 DEF LinesDistinct
    <3>6. QED BY <3>5 DEF LinesDistinct
  <2>4. QED BY <2>2, <2>3
<1>13. QED BY <1>10, <1>11, <1>12 DEF StoreInv

\* A step that takes messages or records out of the way.
LEMMA FewerOnce ==
  ASSUME Types, StoreInv, UNCHANGED <<sent, files>>,
         \A s \in Subscriptions : /\ inbox'[s] = inbox[s] \/ inbox'[s] = <<>>
                                  /\ held'[s] = held[s] \/ held'[s] = None
  PROVE  StoreInv'
<1>1. Stored' = Stored BY DEF Stored
<1>2. ASSUME NEW s \in Subscriptions PROVE Waiting(s)' \subseteq Waiting(s)
  <2>1. CASE inbox'[s] = inbox[s] BY <2>1 DEF Waiting
  <2>2. CASE inbox'[s] = <<>> BY <2>2 DEF Waiting, ToSet
  <2>3. QED BY <2>1, <2>2
<1>3. NumbersInv'
  <2>1. ASSUME NEW x \in Items' PROVE x \in Items
    <3>1. \/ \E t \in Subscriptions : x \in Waiting(t)'
          \/ \E t \in Subscriptions : held'[t] = x /\ x # None
          \/ x \in Stored'
      BY <2>1 DEF Items
    <3>2. (\E t \in Subscriptions : held'[t] = x /\ x # None) => x \in Items BY ItemsOf
    <3>3. (\E t \in Subscriptions : x \in Waiting(t)') => x \in Items BY <1>2, ItemsOf
    <3>4. x \in Stored' => x \in Items BY <1>1 DEF Items
    <3>5. QED BY <3>1, <3>2, <3>3, <3>4
  <2>2. QED BY <2>1, NumbersKept DEF StoreInv
<1>4. ASSUME NEW s \in Subscriptions PROVE OrderInv(s)'
  <2>1. OrderInv(s) BY DEF StoreInv
  <2>2. CASE inbox'[s] = inbox[s] BY <1>1, <2>1, <2>2, OrderKept
  <2>3. CASE inbox'[s] = <<>>
    <3>1. Waiting(s)' = {} /\ DOMAIN inbox'[s] = {} BY <2>3 DEF Waiting, ToSet
    <3>2. QED BY <1>1, <2>1, <3>1 DEF OrderInv
  <2>4. QED BY <2>2, <2>3
<1>5. LinesDistinct' BY DEF StoreInv, LinesDistinct
<1>6. QED BY <1>3, <1>4, <1>5 DEF StoreInv

LEMMA StoreStep ==
  ASSUME Types, StoreInv, [Next]_vars
  PROVE  StoreInv'
<1>1. held \in [Subscriptions -> Records \cup {None}] BY DEF Types
<1>2. CASE UNCHANGED <<sent, inbox, held, files>> BY <1>2, FewerOnce
<1>3. ASSUME NEW s \in Subscriptions, WriteFails(s) PROVE StoreInv'
  <2>1. UNCHANGED <<sent, inbox, files>> /\ held' = [held EXCEPT ![s] = None]
    BY <1>3 DEF WriteFails
  <2>2. \A t \in Subscriptions : held'[t] = held[t] \/ held'[t] = None BY <1>1, <2>1
  <2>3. QED BY <2>1, <2>2, FewerOnce
<1>4. CASE Restart BY <1>4, FewerOnce DEF Restart
<1>5. \/ UNCHANGED <<sent, inbox, held, files>>
      \/ \E k \in Kinds, n \in Nodes, z \in Zones, f \in Forms : Publish(k, n, z, f)
      \/ \E s \in Subscriptions : Normalize(s) \/ Write(s) \/ WriteFails(s)
      \/ Restart
  BY DEF Next, vars, storeVars, Tick, QueryBegin, QueryRead, QueryReadFails, QueryAnswer,
         QueryReplied
<1>6. QED BY <1>2, <1>3, <1>4, <1>5, PublishOnce, NormalizeOnce, WriteOnce

LEMMA CountWrite ==
  ASSUME Types, StoreInv, CountInv, NEW s \in Subscriptions, Write(s)
  PROVE  CountInv'
<1> DEFINE h == held[s]
           p == PathFor(h)
           lost == torn[p] /\ ~h.long
           new == IF lost THEN {} ELSE {h}
<1>0. /\ written' = written + 1 /\ failures' = failures
      /\ torn' = [torn EXCEPT ![p] = FALSE]
  BY DEF Write
<1>a. torn \in [Paths -> BOOLEAN] /\ written \in Nat BY DEF Types
<1>b. failures \in Nat BY TelemetryAssumption DEF Types
<1>c. p \in Paths /\ Stored' = Stored \cup new BY WriteFacts
<1>1. /\ p \in Paths
      /\ Stored' = Stored \cup new
      /\ torn' = [torn EXCEPT ![p] = FALSE]
      /\ written' = written + 1 /\ failures' = failures
      /\ torn \in [Paths -> BOOLEAN]
      /\ written \in Nat /\ failures \in Nat
  BY <1>0, <1>a, <1>b, <1>c
<1>2. h # None BY DEF Write
<1>3. /\ IsFiniteSet(Stored) /\ IsFiniteSet(Torn)
      /\ Cardinality(Stored) \in Nat /\ Cardinality(Torn) \in Nat
      /\ written + Cardinality(Torn) <= Cardinality(Stored) + failures
  BY FS_CardinalityType DEF CountInv
<1>4. h \notin Stored BY <1>2, HeldIsNew
<1>5. lost => torn[p] OBVIOUS
<1> HIDE DEF h, p, lost
<1>6. CASE torn[p]
  <2>1. p \in Torn /\ Torn' = Torn \ {p} BY <1>1, <1>6 DEF Torn
  <2>2. IsFiniteSet(Torn') /\ Cardinality(Torn') = Cardinality(Torn) - 1
    BY <1>3, <2>1, FS_RemoveElement
  <2>3. Stored' = Stored \/ Stored' = Stored \cup {h} BY <1>1
  <2>4. /\ IsFiniteSet(Stored')
        /\ Cardinality(Stored') \in {Cardinality(Stored), Cardinality(Stored) + 1}
    BY <1>3, <1>4, <2>3, FS_AddElement
  <2>5. written' + Cardinality(Torn') <= Cardinality(Stored') + failures'
    BY <1>0, <1>a, <1>b, <1>3, <2>2, <2>4
  <2>6. QED BY <2>2, <2>4, <2>5 DEF CountInv
<1>7. CASE ~torn[p]
  <2>1. Torn' = Torn
    <3>1. \A q \in Paths : torn'[q] = torn[q] BY <1>1, <1>7
    <3>2. QED BY <3>1 DEF Torn
  <2>2. Stored' = Stored \cup {h} BY <1>1, <1>5, <1>7
  <2>3. IsFiniteSet(Stored') /\ Cardinality(Stored') = Cardinality(Stored) + 1
    BY <1>3, <1>4, <2>2, FS_AddElement
  <2>4. QED BY <1>1, <1>3, <2>1, <2>3 DEF CountInv
<1>8. QED BY <1>6, <1>7

LEMMA CountStep ==
  ASSUME Types, StoreInv, CountInv, [Next]_vars
  PROVE  CountInv'
<1>1. /\ IsFiniteSet(Stored) /\ IsFiniteSet(Torn)
      /\ Cardinality(Stored) \in Nat /\ Cardinality(Torn) \in Nat
      /\ written + Cardinality(Torn) <= Cardinality(Stored) + failures
      /\ written \in Nat /\ failures \in Nat
      /\ torn \in [Paths -> BOOLEAN]
      /\ held \in [Subscriptions -> Records \cup {None}]
  BY FS_CardinalityType, TelemetryAssumption DEF CountInv, Types
<1>2. CASE /\ UNCHANGED <<files, torn, written>>
           /\ failures' = failures \/ failures' = failures + 1
  <2>1. Stored' = Stored /\ Torn' = Torn BY <1>2 DEF Stored, Torn
  <2>2. QED BY <1>1, <1>2, <2>1 DEF CountInv
<1>3. ASSUME NEW s \in Subscriptions, WriteFails(s) PROVE CountInv'
  <2> DEFINE p == PathFor(held[s])
  <2>1. /\ torn' \in {torn, [torn EXCEPT ![p] = TRUE]}
        /\ failures' = failures + 1 /\ written' = written /\ files' = files
    BY <1>3 DEF WriteFails
  <2>2. p \in Paths
    <3>1. held[s] \in Records BY <1>1, <1>3 DEF WriteFails
    <3>2. QED BY <3>1, PathFacts
  <2> HIDE DEF p
  <2>3. Torn' = Torn \/ Torn' = Torn \cup {p}
    <3>1. CASE torn' = torn BY <3>1 DEF Torn
    <3>2. CASE torn' = [torn EXCEPT ![p] = TRUE] BY <1>1, <2>2, <3>2 DEF Torn
    <3>3. QED BY <2>1, <3>1, <3>2
  <2>4. /\ IsFiniteSet(Torn')
        /\ Cardinality(Torn') \in {Cardinality(Torn), Cardinality(Torn) + 1}
    BY <1>1, <2>3, FS_AddElement
  <2>5. Stored' = Stored BY <2>1 DEF Stored
  <2>6. QED BY <1>1, <2>1, <2>4, <2>5 DEF CountInv
<1>4. CASE Restart
  <2>1. written' = 0 /\ failures' = failures + 1 /\ UNCHANGED <<files, torn>>
    BY <1>4 DEF Restart
  <2>2. Stored' = Stored /\ Torn' = Torn BY <2>1 DEF Stored, Torn
  <2>3. QED BY <1>1, <2>1, <2>2 DEF CountInv
<1>5. CASE \/ Tick
           \/ \E k \in Kinds, n \in Nodes, z \in Zones, f \in Forms : Publish(k, n, z, f)
           \/ \E s \in Subscriptions : Normalize(s)
           \/ UNCHANGED vars
  <2>1. UNCHANGED <<files, torn, written, failures>>
    BY <1>5 DEF Tick, Publish, Normalize, vars, storeVars
  <2>2. QED BY <1>2, <2>1
<1>6. CASE QueryRead \/ QueryAnswer \/ QueryReplied
  <2>1. UNCHANGED <<files, torn, written, failures>>
    BY <1>6 DEF QueryRead, QueryAnswer, QueryReplied, storeVars
  <2>2. QED BY <1>2, <2>1
<1>7. CASE QueryReadFails
  <2>1. UNCHANGED <<files, torn, written>> /\ failures' = failures + 1
    BY <1>7 DEF QueryReadFails, storeVars
  <2>2. QED BY <1>2, <2>1
<1>8. ASSUME NEW since \in 0 .. LastTick, NEW until \in 0 .. LastTick,
             NEW l \in 0 .. MaxQueryLimit, NEW k \in {"any", "event"}, QueryBegin(since, until, l, k)
      PROVE  CountInv'
  <2>1. UNCHANGED <<files, torn, written>> BY <1>8 DEF QueryBegin, storeVars
  <2>2. failures' = failures \/ failures' = failures + 1 BY <1>8 DEF QueryBegin
  <2>3. QED BY <1>2, <2>1, <2>2
<1>9. QED BY <1>3, <1>4, <1>5, <1>6, <1>7, <1>8, CountWrite DEF Next

\* Each subscription stores a message at most once, and what counts as written is
\* there.
THEOREM StoresOnce == Spec => []StoredOnce
<1>1. Init => StoreInv
  <2> SUFFICES ASSUME Init PROVE StoreInv OBVIOUS
  <2>1. \A p \in Paths : files[p] = <<>> BY DEF Init
  <2>2. \A s \in Subscriptions : inbox[s] = <<>> /\ held[s] = None BY DEF Init
  <2>3. Stored = {} BY <2>1 DEF Stored, ToSet
  <2>4. \A s \in Subscriptions : Waiting(s) = {} /\ DOMAIN inbox[s] = {}
    BY <2>2 DEF Waiting, ToSet
  <2>5. Items = {} BY <2>2, <2>3, <2>4 DEF Items
  <2>6. \A s \in Subscriptions : OrderInv(s) BY <2>2, <2>3, <2>4 DEF OrderInv
  <2>7. LinesDistinct BY <2>1 DEF LinesDistinct
  <2>8. QED BY <2>5, <2>6, <2>7 DEF StoreInv, NumbersInv
<1>2. Init => CountInv
  <2> SUFFICES ASSUME Init PROVE CountInv OBVIOUS
  <2>1. Stored = {} BY DEF Init, Stored, ToSet
  <2>2. Torn = {} BY DEF Init, Torn
  <2>3. written = 0 /\ failures = 0 BY DEF Init
  <2>4. QED BY <2>1, <2>2, <2>3, FS_EmptySet DEF CountInv
<1>3. Types /\ StoreInv /\ [Next]_vars => StoreInv' BY StoreStep
<1>4. Types /\ StoreInv /\ CountInv /\ [Next]_vars => CountInv' BY CountStep
<1>5. Types /\ StoreInv /\ CountInv => StoredOnce
  <2> SUFFICES ASSUME Types, StoreInv, CountInv PROVE StoredOnce OBVIOUS
  <2>1. /\ Cardinality(Stored) \in Nat /\ Cardinality(Torn) \in Nat
        /\ written + Cardinality(Torn) <= Cardinality(Stored) + failures
        /\ written \in Nat /\ failures \in Nat
    BY FS_CardinalityType, TelemetryAssumption DEF CountInv, Types
  <2>2. written <= Cardinality(Stored) + failures BY <2>1
  <2>3. ASSUME NEW p \in Paths, NEW i \in DOMAIN files[p]
        PROVE  files[p][i] \in Stored /\ files[p][i].by \in Subscriptions
    <3>1. files[p] \in Seq(Records) BY DEF Types
    <3>2. files[p][i] \in Records /\ files[p][i] \in ToSet(files[p]) BY <3>1, Elements
    <3>3. QED BY <3>2 DEF Stored, Records
  <2>4. ASSUME NEW p \in Paths, NEW i \in DOMAIN files[p]
        PROVE  files[p][i].kind \in Selected(files[p][i].by)
    BY <2>3 DEF StoreInv, OrderInv
  <2>5. ASSUME NEW p \in Paths, NEW q \in Paths,
               NEW i \in DOMAIN files[p], NEW j \in DOMAIN files[q],
               files[p][i].id = files[q][j].id, ~(p = q /\ i = j)
        PROVE  LET a == files[p][i].by
                   b == files[q][j].by
               IN a # b /\ (Patterns[a] # Patterns[b] \/ {a, b} \subseteq DOMAIN Configured)
    <3>1. files[p][i].by # files[q][j].by BY <2>5 DEF StoreInv, LinesDistinct
    <3>2. QED BY <2>3, <3>1, PatternFacts
  <2>6. QED BY <2>2, <2>4, <2>5 DEF StoredOnce
<1>6. QED BY <1>1, <1>2, <1>3, <1>4, <1>5, TypesInvariant, PTL DEF Spec
=============================================================================
