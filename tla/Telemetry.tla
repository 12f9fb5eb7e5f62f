------------------------------ MODULE Telemetry ------------------------------
(***************************************************************************)
(* Structured logs and lifecycle events, and the two places that keep      *)
(* them: the log store of the node that runs the logging service           *)
(* (pkg/logstore, wired in startLoggingService of pkg/node/node.go) and    *)
(* the JetStream stream of events (pkg/events).                            *)
(*                                                                         *)
(* A producer publishes a message on a subject under logs or events; NATS  *)
(* delivers it to every subscription of the store whose pattern selects    *)
(* it, once to each, and the callback of each subscription, one message at *)
(* a time, normalises it without the lock and then writes it under the     *)
(* lock to the file of its date and node.  A query runs beside the         *)
(* callbacks and reads the files one by one; it passes over a file or a    *)
(* directory it cannot open, and over what follows a line longer than its  *)
(* buffer, and says so in neither case.                                    *)
(*                                                                         *)
(* The subjects of messages are told apart by their kind only: "event",    *)
(* or one of several kinds of logs.  A pattern stands for itself, a text   *)
(* that the code compares as such, and selects some of the kinds.          *)
(*                                                                         *)
(* Time is counted in ticks of UTC; a tick is the resolution at which      *)
(* timestamps are told apart.  A timestamp is an instant with the offset   *)
(* of its producer's zone, since the date directory and the order of the   *)
(* answer come from what the timestamp reads, not from its instant.        *)
(***************************************************************************)
EXTENDS Integers, Sequences, SequencesExt, FiniteSetsExt

CONSTANTS
  Nodes,           \* nodes whose producers publish
  Zones,           \* offsets of their clocks from UTC, in ticks
  ServerZone,      \* the offset of the log store's own clock
  Day,             \* ticks in a day
  LastTick,        \* bound on the clock
  Kinds,           \* kinds of messages: "event", and kinds of logs
  Selects,         \* the kinds each pattern selects
  Subjects,        \* Config.Subjects: a list of patterns
  CaptureEvents,   \* Config.CaptureEvents
  MaxQueryLimit,   \* Config.MaxQueryLimit
  MaxQueryWindow,  \* Config.MaxQueryWindow in ticks, 0 for none
  StreamCap,       \* PersistConfig.MaxMsgs
  MaxMessages,     \* bound on the messages published
  MaxFailures,     \* bound on the writes and reads that fail and on the restarts
  None             \* no record

ASSUME TelemetryAssumption ==
  /\ Day \in Nat \ {0}
  /\ LastTick \in Nat
  /\ Day <= LastTick
  /\ ServerZone \in -Day .. Day
  /\ Zones \subseteq -Day .. Day
  /\ "event" \in Kinds
  /\ {"logs.>", "events.>"} \subseteq DOMAIN Selects
  /\ \A p \in DOMAIN Selects : Selects[p] \subseteq Kinds
  /\ Subjects \in Seq(DOMAIN Selects)
  /\ CaptureEvents \in BOOLEAN
  /\ MaxQueryLimit \in Nat \ {0}
  /\ MaxQueryWindow \in Nat
  /\ StreamCap \in Nat \ {0}
  /\ MaxMessages \in Nat
  /\ MaxFailures \in Nat

VARIABLES
  now,       \* the clock
  sent,      \* messages published
  inbox,     \* what NATS holds for each subscription
  held,      \* the record its callback has normalised and not yet written
  files,     \* the lines of each file, but for those that do not parse
  torn,      \* files that end in half a line
  written,   \* stats.RecordsWritten of the running store
  failures,  \* writes and reads that failed, and restarts
  phase,     \* of the query: "idle", "reading" or "answered"
  ask,       \* its window, limit and filter
  todo,      \* the paths it has listed and not read
  unopened,  \* the paths it passed over
  before,    \* what the files held when it began
  got,       \* the matching records it has read
  answer,    \* the records it returns
  stream     \* MESH_EVENTS, oldest event first

storeVars == <<files, torn, written>>
queryVars == <<phase, ask, todo, unopened, before, got, answer>>
vars == <<now, sent, inbox, held, storeVars, failures, queryVars, stream>>

Ticks == Day .. LastTick
Forms == {"full", "long", "unstamped", "badts", "nameless"}
Paths == (0 .. (LastTick \div Day + 1)) \X Nodes
NoAsk == [start |-> 0, end |-> 0, limit |-> 0, kind |-> "any"]

\* withDefaults: no subjects stand for all the logs.
Configured == IF Subjects = <<>> THEN <<"logs.>">> ELSE Subjects

\* Faulty variant: events.> is added whether or not it is configured.
PatternsTwice == IF CaptureEvents THEN Append(Configured, "events.>") ELSE Configured

\* events.> is added when events are captured and the very text is not among
\* the subjects.
Patterns ==
  IF CaptureEvents /\ "events.>" \notin ToSet(Configured)
    THEN Append(Configured, "events.>") ELSE Configured

\* Subscribe: one subscription for each pattern, whatever the patterns share.
Subscriptions == DOMAIN Patterns

Selected(s) == Selects[Patterns[s]]

Init ==
  /\ now = Day
  /\ sent = 0
  /\ inbox = [s \in Subscriptions |-> <<>>]
  /\ held = [s \in Subscriptions |-> None]
  /\ files = [p \in Paths |-> <<>>]
  /\ torn = [p \in Paths |-> FALSE]
  /\ written = 0
  /\ failures = 0
  /\ phase = "idle"
  /\ ask = NoAsk
  /\ todo = {}
  /\ unopened = {}
  /\ before = {}
  /\ got = {}
  /\ answer = {}
  /\ stream = <<>>

-----------------------------------------------------------------------------
(* Producers.                                                              *)

Tick ==
  /\ now < LastTick
  /\ now' = now + 1
  /\ UNCHANGED <<sent, inbox, held, storeVars, failures, queryVars, stream>>

\* The stream keeps the last StreamCap events.
Capture(id) ==
  stream' = LET s == Append(stream, id)
            IN IF Len(s) > StreamCap THEN Tail(s) ELSE s

\* Producer.Publish or Bus.Emit.  A message may carry no timestamp, one that
\* does not parse, or no node.
Publish(kind, n, z, form) ==
  LET m == [id |-> sent + 1, kind |-> kind, node |-> n, at |-> now, zone |-> z, form |-> form]
  IN /\ sent < MaxMessages
     /\ sent' = sent + 1
     /\ inbox' = [s \in Subscriptions |->
          IF kind \in Selected(s) THEN Append(inbox[s], m) ELSE inbox[s]]
     /\ IF kind = "event" THEN Capture(m.id) ELSE UNCHANGED stream
     /\ UNCHANGED <<now, held, storeVars, failures, queryVars>>

-----------------------------------------------------------------------------
(* The callback of a subscription: Append.                                 *)

\* Normalize: a log record must carry a timestamp that parses, if any, and
\* takes its node from the subject when it names none; an event must name
\* its node, and a timestamp that does not parse is replaced.
Accepted(m) == m.form # (IF m.kind = "event" THEN "nameless" ELSE "badts")

Stamped(m) == m.form \in {"full", "long", "nameless"}

\* Faulty variant: a timestamp that does not parse becomes the zero time.
RecordOfZero(m, s) ==
  [id |-> m.id, kind |-> m.kind, node |-> m.node, by |-> s, long |-> m.form = "long",
   at |-> IF Stamped(m) THEN m.at ELSE 0,
   zone |-> IF Stamped(m) THEN m.zone ELSE ServerZone]

\* What subscription s makes of message m.  A line over RecordMaxBytes loses
\* its message and its data, but not the other fields a producer fills in,
\* and may stay longer than the buffer of a query.
RecordOf(m, s) ==
  [id |-> m.id, kind |-> m.kind, node |-> m.node, by |-> s, long |-> m.form = "long",
   at |-> IF Stamped(m) THEN m.at ELSE now,
   zone |-> IF Stamped(m) THEN m.zone ELSE ServerZone]

\* pathFor: the date the timestamp reads, in its own zone.
PathFor(r) == <<(r.at + r.zone) \div Day, r.node>>

Normalize(s) ==
  /\ held[s] = None
  /\ inbox[s] # <<>>
  /\ inbox' = [inbox EXCEPT ![s] = Tail(@)]
  /\ held' = [held EXCEPT ![s] = IF Accepted(Head(inbox[s]))
                                   THEN RecordOf(Head(inbox[s]), s) ELSE None]
  /\ UNCHANGED <<now, sent, storeVars, failures, queryVars, stream>>

\* Under s.mu.  A line that follows half a line is read together with it, and
\* does not parse; a long one stays long.
Write(s) ==
  LET p == PathFor(held[s])
  IN /\ held[s] # None
     /\ files' = IF torn[p] /\ ~held[s].long THEN files ELSE [files EXCEPT ![p] = Append(@, held[s])]
     /\ torn' = [torn EXCEPT ![p] = FALSE]
     /\ written' = written + 1
     /\ held' = [held EXCEPT ![s] = None]
     /\ UNCHANGED <<now, sent, inbox, failures, queryVars, stream>>

\* The file does not open, or takes nothing or half of the line.
WriteFails(s) ==
  /\ held[s] # None
  /\ failures < MaxFailures
  /\ failures' = failures + 1
  /\ torn' \in {torn, [torn EXCEPT ![PathFor(held[s])] = TRUE]}
  /\ held' = [held EXCEPT ![s] = None]
  /\ UNCHANGED <<now, sent, inbox, files, written, queryVars, stream>>

\* The node stops, in whatever order, and comes back: the files are kept,
\* what was not written and the counters are not.
Restart ==
  /\ failures < MaxFailures
  /\ failures' = failures + 1
  /\ inbox' = [s \in Subscriptions |-> <<>>]
  /\ held' = [s \in Subscriptions |-> None]
  /\ written' = 0
  /\ phase' = "idle"
  /\ ask' = NoAsk
  /\ todo' = {}
  /\ unopened' = {}
  /\ before' = {}
  /\ got' = {}
  /\ answer' = {}
  /\ UNCHANGED <<now, sent, files, torn, stream>>

-----------------------------------------------------------------------------
(* Query, Tail and Stats.                                                  *)

Stored == UNION {ToSet(files[p]) : p \in Paths}

\* The lines a query finds in a file: the scanner stops at a long one.
Scanned(p) ==
  {files[p][i] : i \in {k \in DOMAIN files[p] : \A j \in 1 .. k : ~files[p][j].long}}

\* recordMatches
Matches(r) ==
  /\ ask.start <= r.at
  /\ r.at <= ask.end
  /\ ask.kind \in {"any", r.kind}

EffectiveLimit(n) == IF n = 0 \/ n > MaxQueryLimit THEN MaxQueryLimit ELSE n

\* resolveTimeRange: the window is cut at its older end.
ResolveStart(since, until) ==
  IF MaxQueryWindow > 0 /\ until - since > MaxQueryWindow
    THEN until - MaxQueryWindow ELSE since

\* Faulty variant: date directories are taken for days of UTC.
PathsForRangeUTC(start, end) ==
  {p \in Paths : /\ files[p] # <<>>
                 /\ (p[1] + 1) * Day >= start
                 /\ p[1] * Day <= end}

\* pathsForRange: the directories a day around the window.
PathsForRange(start, end) ==
  {p \in Paths : /\ files[p] # <<>>
                 /\ (p[1] + 1) * Day >= start - Day
                 /\ p[1] * Day <= end + Day}

\* Stats asks with limit 0; no window is empty.  A date directory that cannot
\* be listed is passed over.
QueryBegin(since, until, limit, kind) ==
  LET start == ResolveStart(since, until)
      listed == PathsForRange(start, until)
  IN /\ phase = "idle"
     /\ since < until
     /\ phase' = "reading"
     /\ ask' = [start |-> start, end |-> until, limit |-> EffectiveLimit(limit), kind |-> kind]
     /\ before' = Stored
     /\ \/ /\ todo' = listed
           /\ UNCHANGED <<unopened, failures>>
        \/ /\ failures < MaxFailures
           /\ failures' = failures + 1
           /\ \E d \in {p[1] : p \in listed} :
                /\ unopened' = {p \in listed : p[1] = d}
                /\ todo' = listed \ unopened'
     /\ UNCHANGED <<now, sent, inbox, held, storeVars, got, answer, stream>>

QueryRead ==
  /\ phase = "reading"
  /\ \E p \in todo :
       /\ todo' = todo \ {p}
       /\ got' = got \cup {r \in Scanned(p) : Matches(r)}
  /\ UNCHANGED <<now, sent, inbox, held, storeVars, failures, phase, ask, unopened, before,
                 answer, stream>>

\* A file that does not open is passed over.
QueryReadFails ==
  /\ phase = "reading"
  /\ failures < MaxFailures
  /\ failures' = failures + 1
  /\ \E p \in todo :
       /\ todo' = todo \ {p}
       /\ unopened' = unopened \cup {p}
  /\ UNCHANGED <<now, sent, inbox, held, storeVars, phase, ask, before, got, answer, stream>>

\* What the timestamp reads, up to the order within a tick.
Clock(r) == r.at + r.zone

\* Sorted by timestamp, as text, and cut at the limit.
QueryAnswer ==
  /\ phase = "reading"
  /\ todo = {}
  /\ phase' = "answered"
  /\ \E kept \in kSubset(Min({ask.limit, Cardinality(got)}), got) :
       /\ \A k \in kept : \A d \in got \ kept : Clock(d) <= Clock(k)
       /\ answer' = kept
  /\ UNCHANGED <<now, sent, inbox, held, storeVars, failures, ask, todo, unopened, before, got,
                 stream>>

QueryReplied ==
  /\ phase = "answered"
  /\ phase' = "idle"
  /\ ask' = NoAsk
  /\ unopened' = {}
  /\ before' = {}
  /\ got' = {}
  /\ answer' = {}
  /\ UNCHANGED <<now, sent, inbox, held, storeVars, failures, todo, stream>>

\* History: the first events the stream holds, up to the limit.
History(limit) == SubSeq(stream, 1, Min({limit, Len(stream)}))

Next ==
  \/ Tick
  \/ \E k \in Kinds, n \in Nodes, z \in Zones, f \in Forms : Publish(k, n, z, f)
  \/ \E s \in Subscriptions : Normalize(s) \/ Write(s) \/ WriteFails(s)
  \/ Restart
  \/ \E since, until \in 0 .. LastTick, l \in 0 .. MaxQueryLimit, k \in {"any", "event"} :
       QueryBegin(since, until, l, k)
  \/ QueryRead
  \/ QueryReadFails
  \/ QueryAnswer
  \/ QueryReplied

Spec == Init /\ [][Next]_vars

-----------------------------------------------------------------------------
(* Properties.                                                             *)

Messages == [id : 1 .. MaxMessages, kind : Kinds, node : Nodes,
             at : Ticks, zone : Zones, form : Forms]
Records == [id : 1 .. MaxMessages, kind : Kinds, node : Nodes, by : Subscriptions,
            long : BOOLEAN, at : Ticks, zone : Zones \cup {ServerZone}]

\* Every variable of the log store and of the event stream has its type.
TypeOK ==
  /\ now \in Ticks
  /\ sent \in 0 .. MaxMessages
  /\ \A s \in Subscriptions : inbox[s] \in Seq(Messages)
  /\ \A s \in Subscriptions : held[s] \in Records \cup {None}
  /\ \A p \in Paths : files[p] \in Seq(Records)
  /\ torn \in [Paths -> BOOLEAN]
  /\ written \in Nat
  /\ failures \in 0 .. MaxFailures
  /\ phase \in {"idle", "reading", "answered"}
  /\ todo \subseteq Paths
  /\ unopened \subseteq Paths
  /\ before \subseteq Records
  /\ got \subseteq Records
  /\ answer \subseteq got
  /\ stream \in Seq(1 .. MaxMessages)

\* The record is in a file the query could not open, or at or behind a long
\* line of its file.
PassedOver(r) ==
  \E p \in Paths : \E i \in DOMAIN files[p] :
    /\ files[p][i] = r
    /\ p \in unopened \/ \E j \in 1 .. i : files[p][j].long

\* A query returns every record of its window that was stored when it began,
\* whatever zone the record was stamped in and whatever is appended meanwhile,
\* unless it says that it was cut, or else, which it does not say, could not
\* open the file or the directory of the record or met a line longer than its
\* buffer before it; and it returns no other record (pathsForRange skips date
\* directories by a rule that must never lose one; queryRecords passes over
\* files and lines in silence).
QueryExact ==
  phase = "answered" =>
    /\ \A r \in answer : Matches(r) /\ r \in Stored
    /\ IF Cardinality(got) > ask.limit
         THEN Cardinality(answer) = ask.limit
         ELSE \A r \in before : Matches(r) => r \in answer \/ PassedOver(r)

\* What one would have of a query: an answer that does not say it was cut is
\* complete.
QueryComplete ==
  phase = "answered" /\ Cardinality(got) <= ask.limit =>
    \A r \in before : Matches(r) => r \in answer

\* Two stored copies of a message come from two subscriptions whose patterns
\* both select it, and from two patterns, unless the configuration lists one
\* twice: no restart stores a message again, and to configure events and to
\* capture them does not (withDefaults, Subscribe).  And what the statistics
\* count as written is in the files, but for one record, the next of the same
\* file, after a write that failed half way (Append).
StoredOnce ==
  /\ \A p \in Paths : \A i \in DOMAIN files[p] :
       files[p][i].kind \in Selected(files[p][i].by)
  /\ \A p, q \in Paths : \A i \in DOMAIN files[p], j \in DOMAIN files[q] :
       LET a == files[p][i].by
           b == files[q][j].by
       IN files[p][i].id = files[q][j].id =>
            \/ p = q /\ i = j
            \/ a # b /\ (Patterns[a] # Patterns[b] \/ {a, b} \subseteq DOMAIN Configured)
  /\ written <= Cardinality(Stored) + failures

\* History "returns recent events" (pkg/events/events.go:299): the latest one
\* is among them.
RecentListed ==
  \A limit \in 1 .. StreamCap :
    stream # <<>> => Last(stream) \in ToSet(History(limit))
=============================================================================
