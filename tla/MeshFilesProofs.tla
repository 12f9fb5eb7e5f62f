--------------------------- MODULE MeshFilesProofs ---------------------------
(***************************************************************************)
(* Proofs about MeshFiles, for any nodes, buckets, clients and keys, and   *)
(* any bounds on requests, calls and failures.                             *)
(***************************************************************************)
EXTENDS MeshFiles, FiniteSetTheorems, SequenceTheorems, TLAPS

-----------------------------------------------------------------------------
(* The inductive invariant.                                                *)

Queues == Serving \X Vias \X Ops
Messages == [id : Ids, from : Askers, key : Keys]
Objects == Ids \cup {None}
Replies == [kind : {"none", "ack", "error"}]
             \cup [kind : {"file"}, key : Keys, data : Ids]
             \cup [kind : {"keys"}, keys : SUBSET Keys]
Phases == {"idle", "resolving", "running"}
CallRecords == [number : Nat, phase : Phases,
                args : [Params -> Keys \cup {Plain} \cup Objects],
                pending : SUBSET Params, asked : Params \cup {None}]

Types ==
  /\ home \in Homes
  /\ bucket \in [Buckets -> [Keys -> Objects]]
  /\ inbox \in [Queues -> Seq(Messages)]
  /\ sent \in [Askers -> Nat]
  /\ waiting \in [Askers -> Objects]
  /\ reply \in [Askers -> Replies]
  /\ call \in [Nodes -> CallRecords]
  /\ calls \in 0 .. MaxCalls
  /\ disk \subseteq [call : 1 .. calls, param : Params, key : Keys, data : Ids]
  /\ failures \in 0 .. MaxFailures
  /\ possible \in [Askers -> [Keys -> SUBSET Objects]]
  /\ last \in [Keys -> Writers]
  /\ broken \subseteq 1 .. calls

\* The messages that wait at a subscription.
Waiting(q) == ToSet(inbox[q])

\* A call has a number while it is under way and parameters to resolve before
\* its handler runs; it waits for a file when it has asked for one, and asks
\* once for each parameter at most.
NodeInv(n) ==
  /\ call[n].phase = "idle" => call[n].number = 0
  /\ call[n].phase # "idle" => call[n].number \in 1 .. calls
  /\ call[n].phase # "resolving" => call[n].pending = {}
  /\ call[n].asked \in call[n].pending \cup {None}
  /\ call[n].asked # None <=> waiting[n] # None
  /\ \A p \in call[n].pending : call[n].args[p] \in Keys
  /\ sent[n] + Cardinality(call[n].pending \ {call[n].asked})
       <= calls * Cardinality(Params)

NumbersDistinct ==
  \A m, n \in Nodes : call[m].number = call[n].number /\ call[m].number # 0 => m = n

\* What an asker waits for is its last request, and an answer is read by who
\* waits for it.
AskInv(a) ==
  /\ waiting[a] # None => waiting[a] = <<a, sent[a]>>
  /\ reply[a].kind # "none" => waiting[a] # None

\* No message is newer than its sender's last request.
MessageInv ==
  \A q \in Queues : \A m \in Waiting(q) : m.id[1] = m.from /\ m.id[2] <= sent[m.from]

Control ==
  /\ \A n \in Nodes : NodeInv(n)
  /\ \A c \in Clients : sent[c] <= MaxRequests
  /\ NumbersDistinct
  /\ \A a \in Askers : AskInv(a)
  /\ MessageInv

-----------------------------------------------------------------------------
(* Sequences, identities and records.                                      *)

LEMMA AppendSet ==
  ASSUME NEW S, NEW s \in Seq(S), NEW e \in S
  PROVE  Append(s, e) \in Seq(S) /\ ToSet(Append(s, e)) = ToSet(s) \cup {e}
<1> DEFINE a == Append(s, e)
<1>1. /\ a \in Seq(S)
      /\ Len(s) \in Nat
      /\ DOMAIN s = 1 .. Len(s)
      /\ DOMAIN a = 1 .. (Len(s) + 1)
      /\ a[Len(s) + 1] = e
      /\ \A i \in 1 .. Len(s) : a[i] = s[i]
  OBVIOUS
<1> HIDE DEF a
<1>2. ToSet(s) \cup {e} \subseteq ToSet(a) BY <1>1 DEF ToSet
<1>3. ASSUME NEW i \in DOMAIN a PROVE a[i] \in ToSet(s) \cup {e}
  BY <1>1, <1>3 DEF ToSet
<1>4. ToSet(a) \subseteq ToSet(s) \cup {e} BY <1>3 DEF ToSet
<1>5. QED BY <1>1, <1>2, <1>4 DEF a

LEMMA TailSet ==
  ASSUME NEW S, NEW s \in Seq(S), s # <<>>
  PROVE  /\ Head(s) \in S /\ Head(s) \in ToSet(s)
         /\ Tail(s) \in Seq(S) /\ ToSet(Tail(s)) \subseteq ToSet(s)
<1> DEFINE t == Tail(s)
<1>1. /\ t \in Seq(S)
      /\ Len(s) \in Nat \ {0}
      /\ DOMAIN s = 1 .. Len(s)
      /\ DOMAIN t = 1 .. (Len(s) - 1)
      /\ \A i \in 1 .. (Len(s) - 1) : t[i] = s[i + 1]
      /\ Head(s) = s[1] /\ Head(s) \in S
  OBVIOUS
<1> HIDE DEF t
<1>2. Head(s) \in ToSet(s) BY <1>1 DEF ToSet
<1>3. ASSUME NEW i \in DOMAIN t PROVE t[i] \in ToSet(s)
  <2>1. i + 1 \in DOMAIN s /\ t[i] = s[i + 1] BY <1>1
  <2>2. QED BY <2>1 DEF ToSet
<1>4. ToSet(t) \subseteq ToSet(s) BY <1>3 DEF ToSet
<1>5. QED BY <1>1, <1>2, <1>4 DEF t

\* Identities are pairs, and None is not one of them.
LEMMA IdFacts ==
  /\ None \notin Ids
  /\ \A i \in Ids : i = <<i[1], i[2]>> /\ i[1] \in Askers /\ i[2] \in Numbers
  /\ \A a \in Askers, k \in Numbers : <<a, k>> \in Ids
  /\ Numbers \subseteq Nat \ {0}
<1>1. Cardinality(Params) \in Nat BY FilesAssumption, FS_CardinalityType
<1>2. MaxCalls * Cardinality(Params) \in Nat
  <2>1. MaxCalls \in Nat BY FilesAssumption
  <2>2. QED BY <1>1, <2>1
<1>3. Numbers \subseteq Nat \ {0} BY <1>2, FilesAssumption DEF Numbers
<1>4. None \notin Askers \X Nat BY FilesAssumption DEF Askers
<1>5. None \notin Ids BY <1>3, <1>4 DEF Ids
<1>6. QED BY <1>3, <1>5 DEF Ids

LEMMA ReplyTypes ==
  /\ NoReply \in Replies /\ NoReply.kind = "none"
  /\ Ack \in Replies /\ Ack.kind = "ack"
  /\ Failure \in Replies /\ Failure.kind = "error"
  /\ \A k \in Keys, o \in Ids : [kind |-> "file", key |-> k, data |-> o] \in Replies
  /\ \A s \in SUBSET Keys : [kind |-> "keys", keys |-> s] \in Replies
  /\ \A r \in Replies : r.kind = "file" => r.key \in Keys /\ r.data \in Ids
  /\ \A r \in Replies : r.kind = "none" => r = NoReply
<1>1. \A k \in Keys, o \in Ids :
        [kind |-> "file", key |-> k, data |-> o]
          \in [kind : {"file"}, key : Keys, data : Ids]
  OBVIOUS
<1>2. \A r \in Replies : r.kind = "file" => r \in [kind : {"file"}, key : Keys, data : Ids]
  BY DEF Replies
<1>3. \A r \in [kind : {"file"}, key : Keys, data : Ids] : r.key \in Keys /\ r.data \in Ids
  OBVIOUS
<1>4. NoReply \in Replies /\ Ack \in Replies /\ Failure \in Replies
  BY DEF Replies, NoReply, Ack, Failure
<1>5. \A s \in SUBSET Keys : [kind |-> "keys", keys |-> s] \in Replies BY DEF Replies
<1>6. NoReply.kind = "none" /\ Ack.kind = "ack" /\ Failure.kind = "error"
  BY DEF NoReply, Ack, Failure
<1>7. ASSUME NEW r \in Replies, r.kind = "none" PROVE r = NoReply
  <2>1. r \in [kind : {"none", "ack", "error"}] BY <1>7 DEF Replies
  <2>2. r = [kind |-> "none"] BY <1>7, <2>1
  <2>3. QED BY <2>2 DEF NoReply
<1>8. QED BY <1>1, <1>2, <1>3, <1>4, <1>5, <1>6, <1>7 DEF Replies

-----------------------------------------------------------------------------
(* The operations of the store and of the subscriptions.                   *)

\* An asker that may be told anything the buckets hold for a key still may
\* after an object is stored.
LEMMA StoreFacts ==
  ASSUME Types, NEW b \in Buckets, NEW k \in Keys, NEW o \in Objects, Store(b, k, o)
  PROVE  /\ bucket' \in [Buckets -> [Keys -> Objects]]
         /\ bucket'[b][k] = o
         /\ \A c \in Buckets, j \in Keys : c # b \/ j # k => bucket'[c][j] = bucket[c][j]
         /\ possible' \in [Askers -> [Keys -> SUBSET Objects]]
         /\ \A a \in Askers, j \in Keys : possible[a][j] \subseteq possible'[a][j]
         /\ \A a \in Askers, j \in Keys :
              (a \in Nodes => call[a].phase = "resolving")
              /\ (\A c \in Buckets : bucket[c][j] \in possible[a][j])
              => \A c \in Buckets : bucket'[c][j] \in possible'[a][j]
<1>1. /\ bucket \in [Buckets -> [Keys -> Objects]]
      /\ possible \in [Askers -> [Keys -> SUBSET Objects]]
  BY DEF Types
<1>2. bucket' = [bucket EXCEPT ![b] = [bucket[b] EXCEPT ![k] = o]] BY DEF Store
<1>3. /\ bucket' \in [Buckets -> [Keys -> Objects]]
      /\ bucket'[b][k] = o
      /\ \A c \in Buckets, j \in Keys : c # b \/ j # k => bucket'[c][j] = bucket[c][j]
  BY <1>1, <1>2
<1> DEFINE sees(a) == a \in Nodes => call[a].phase = "resolving"
           grown(a) == [possible[a] EXCEPT ![k] = IF @ = {} THEN {} ELSE @ \cup {o}]
<1>4. possible' = [a \in Askers |-> IF sees(a) THEN grown(a) ELSE possible[a]]
  BY DEF Store
<1> HIDE DEF sees
<1>5. ASSUME NEW a \in Askers
      PROVE  /\ grown(a) \in [Keys -> SUBSET Objects]
             /\ \A j \in Keys : possible[a][j] \subseteq grown(a)[j]
             /\ possible[a][k] # {} => o \in grown(a)[k]
  BY <1>1
<1> HIDE DEF grown
<1>6. possible' \in [Askers -> [Keys -> SUBSET Objects]] BY <1>1, <1>4, <1>5
<1>7. \A a \in Askers, j \in Keys : possible[a][j] \subseteq possible'[a][j]
  BY <1>1, <1>4, <1>5
<1>8. ASSUME NEW a \in Askers, NEW j \in Keys, sees(a),
             \A c \in Buckets : bucket[c][j] \in possible[a][j],
             NEW c \in Buckets
      PROVE  bucket'[c][j] \in possible'[a][j]
  <2>1. CASE c # b \/ j # k
    <3>1. bucket'[c][j] = bucket[c][j] BY <1>3, <2>1
    <3>2. QED BY <1>7, <1>8, <3>1
  <2>2. CASE c = b /\ j = k
    <3>1. possible[a][k] # {} BY <1>8, <2>2
    <3>2. o \in possible'[a][k] BY <1>4, <1>5, <1>8, <3>1
    <3>3. QED BY <1>3, <2>2, <3>2
  <2>3. QED BY <2>1, <2>2
<1>9. QED BY <1>3, <1>6, <1>7, <1>8 DEF sees

\* What a request adds to the subscriptions.
LEMMA SendFacts ==
  ASSUME Types, NEW a \in Askers, NEW via, NEW op, NEW k \in Keys, NEW to,
         sent[a] + 1 \in Numbers, Send(a, via, op, k, to)
  PROVE  /\ inbox' \in [Queues -> Seq(Messages)]
         /\ \A q \in Queues : \A m \in Waiting(q)' :
              \/ m \in Waiting(q)
              \/ /\ m = [id |-> NextId(a), from |-> a, key |-> k]
                 /\ q[2] = via /\ q[3] = op
         /\ sent' = [sent EXCEPT ![a] = sent[a] + 1]
         /\ sent' \in [Askers -> Nat]
         /\ NextId(a) \in Ids
         /\ waiting' = [waiting EXCEPT ![a] = NextId(a)]
         /\ waiting' \in [Askers -> Objects]
         /\ reply' = [reply EXCEPT ![a] = NoReply]
         /\ reply' \in [Askers -> Replies]
<1>1. /\ inbox \in [Queues -> Seq(Messages)]
      /\ sent \in [Askers -> Nat]
      /\ waiting \in [Askers -> Objects]
      /\ reply \in [Askers -> Replies]
  BY DEF Types
<1> DEFINE m0 == [id |-> NextId(a), from |-> a, key |-> k]
<1>2. NextId(a) \in Ids BY IdFacts DEF NextId
<1>3. m0 \in Messages BY <1>2 DEF Messages
<1> HIDE DEF m0
<1>4. inbox' = [q \in Queues |-> IF q[1] \in to /\ q[2] = via /\ q[3] = op
                                   THEN Append(inbox[q], m0) ELSE inbox[q]]
  BY <1>1 DEF Send, m0
<1>5. ASSUME NEW q \in Queues
      PROVE  /\ inbox'[q] \in Seq(Messages)
             /\ \A m \in ToSet(inbox'[q]) :
                  m \in ToSet(inbox[q]) \/ (m = m0 /\ q[2] = via /\ q[3] = op)
  <2>1. inbox[q] \in Seq(Messages) BY <1>1
  <2>2. CASE q[1] \in to /\ q[2] = via /\ q[3] = op
    <3>1. inbox'[q] = Append(inbox[q], m0) BY <1>4, <2>2
    <3>2. /\ inbox'[q] \in Seq(Messages)
          /\ ToSet(inbox'[q]) = ToSet(inbox[q]) \cup {m0}
      BY <1>3, <2>1, <3>1, AppendSet
    <3>3. QED BY <2>2, <3>2
  <2>3. CASE ~(q[1] \in to /\ q[2] = via /\ q[3] = op)
    <3>1. inbox'[q] = inbox[q] BY <1>4, <2>3
    <3>2. QED BY <2>1, <3>1
  <2>4. QED BY <2>2, <2>3
<1>6. inbox' \in [Queues -> Seq(Messages)] BY <1>4, <1>5
<1>7. /\ sent' = [sent EXCEPT ![a] = sent[a] + 1]
      /\ waiting' = [waiting EXCEPT ![a] = NextId(a)]
      /\ reply' = [reply EXCEPT ![a] = NoReply]
  BY DEF Send
<1>8. sent' \in [Askers -> Nat]
  <2>1. sent[a] + 1 \in Nat BY <1>1
  <2>2. QED BY <1>1, <1>7, <2>1
<1>9. waiting' \in [Askers -> Objects] /\ reply' \in [Askers -> Replies]
  BY <1>1, <1>2, <1>7, ReplyTypes DEF Objects
<1>10. QED BY <1>2, <1>5, <1>6, <1>7, <1>8, <1>9 DEF Waiting, m0

LEMMA PopFacts ==
  ASSUME Types, NEW q \in Queues, Next1(q), Pop(q)
  PROVE  /\ Message(q) \in Messages /\ Message(q) \in Waiting(q)
         /\ inbox' \in [Queues -> Seq(Messages)]
         /\ \A r \in Queues : Waiting(r)' \subseteq Waiting(r)
<1>1. inbox \in [Queues -> Seq(Messages)] BY DEF Types
<1>2. inbox[q] \in Seq(Messages) /\ inbox[q] # <<>> BY <1>1 DEF Next1
<1>3. inbox' = [inbox EXCEPT ![q] = Tail(inbox[q])] BY DEF Pop
<1>4. /\ Head(inbox[q]) \in Messages /\ Head(inbox[q]) \in ToSet(inbox[q])
      /\ Tail(inbox[q]) \in Seq(Messages)
      /\ ToSet(Tail(inbox[q])) \subseteq ToSet(inbox[q])
  BY <1>2, TailSet
<1>5. inbox' \in [Queues -> Seq(Messages)] BY <1>1, <1>3, <1>4
<1>6. ASSUME NEW r \in Queues PROVE ToSet(inbox'[r]) \subseteq ToSet(inbox[r])
  <2>1. CASE r = q BY <1>1, <1>3, <1>4, <2>1
  <2>2. CASE r # q
    <3>1. inbox'[r] = inbox[r] BY <1>1, <1>3, <2>2
    <3>2. QED BY <3>1
  <2>3. QED BY <2>1, <2>2
<1>7. QED BY <1>4, <1>5, <1>6 DEF Message, Waiting

\* What the handlers of the subscriptions have in common: a message is taken,
\* its sender may get the answer, and a put or a delete may store something.
Served(q, result) ==
  /\ Next1(q)
  /\ Pop(q)
  /\ Respond(Message(q), result)
  /\ result.kind # "none"
  /\ result.kind = "file" => /\ q[3] = "get"
                             /\ result.key = Message(q).key
                             /\ result.data = bucket[home[q[1]]][Message(q).key]
                             /\ result.data # None
  /\ UNCHANGED <<home, sent, waiting, callVars>>
  /\ failures' \in 0 .. MaxFailures
  /\ \/ UNCHANGED <<bucket, possible, last>>
     \/ /\ q[3] = "put"
        /\ Store(home[q[1]], Message(q).key, Message(q).id)
        /\ Acknowledged(Message(q))
     \/ /\ q[3] = "delete"
        /\ Store(home[q[1]], Message(q).key, None)
        /\ Acknowledged(Message(q))

ServeStep ==
  \/ \E n \in Serving, v \in Vias :
       ServePut(n, v) \/ ServeGet(n, v) \/ ServeDelete(n, v) \/ ServeList(n, v)
  \/ \E q \in DOMAIN inbox : ServeFails(q)

LEMMA ServeIsServed ==
  ASSUME Types, ServeStep
  PROVE  \E q \in Queues, result \in Replies : Served(q, result)
<1>1. /\ failures \in 0 .. MaxFailures
      /\ MaxFailures \in Nat
      /\ DOMAIN inbox = Queues
      /\ bucket \in [Buckets -> [Keys -> Objects]]
      /\ home \in [Nodes -> Buckets]
  BY FilesAssumption DEF Types
<1>2. ASSUME NEW n \in Serving, NEW v \in Vias, NEW op \in Ops
      PROVE  LET q == <<n, v, op>>
             IN q \in Queues /\ q[1] = n /\ q[3] = op /\ home[n] \in Buckets
  BY <1>1, FilesAssumption DEF Queues
<1>3. ASSUME NEW n \in Serving, NEW v \in Vias, ServePut(n, v)
      PROVE  \E q \in Queues, result \in Replies : Served(q, result)
  <2> DEFINE q == <<n, v, "put">>
  <2>1. q \in Queues /\ q[1] = n /\ q[3] = "put" BY <1>2 DEF Ops
  <2>2. /\ Next1(q) /\ Pop(q) /\ Respond(Message(q), Ack)
        /\ Store(home[n], Message(q).key, Message(q).id)
        /\ Acknowledged(Message(q))
        /\ UNCHANGED <<home, sent, waiting, callVars, failures>>
    BY <1>3 DEF ServePut
  <2> HIDE DEF q
  <2>3. Served(q, Ack) BY <1>1, <2>1, <2>2, ReplyTypes DEF Served
  <2>4. QED BY <2>1, <2>3, ReplyTypes
<1>4. ASSUME NEW n \in Serving, NEW v \in Vias, ServeGet(n, v)
      PROVE  \E q \in Queues, result \in Replies : Served(q, result)
  <2> DEFINE q == <<n, v, "get">>
             o == bucket[home[n]][Message(q).key]
             file == [kind |-> "file", key |-> Message(q).key, data |-> o]
             result == IF o = None THEN Failure ELSE file
  <2>1. q \in Queues /\ q[1] = n /\ q[3] = "get" /\ home[n] \in Buckets BY <1>2 DEF Ops
  <2>2. /\ Next1(q) /\ Pop(q) /\ Respond(Message(q), result)
        /\ UNCHANGED <<home, bucket, sent, waiting, callVars, failures, possible, last>>
    BY <1>4 DEF ServeGet
  <2>3. Message(q).key \in Keys BY <2>1, <2>2, PopFacts DEF Messages
  <2>4. o \in Objects BY <1>1, <2>1, <2>3
  <2>5. o # None => file \in Replies BY <2>3, <2>4, ReplyTypes DEF Objects
  <2>6. /\ result \in Replies
        /\ result.kind # "none"
        /\ result.kind = "file" => result.key = Message(q).key /\ result.data = o /\ result.data # None
    <3>1. CASE o = None BY <3>1, ReplyTypes
    <3>2. CASE o # None
      <4>1. file.kind = "file" /\ file.key = Message(q).key /\ file.data = o OBVIOUS
      <4>2. result = file BY <3>2
      <4> HIDE DEF file, result, o, q
      <4>3. QED BY <2>5, <3>2, <4>1, <4>2
    <3>3. QED BY <3>1, <3>2
  <2>7. o = bucket[home[q[1]]][Message(q).key] BY <2>1
  <2> HIDE DEF q, result, o
  <2>8. Served(q, result) BY <1>1, <2>1, <2>2, <2>6, <2>7 DEF Served
  <2>9. QED BY <2>1, <2>6, <2>8
<1>5. ASSUME NEW n \in Serving, NEW v \in Vias, ServeDelete(n, v)
      PROVE  \E q \in Queues, result \in Replies : Served(q, result)
  <2> DEFINE q == <<n, v, "delete">>
  <2>1. q \in Queues /\ q[1] = n /\ q[3] = "delete" BY <1>2 DEF Ops
  <2>2. /\ Next1(q) /\ Pop(q)
        /\ UNCHANGED <<home, sent, waiting, callVars, failures>>
        /\ \/ /\ Respond(Message(q), Failure)
              /\ UNCHANGED <<bucket, possible, last>>
           \/ /\ Respond(Message(q), Ack)
              /\ Store(home[n], Message(q).key, None)
              /\ Acknowledged(Message(q))
    BY <1>5 DEF ServeDelete
  <2> HIDE DEF q
  <2>3. Served(q, Failure) \/ Served(q, Ack) BY <1>1, <2>1, <2>2, ReplyTypes DEF Served
  <2>4. QED BY <2>1, <2>3, ReplyTypes
<1>6. ASSUME NEW n \in Serving, NEW v \in Vias, ServeList(n, v)
      PROVE  \E q \in Queues, result \in Replies : Served(q, result)
  <2> DEFINE q == <<n, v, "list">>
             s == {k \in Keys : bucket[home[n]][k] # None}
             result == [kind |-> "keys", keys |-> s]
  <2>1. q \in Queues /\ q[1] = n /\ q[3] = "list" BY <1>2 DEF Ops
  <2>2. /\ Next1(q) /\ Pop(q) /\ Respond(Message(q), result)
        /\ UNCHANGED <<home, bucket, sent, waiting, callVars, failures, possible, last>>
    BY <1>6 DEF ServeList
  <2>3. result \in Replies BY ReplyTypes
  <2>4. result.kind = "keys" OBVIOUS
  <2> HIDE DEF q, result
  <2>5. Served(q, result) BY <1>1, <2>1, <2>2, <2>4 DEF Served
  <2>6. QED BY <2>1, <2>3, <2>5
<1>7. ASSUME NEW q \in DOMAIN inbox, ServeFails(q)
      PROVE  \E r \in Queues, result \in Replies : Served(r, result)
  <2>1. q \in Queues BY <1>1
  <2>2. failures' \in 0 .. MaxFailures BY <1>1, <1>7 DEF ServeFails
  <2>3. Served(q, Failure) BY <1>7, <2>2, ReplyTypes DEF ServeFails, Served
  <2>4. QED BY <2>1, <2>3, ReplyTypes
<1>8. QED BY <1>3, <1>4, <1>5, <1>6, <1>7 DEF ServeStep

LEMMA AcknowledgedFacts ==
  ASSUME Types, NEW m \in Messages, Acknowledged(m)
  PROVE  /\ last' \in [Keys -> Writers]
         /\ \A k \in Keys : k # m.key => last'[k] = last[k]
         /\ \A k \in Keys : /\ last'[k].id = last[k].id
                            /\ last'[k].op = last[k].op
                            /\ last'[k].raced = last[k].raced
                            /\ last'[k].acked => last[k].acked \/ (k = m.key /\ last[k].id = m.id)
<1>1. last \in [Keys -> Writers] /\ m.key \in Keys BY DEF Types, Messages
<1> DEFINE w == last[m.key]
           a == w.acked \/ w.id = m.id
<1>2. w \in Writers BY <1>1
<1>3. last' = [last EXCEPT ![m.key] = [w EXCEPT !.acked = a]] BY DEF Acknowledged
<1>4. a \in BOOLEAN /\ (a => w.acked \/ w.id = m.id) BY <1>2 DEF Writers
<1> HIDE DEF a
<1>5. /\ [w EXCEPT !.acked = a] \in Writers
      /\ [w EXCEPT !.acked = a].id = w.id
      /\ [w EXCEPT !.acked = a].op = w.op
      /\ [w EXCEPT !.acked = a].raced = w.raced
      /\ [w EXCEPT !.acked = a].acked = a
  BY <1>2, <1>4 DEF Writers
<1>6. last' \in [Keys -> Writers] BY <1>1, <1>3, <1>5
<1>7. \A k \in Keys : k # m.key => last'[k] = last[k] BY <1>1, <1>3
<1>8. last'[m.key] = [w EXCEPT !.acked = a] BY <1>1, <1>3
<1>9. ASSUME NEW k \in Keys
      PROVE  /\ last'[k].id = last[k].id
             /\ last'[k].op = last[k].op
             /\ last'[k].raced = last[k].raced
             /\ last'[k].acked => last[k].acked \/ (k = m.key /\ last[k].id = m.id)
  <2>1. CASE k # m.key BY <1>7, <2>1
  <2>2. CASE k = m.key BY <1>4, <1>5, <1>8, <2>2
  <2>3. QED BY <2>1, <2>2
<1>10. QED BY <1>6, <1>7, <1>9

LEMMA RespondFacts ==
  ASSUME Types, NEW m \in Messages, NEW result \in Replies, Respond(m, result)
  PROVE  /\ reply' \in [Askers -> Replies]
         /\ m.from \in Askers
         /\ \A a \in Askers : \/ reply'[a] = reply[a]
                              \/ a = m.from /\ reply'[a] = result /\ waiting[a] = m.id
<1>1. reply \in [Askers -> Replies] /\ m.from \in Askers BY DEF Types, Messages
<1>2. QED BY <1>1 DEF Respond

LEMMA ServedTypes ==
  ASSUME Types, NEW q \in Queues, NEW result \in Replies, Served(q, result)
  PROVE  Types'
<1>1. /\ Message(q) \in Messages
      /\ inbox' \in [Queues -> Seq(Messages)]
  BY PopFacts DEF Served
<1>2. reply' \in [Askers -> Replies] BY <1>1, RespondFacts DEF Served
<1>3. /\ bucket' \in [Buckets -> [Keys -> Objects]]
      /\ possible' \in [Askers -> [Keys -> SUBSET Objects]]
      /\ last' \in [Keys -> Writers]
  <2>1. CASE UNCHANGED <<bucket, possible, last>> BY <2>1 DEF Types
  <2>2. ASSUME NEW o \in Objects, Store(home[q[1]], Message(q).key, o), Acknowledged(Message(q))
        PROVE  /\ bucket' \in [Buckets -> [Keys -> Objects]]
               /\ possible' \in [Askers -> [Keys -> SUBSET Objects]]
               /\ last' \in [Keys -> Writers]
    <3>1. home[q[1]] \in Buckets BY FilesAssumption DEF Types, Queues
    <3>2. Message(q).key \in Keys BY <1>1 DEF Messages
    <3>3. QED BY <1>1, <2>2, <3>1, <3>2, StoreFacts, AcknowledgedFacts
  <2>3. None \in Objects /\ Message(q).id \in Objects BY <1>1 DEF Objects, Messages
  <2>4. QED BY <2>1, <2>2, <2>3 DEF Served
<1>4. QED BY <1>1, <1>2, <1>3 DEF Served, callVars, Types

LEMMA ServedControl ==
  ASSUME Types, Control, NEW q \in Queues, NEW result \in Replies, Served(q, result)
  PROVE  Control'
<1>1. Message(q) \in Messages /\ \A r \in Queues : Waiting(r)' \subseteq Waiting(r)
  BY PopFacts DEF Served
<1>2. UNCHANGED <<sent, waiting, call, calls>> BY DEF Served, callVars
<1>3. \A n \in Nodes : NodeInv(n)' BY <1>2 DEF Control, NodeInv
<1>4. ASSUME NEW a \in Askers PROVE AskInv(a)'
  <2>1. AskInv(a) BY DEF Control
  <2>2. waiting[a] = Message(q).id => waiting[a] # None BY <1>1, IdFacts DEF Messages
  <2>3. reply'[a] = reply[a] \/ waiting[a] = Message(q).id
    BY <1>1, RespondFacts DEF Served
  <2>4. QED BY <1>2, <2>1, <2>2, <2>3 DEF AskInv
<1>5. MessageInv' BY <1>1, <1>2 DEF Control, MessageInv
<1>6. QED BY <1>2, <1>3, <1>4, <1>5 DEF Control, NumbersDistinct

\* Sending keeps what is said of the askers and the messages.
LEMMA SendControl ==
  ASSUME Types, Control, NEW a \in Askers, NEW via, NEW op, NEW k \in Keys, NEW to,
         sent[a] + 1 \in Numbers, Send(a, via, op, k, to)
  PROVE  MessageInv' /\ \A b \in Askers : AskInv(b)'
<1>1. /\ sent \in [Askers -> Nat]
      /\ waiting \in [Askers -> Objects]
      /\ reply \in [Askers -> Replies]
      /\ inbox \in [Queues -> Seq(Messages)]
  BY DEF Types
<1>2. /\ sent' = [sent EXCEPT ![a] = sent[a] + 1]
      /\ waiting' = [waiting EXCEPT ![a] = NextId(a)]
      /\ reply' = [reply EXCEPT ![a] = NoReply]
      /\ \A q \in Queues : \A m \in Waiting(q)' :
           \/ m \in Waiting(q)
           \/ m = [id |-> NextId(a), from |-> a, key |-> k]
  BY SendFacts
<1>3. ASSUME NEW b \in Askers PROVE AskInv(b)'
  <2>1. AskInv(b) BY DEF Control
  <2>2. CASE b = a
    <3>1. /\ waiting'[a] = <<a, sent[a] + 1>>
          /\ sent'[a] = sent[a] + 1
          /\ reply'[a] = NoReply
      BY <1>1, <1>2 DEF NextId
    <3>2. QED BY <2>2, <3>1, ReplyTypes DEF AskInv
  <2>3. CASE b # a
    <3>1. waiting'[b] = waiting[b] /\ sent'[b] = sent[b] /\ reply'[b] = reply[b]
      BY <1>1, <1>2, <2>3
    <3>2. QED BY <2>1, <3>1 DEF AskInv
  <2>4. QED BY <2>2, <2>3
<1>4. ASSUME NEW q \in Queues, NEW m \in Waiting(q)'
      PROVE  m.id[1] = m.from /\ m.id[2] <= sent'[m.from]
  <2>1. CASE m = [id |-> NextId(a), from |-> a, key |-> k]
    <3>1. m.id = <<a, sent[a] + 1>> /\ m.from = a BY <2>1 DEF NextId
    <3>2. sent'[a] = sent[a] + 1 BY <1>1, <1>2
    <3>3. sent[a] + 1 \in Nat BY <1>1
    <3>4. m.id[1] = a /\ m.id[2] = sent[a] + 1 BY <3>1
    <3>5. QED BY <3>1, <3>2, <3>3, <3>4
  <2>2. CASE m \in Waiting(q)
    <3>1. m.id[1] = m.from /\ m.id[2] <= sent[m.from] BY <2>2 DEF Control, MessageInv
    <3>2. m \in Messages
      <4>1. inbox[q] \in Seq(Messages) BY <1>1
      <4>2. \A i \in DOMAIN inbox[q] : inbox[q][i] \in Messages BY <4>1
      <4>3. QED BY <2>2, <4>2 DEF Waiting, ToSet
    <3>3. m.from \in Askers /\ m.id[2] \in Nat BY <3>2, IdFacts DEF Messages
    <3>4. sent[m.from] \in Nat /\ sent'[m.from] \in {sent[m.from], sent[m.from] + 1}
      BY <1>1, <1>2, <3>3
    <3>5. QED BY <3>1, <3>3, <3>4
  <2>3. QED BY <1>2, <2>1, <2>2
<1>5. QED BY <1>3, <1>4 DEF MessageInv

LEMMA StartsToAskType ==
  ASSUME Types, NEW a \in Askers, StartsToAsk(a)
  PROVE  possible' \in [Askers -> [Keys -> SUBSET Objects]]
<1>1. /\ bucket \in [Buckets -> [Keys -> Objects]]
      /\ possible \in [Askers -> [Keys -> SUBSET Objects]]
  BY DEF Types
<1>2. \A k \in Keys : Held(k) \in SUBSET Objects BY <1>1 DEF Held
<1>3. possible' = [possible EXCEPT ![a] = [k \in Keys |-> Held(k)]] BY DEF StartsToAsk
<1> DEFINE f == [k \in Keys |-> Held(k)]
<1>4. f \in [Keys -> SUBSET Objects] BY <1>2
<1> HIDE DEF f
<1>5. QED BY <1>1, <1>3, <1>4 DEF f

RequestStep ==
  \E c \in Clients, r \in Requests, k \in Keys : Request(c, r[1], r[2], k)

LEMMA RequestFacts ==
  ASSUME Types, Control, NEW c \in Clients, NEW r \in Requests, NEW k \in Keys,
         Request(c, r[1], r[2], k)
  PROVE  /\ c \in Askers /\ c \notin Nodes
         /\ sent[c] + 1 \in Numbers
         /\ \E to : Send(c, r[1], r[2], k, to)
<1>1. c \in Askers /\ c \notin Nodes BY FilesAssumption DEF Askers
<1>2. sent[c] \in Nat /\ sent[c] < MaxRequests BY <1>1 DEF Types, Request
<1>3. sent[c] + 1 \in Numbers
  <2>1. Cardinality(Params) \in Nat BY FilesAssumption, FS_CardinalityType
  <2>2. MaxRequests \in Nat /\ MaxCalls \in Nat BY FilesAssumption
  <2>3. MaxCalls * Cardinality(Params) \in Nat BY <2>1, <2>2
  <2>4. QED BY <1>2, <2>2, <2>3 DEF Numbers
<1>4. QED BY <1>1, <1>3 DEF Request

LEMMA RequestTypes ==
  ASSUME Types, Control, NEW c \in Clients, NEW r \in Requests, NEW k \in Keys,
         Request(c, r[1], r[2], k)
  PROVE  Types'
<1>1. /\ c \in Askers
      /\ sent[c] + 1 \in Numbers
      /\ \E to : Send(c, r[1], r[2], k, to)
  BY RequestFacts
<1>2. /\ inbox' \in [Queues -> Seq(Messages)]
      /\ sent' \in [Askers -> Nat]
      /\ waiting' \in [Askers -> Objects]
      /\ reply' \in [Askers -> Replies]
      /\ NextId(c) \in Ids
  BY <1>1, SendFacts
<1>3. possible' \in [Askers -> [Keys -> SUBSET Objects]]
  <2>1. CASE r[2] = "get" BY <1>1, <2>1, StartsToAskType DEF Request
  <2>2. CASE r[2] # "get" BY <2>2 DEF Request, Types
  <2>3. QED BY <2>1, <2>2
<1>4. last' \in [Keys -> Writers]
  <2>1. last \in [Keys -> Writers] BY DEF Types
  <2>2. CASE r[2] \in Writes
    <3> DEFINE w == [id |-> NextId(c), op |-> r[2], acked |-> FALSE, raced |-> WriteUnderWay(k)]
    <3>1. WriteUnderWay(k) \in BOOLEAN BY DEF WriteUnderWay
    <3>2. w \in Writers BY <1>2, <2>2, <3>1 DEF Writers
    <3>3. last' = [last EXCEPT ![k] = w] BY <2>2 DEF Request
    <3> HIDE DEF w
    <3>4. QED BY <2>1, <3>2, <3>3
  <2>3. CASE r[2] \notin Writes BY <2>1, <2>3 DEF Request
  <2>4. QED BY <2>2, <2>3
<1>5. QED BY <1>2, <1>3, <1>4 DEF Request, callVars, Types

LEMMA RequestControl ==
  ASSUME Types, Control, NEW c \in Clients, NEW r \in Requests, NEW k \in Keys,
         Request(c, r[1], r[2], k)
  PROVE  Control'
<1>1. /\ c \in Askers /\ c \notin Nodes
      /\ sent[c] + 1 \in Numbers
      /\ \E to : Send(c, r[1], r[2], k, to)
  BY RequestFacts
<1>2. MessageInv' /\ \A b \in Askers : AskInv(b)' BY <1>1, SendControl
<1>3. /\ sent \in [Askers -> Nat]
      /\ waiting \in [Askers -> Objects]
      /\ sent' = [sent EXCEPT ![c] = sent[c] + 1]
      /\ waiting' = [waiting EXCEPT ![c] = NextId(c)]
  BY <1>1, SendFacts DEF Types
<1>4. call' = call /\ calls' = calls BY DEF Request, callVars
<1>5. ASSUME NEW n \in Nodes PROVE NodeInv(n)'
  <2>1. n \in Askers /\ n # c BY <1>1 DEF Askers
  <2>2. sent'[n] = sent[n] /\ waiting'[n] = waiting[n] BY <1>3, <2>1
  <2>3. QED BY <1>4, <2>2 DEF Control, NodeInv
<1>6. ASSUME NEW d \in Clients PROVE sent'[d] <= MaxRequests
  <2>1. d \in Askers BY DEF Askers
  <2>2. CASE d = c
    <3>1. sent[c] \in Nat /\ sent[c] < MaxRequests /\ MaxRequests \in Nat
      BY <1>1, <1>3, FilesAssumption DEF Request
    <3>2. sent'[d] = sent[c] + 1 BY <1>3, <2>1, <2>2
    <3>3. QED BY <3>1, <3>2
  <2>3. CASE d # c
    <3>1. sent'[d] = sent[d] BY <1>3, <2>1, <2>3
    <3>2. QED BY <3>1 DEF Control
  <2>4. QED BY <2>2, <2>3
<1>7. NumbersDistinct' BY <1>4 DEF Control, NumbersDistinct
<1>8. QED BY <1>2, <1>5, <1>6, <1>7 DEF Control

LEMMA EndsControl ==
  ASSUME Types, Control, NEW c \in Clients, RequestEnds(c)
  PROVE  Types' /\ Control'
<1>1. /\ waiting \in [Askers -> Objects]
      /\ reply \in [Askers -> Replies]
      /\ possible \in [Askers -> [Keys -> SUBSET Objects]]
      /\ c \in Askers /\ c \notin Nodes
  BY FilesAssumption DEF Types, Askers
<1>2. /\ waiting' = [waiting EXCEPT ![c] = None]
      /\ reply' = [reply EXCEPT ![c] = NoReply]
      /\ possible' = [possible EXCEPT ![c] = [k \in Keys |-> {}]]
      /\ UNCHANGED <<home, bucket, inbox, sent, call, calls, disk, broken, failures, last>>
  BY DEF RequestEnds, storeVars, callVars
<1>3. /\ waiting' \in [Askers -> Objects]
      /\ reply' \in [Askers -> Replies]
  BY <1>1, <1>2, ReplyTypes DEF Objects
<1>4. possible' \in [Askers -> [Keys -> SUBSET Objects]]
  <2>1. [k \in Keys |-> {}] \in [Keys -> SUBSET Objects] OBVIOUS
  <2>2. QED BY <1>1, <1>2, <2>1
<1>5. Types' BY <1>2, <1>3, <1>4 DEF Types
<1>6. ASSUME NEW n \in Nodes PROVE NodeInv(n)'
  <2>1. waiting'[n] = waiting[n] BY <1>1, <1>2, <1>6 DEF Askers
  <2>2. QED BY <1>2, <2>1 DEF Control, NodeInv
<1>7. ASSUME NEW a \in Askers PROVE AskInv(a)'
  <2>1. AskInv(a) BY DEF Control
  <2>2. CASE a = c BY <1>1, <1>2, <2>2, ReplyTypes DEF AskInv
  <2>3. CASE a # c BY <1>1, <1>2, <2>1, <2>3 DEF AskInv
  <2>4. QED BY <2>2, <2>3
<1>8. MessageInv' BY <1>2 DEF Control, MessageInv, Waiting
<1>9. QED BY <1>2, <1>5, <1>6, <1>7, <1>8 DEF Control, NumbersDistinct

LEMMA ExpireControl ==
  ASSUME Types, Control, NEW b \in Buckets, NEW k \in Keys, Expire(b, k)
  PROVE  Types' /\ Control'
<1>1. Store(b, k, None) /\ None \in Objects BY DEF Expire, Objects
<1>2. /\ bucket' \in [Buckets -> [Keys -> Objects]]
      /\ possible' \in [Askers -> [Keys -> SUBSET Objects]]
  BY <1>1, StoreFacts
<1>3. last' \in [Keys -> Writers]
  <2>1. last \in [Keys -> Writers] BY DEF Types
  <2>2. last' = [last EXCEPT ![k] = [last[k] EXCEPT !.op = "expired"]] BY DEF Expire
  <2>3. [last[k] EXCEPT !.op = "expired"] \in Writers BY <2>1 DEF Writers
  <2>4. QED BY <2>1, <2>2, <2>3
<1>4. failures' \in 0 .. MaxFailures
  BY FilesAssumption DEF Expire, Types
<1>5. UNCHANGED <<home, inbox, sent, waiting, reply, call, calls, disk, broken>>
  BY DEF Expire, askVars, callVars
<1>6. Types' BY <1>2, <1>3, <1>4, <1>5 DEF Types
<1>7. Control'
  BY <1>5 DEF Control, NodeInv, NumbersDistinct, AskInv, MessageInv, Waiting
<1>8. QED BY <1>6, <1>7

-----------------------------------------------------------------------------
(* The steps of a call.                                                    *)

LEMMA CountFacts ==
  ASSUME NEW S, S \subseteq Params
  PROVE  /\ Cardinality(S) \in Nat
         /\ Cardinality(S) <= Cardinality(Params)
         /\ Cardinality(Params) \in Nat
         /\ \A T : T \subseteq S => Cardinality(T) \in Nat /\ Cardinality(T) <= Cardinality(S)
         /\ \A x \in S : Cardinality(S \ {x}) = Cardinality(S) - 1
<1>1. IsFiniteSet(Params) /\ Cardinality(Params) \in Nat BY FilesAssumption, FS_CardinalityType
<1>2. /\ IsFiniteSet(S)
      /\ Cardinality(S) \in Nat
      /\ Cardinality(S) <= Cardinality(Params)
  BY <1>1, FS_Subset, FS_CardinalityType
<1>3. \A T : T \subseteq S => Cardinality(T) \in Nat /\ Cardinality(T) <= Cardinality(S)
  BY <1>2, FS_Subset, FS_CardinalityType
<1>4. \A x \in S : Cardinality(S \ {x}) = Cardinality(S) - 1 BY <1>2, FS_RemoveElement
<1>5. QED BY <1>1, <1>2, <1>3, <1>4

LEMMA Products ==
  ASSUME NEW i \in Nat, NEW j \in Nat, NEW k \in Nat, i <= j
  PROVE  i * k \in Nat /\ i * k <= j * k
<1>1. j - i \in Nat OBVIOUS
<1> DEFINE d == j - i
<1>2. d \in Nat /\ j = i + d BY <1>1
<1> HIDE DEF d
<1>3. d * k \in Nat /\ i * k \in Nat BY <1>2
<1>4. (i + d) * k = i * k + d * k BY <1>2
<1>5. QED BY <1>2, <1>3, <1>4

\* A parameter that was pending no longer is, and nothing is asked for.
Settles(n, p) ==
  /\ call' \in [Nodes -> CallRecords]
  /\ \A m \in Nodes : m # n => call'[m] = call[m]
  /\ call'[n].number = call[n].number
  /\ call'[n].phase = call[n].phase
  /\ call'[n].pending \subseteq call[n].pending \ {p}
  /\ call'[n].asked = None
  /\ \A q \in Params : q # p => call'[n].args[q] = call[n].args[q]
  /\ waiting' = [waiting EXCEPT ![n] = None]
  /\ reply' = [reply EXCEPT ![n] = NoReply]
  /\ UNCHANGED <<home, bucket, inbox, sent, calls, possible, last>>

\* The file o of parameter p is written, or that fails.
Writing(n, p, o) ==
  /\ failures' \in 0 .. MaxFailures
  /\ \/ /\ disk' = disk \cup {[call |-> call[n].number, param |-> p,
                               key |-> call[n].args[p], data |-> o]}
        /\ broken' = broken
     \/ disk' = disk /\ broken' = broken \cup {call[n].number}

LEMMA PendingFacts ==
  ASSUME Types, Control, NEW n \in Nodes, NEW p, Resolving(n, p)
  PROVE  /\ p \in Params /\ p # None
         /\ call[n].args[p] \in Keys
         /\ call[n].number \in 1 .. calls
         /\ call[n].phase = "resolving"
         /\ n \in Askers
         /\ call[n] \in CallRecords
<1>1. call[n] \in CallRecords /\ NodeInv(n) /\ n \in Askers BY DEF Types, Control, Askers
<1>2. p \in call[n].pending /\ call[n].pending \subseteq Params BY <1>1 DEF Resolving, CallRecords
<1>3. call[n].phase = "resolving" BY DEF Resolving
<1>4. QED BY <1>1, <1>2, <1>3, FilesAssumption DEF NodeInv

LEMMA WriteFacts ==
  ASSUME Types, Control, NEW n \in Nodes, NEW p, NEW o \in Ids,
         Resolving(n, p), WriteTempFile(n, p, o)
  PROVE  /\ call' \in [Nodes -> CallRecords]
         /\ \A m \in Nodes : m # n => call'[m] = call[m]
         /\ call'[n].number = call[n].number
         /\ call'[n].phase = call[n].phase
         /\ call'[n].pending \subseteq call[n].pending \ {p}
         /\ call'[n].asked = None
         /\ \A q \in Params : q # p => call'[n].args[q] = call[n].args[q]
         /\ calls' = calls
         /\ Writing(n, p, o)
<1> DEFINE r == call[n]
<1>1. r \in CallRecords /\ p \in Params BY PendingFacts
<1>2. call \in [Nodes -> CallRecords] /\ failures \in 0 .. MaxFailures /\ MaxFailures \in Nat
  BY FilesAssumption DEF Types
<1>3. ASSUME NEW s \in CallRecords, call' = [call EXCEPT ![n] = s],
             s.number = r.number, s.phase = r.phase, s.pending \subseteq r.pending \ {p},
             s.asked = None, \A q \in Params : q # p => s.args[q] = r.args[q]
      PROVE  /\ call' \in [Nodes -> CallRecords]
             /\ \A m \in Nodes : m # n => call'[m] = call[m]
             /\ call'[n].number = call[n].number
             /\ call'[n].phase = call[n].phase
             /\ call'[n].pending \subseteq call[n].pending \ {p}
             /\ call'[n].asked = None
             /\ \A q \in Params : q # p => call'[n].args[q] = call[n].args[q]
  <2>1. call'[n] = s BY <1>2, <1>3
  <2>2. QED BY <1>2, <1>3, <2>1
<1>4. CASE ToTempFile(n, p, o) /\ UNCHANGED failures
  <2> DEFINE a == [r.args EXCEPT ![p] = o]
             s == [r EXCEPT !.args = a, !.pending = r.pending \ {p}, !.asked = None]
  <2>1. call' = [call EXCEPT ![n] = s] BY <1>4 DEF ToTempFile
  <2>2. r.args \in [Params -> Keys \cup {Plain} \cup Objects] BY <1>1 DEF CallRecords
  <2>3. a \in [Params -> Keys \cup {Plain} \cup Objects] BY <2>2 DEF Objects
  <2>4. \A q \in Params : q # p => a[q] = r.args[q] BY <2>2
  <2> HIDE DEF a
  <2>5. /\ s \in CallRecords
        /\ s.number = r.number /\ s.phase = r.phase /\ s.pending \subseteq r.pending \ {p}
        /\ s.asked = None /\ s.args = a
    BY <1>1, <2>3 DEF CallRecords
  <2>6. \A q \in Params : q # p => s.args[q] = r.args[q] BY <2>4, <2>5
  <2> HIDE DEF s
  <2>7. calls' = calls /\ Writing(n, p, o) BY <1>2, <1>4 DEF ToTempFile, Writing
  <2>8. QED BY <1>3, <2>1, <2>5, <2>6, <2>7
<1>5. CASE TempFileFails(n, p)
  <2> DEFINE s == [r EXCEPT !.pending = {}, !.asked = None]
  <2>1. call' = [call EXCEPT ![n] = s] BY <1>5 DEF TempFileFails
  <2>2. /\ s \in CallRecords
        /\ s.number = r.number /\ s.phase = r.phase /\ s.pending \subseteq r.pending \ {p}
        /\ s.asked = None /\ s.args = r.args
    BY <1>1 DEF CallRecords
  <2> HIDE DEF s
  <2>3. calls' = calls /\ Writing(n, p, o) BY <1>2, <1>5 DEF TempFileFails, Writing
  <2>4. QED BY <1>3, <2>1, <2>2, <2>3
<1>6. QED BY <1>4, <1>5 DEF WriteTempFile

\* A node that has asked for nothing waits for nothing.
LEMMA NothingAsked ==
  ASSUME Types, Control, NEW n \in Nodes, call[n].asked = None
  PROVE  /\ waiting = [waiting EXCEPT ![n] = None]
         /\ reply = [reply EXCEPT ![n] = NoReply]
<1>1. /\ n \in Askers
      /\ waiting \in [Askers -> Objects]
      /\ reply \in [Askers -> Replies]
  BY DEF Types, Askers
<1>2. waiting[n] = None BY DEF Control, NodeInv
<1>3. reply[n].kind = "none"
  <2>1. AskInv(n) BY <1>1 DEF Control
  <2>2. QED BY <1>2, <2>1 DEF AskInv
<1>4. reply[n] = NoReply BY <1>1, <1>3, ReplyTypes
<1>5. QED BY <1>1, <1>2, <1>4

LEMMA LocallySettles ==
  ASSUME Types, Control, NEW n \in Nodes, NEW p, ResolveLocally(n, p)
  PROVE  LET o == bucket[home[n]][call[n].args[p]]
         IN  o \in Ids /\ Settles(n, p) /\ Writing(n, p, o)
<1> DEFINE o == bucket[home[n]][call[n].args[p]]
<1>1. Resolving(n, p) /\ call[n].asked = None /\ o # None /\ WriteTempFile(n, p, o)
  BY DEF ResolveLocally
<1>2. call[n].args[p] \in Keys BY <1>1, PendingFacts
<1>3. home[n] \in Buckets /\ bucket \in [Buckets -> [Keys -> Objects]]
  BY FilesAssumption DEF Types
<1>4. o \in Ids BY <1>1, <1>2, <1>3 DEF Objects
<1> HIDE DEF o
<1>5. waiting' = [waiting EXCEPT ![n] = None] /\ reply' = [reply EXCEPT ![n] = NoReply]
  BY <1>1, NothingAsked DEF ResolveLocally, askVars
<1>6. UNCHANGED <<home, bucket, inbox, sent, possible, last>>
  BY DEF ResolveLocally, storeVars, askVars
<1>7. Settles(n, p) /\ Writing(n, p, o) BY <1>1, <1>4, <1>5, <1>6, WriteFacts DEF Settles
<1>8. QED BY <1>4, <1>7 DEF o

LEMMA AnsweredSettles ==
  ASSUME Types, Control, NEW n \in Nodes, NEW p, ResolveAnswered(n, p)
  PROVE  /\ reply[n].data \in Ids /\ reply[n].key \in Keys
         /\ Settles(n, p) /\ Writing(n, p, reply[n].data)
<1> DEFINE o == reply[n].data
<1>1. Resolving(n, p) /\ reply[n].kind = "file" /\ WriteTempFile(n, p, o)
  BY DEF ResolveAnswered
<1>2. reply[n] \in Replies BY DEF Types, Askers
<1>3. o \in Ids /\ reply[n].key \in Keys BY <1>1, <1>2, ReplyTypes
<1> HIDE DEF o
<1>4. /\ waiting' = [waiting EXCEPT ![n] = None]
      /\ reply' = [reply EXCEPT ![n] = NoReply]
      /\ UNCHANGED <<home, bucket, inbox, sent, possible, last>>
  BY DEF ResolveAnswered, storeVars
<1>5. Settles(n, p) /\ Writing(n, p, o) BY <1>1, <1>3, <1>4, WriteFacts DEF Settles
<1>6. QED BY <1>3, <1>5 DEF o

LEMMA MissSettles ==
  ASSUME Types, Control, NEW n \in Nodes, NEW p, ResolveMisses(n, p)
  PROVE  Settles(n, p) /\ UNCHANGED <<disk, broken, failures>>
<1> DEFINE r == call[n]
           s == [r EXCEPT !.pending = r.pending \ {p}, !.asked = None]
<1>1. r \in CallRecords /\ call \in [Nodes -> CallRecords] BY DEF Types
<1>2. call' = [call EXCEPT ![n] = s] BY DEF ResolveMisses
<1>3. /\ s \in CallRecords
      /\ s.number = r.number /\ s.phase = r.phase /\ s.pending = r.pending \ {p}
      /\ s.asked = None /\ s.args = r.args
  BY <1>1 DEF CallRecords
<1> HIDE DEF s
<1>4. call'[n] = s BY <1>1, <1>2
<1>5. /\ call' \in [Nodes -> CallRecords]
      /\ \A m \in Nodes : m # n => call'[m] = call[m]
  BY <1>1, <1>2, <1>3
<1>6. /\ waiting' = [waiting EXCEPT ![n] = None]
      /\ reply' = [reply EXCEPT ![n] = NoReply]
      /\ UNCHANGED <<home, bucket, inbox, sent, calls, disk, broken, failures, possible, last>>
  BY DEF ResolveMisses, storeVars
<1>7. QED BY <1>3, <1>4, <1>5, <1>6 DEF Settles

LEMMA SettledControl ==
  ASSUME Types, Control, NEW n \in Nodes, NEW p, Resolving(n, p), Settles(n, p),
         UNCHANGED <<disk, broken, failures>> \/ \E o \in Ids : Writing(n, p, o)
  PROVE  Types' /\ Control'
<1>1. /\ p \in Params /\ p # None
      /\ call[n].args[p] \in Keys
      /\ call[n].number \in 1 .. calls
      /\ call[n].phase = "resolving"
      /\ n \in Askers
  BY PendingFacts
<1>2. /\ waiting \in [Askers -> Objects]
      /\ reply \in [Askers -> Replies]
      /\ call \in [Nodes -> CallRecords]
      /\ calls \in Nat
      /\ sent \in [Askers -> Nat]
  BY FilesAssumption DEF Types
<1>3. Types'
  <2>1. waiting' \in [Askers -> Objects] /\ reply' \in [Askers -> Replies]
    BY <1>2, ReplyTypes DEF Settles, Objects
  <2>2. /\ disk' \subseteq [call : 1 .. calls, param : Params, key : Keys, data : Ids]
        /\ broken' \subseteq 1 .. calls
        /\ failures' \in 0 .. MaxFailures
    <3>1. CASE UNCHANGED <<disk, broken, failures>> BY <3>1 DEF Types
    <3>2. ASSUME NEW o \in Ids, Writing(n, p, o)
          PROVE  /\ disk' \subseteq [call : 1 .. calls, param : Params, key : Keys, data : Ids]
                 /\ broken' \subseteq 1 .. calls
                 /\ failures' \in 0 .. MaxFailures
      <4>1. /\ disk \subseteq [call : 1 .. calls, param : Params, key : Keys, data : Ids]
            /\ broken \subseteq 1 .. calls
        BY DEF Types
      <4>2. [call |-> call[n].number, param |-> p, key |-> call[n].args[p], data |-> o]
              \in [call : 1 .. calls, param : Params, key : Keys, data : Ids]
        BY <1>1
      <4>3. CASE disk' = disk /\ broken' = broken \cup {call[n].number}
        BY <1>1, <3>2, <4>1, <4>3 DEF Writing
      <4>4. CASE /\ disk' = disk \cup {[call |-> call[n].number, param |-> p,
                                        key |-> call[n].args[p], data |-> o]}
                 /\ broken' = broken
        BY <3>2, <4>1, <4>2, <4>4 DEF Writing
      <4>5. QED BY <3>2, <4>3, <4>4 DEF Writing
    <3>3. QED BY <3>1, <3>2
  <2>3. QED BY <2>1, <2>2 DEF Settles, Types
<1>4. NodeInv(n)'
  <2>1. NodeInv(n) BY DEF Control
  <2>2. p \in call[n].pending /\ call[n].pending \subseteq Params
    BY <1>2 DEF Resolving, CallRecords
  <2>3. call'[n].pending \subseteq call[n].pending \ {call[n].asked}
    <3>1. call'[n].pending \subseteq call[n].pending \ {p} BY DEF Settles
    <3>2. call[n].asked = None \/ call[n].asked = p BY DEF Resolving
    <3>3. None \notin call[n].pending BY <2>2, FilesAssumption
    <3>4. QED BY <3>1, <3>2, <3>3
  <2>4. /\ Cardinality(call'[n].pending \ {None}) \in Nat
        /\ Cardinality(call[n].pending \ {call[n].asked}) \in Nat
        /\ Cardinality(call'[n].pending \ {None}) <= Cardinality(call[n].pending \ {call[n].asked})
    <3>1. call[n].pending \ {call[n].asked} \subseteq Params BY <2>2
    <3>2. call'[n].pending \ {None} \subseteq call[n].pending \ {call[n].asked} BY <2>3
    <3>3. QED BY <3>1, <3>2, CountFacts
  <2>5. sent'[n] = sent[n] /\ sent[n] \in Nat /\ calls' = calls
    BY <1>1, <1>2 DEF Settles
  <2>6. Cardinality(Params) \in Nat BY FilesAssumption, FS_CardinalityType
  <2>7. calls * Cardinality(Params) \in Nat BY <1>2, <2>6
  <2>8. sent'[n] + Cardinality(call'[n].pending \ {call'[n].asked}) <= calls' * Cardinality(Params)
    <3>1. call'[n].asked = None BY DEF Settles
    <3>2. sent[n] + Cardinality(call[n].pending \ {call[n].asked}) <= calls * Cardinality(Params)
      BY <2>1 DEF NodeInv
    <3> DEFINE x == Cardinality(call[n].pending \ {call[n].asked})
               y == Cardinality(call'[n].pending \ {None})
               z == calls * Cardinality(Params)
    <3>3. x \in Nat /\ y \in Nat /\ z \in Nat /\ y <= x /\ sent[n] + x <= z
      BY <2>4, <2>7, <3>2
    <3> HIDE DEF x, y, z
    <3>4. sent[n] + y <= z BY <2>5, <3>3
    <3>5. QED BY <2>5, <3>1, <3>4 DEF y, z
  <2>9. waiting'[n] = None BY <1>1, <1>2 DEF Settles
  <2>10. \A q \in call'[n].pending : call'[n].args[q] \in Keys
    <3>1. ASSUME NEW q \in call'[n].pending PROVE call'[n].args[q] \in Keys
      <4>1. q \in call[n].pending /\ q # p /\ q \in Params BY <2>2 DEF Settles
      <4>2. call'[n].args[q] = call[n].args[q] BY <4>1 DEF Settles
      <4>3. QED BY <2>1, <4>1, <4>2 DEF NodeInv
    <3>2. QED BY <3>1
  <2>11. call'[n].number = call[n].number /\ call'[n].phase = "resolving" /\ call'[n].asked = None
    BY <1>1 DEF Settles
  <2>12. QED BY <1>1, <2>5, <2>8, <2>9, <2>10, <2>11 DEF NodeInv
<1>5. ASSUME NEW m \in Nodes, m # n PROVE NodeInv(m)'
  <2>1. m \in Askers BY DEF Askers
  <2>2. waiting'[m] = waiting[m] BY <1>2, <1>5, <2>1 DEF Settles
  <2>3. call'[m] = call[m] /\ sent' = sent /\ calls' = calls BY <1>5 DEF Settles
  <2>4. NodeInv(m) BY DEF Control
  <2>5. QED BY <2>2, <2>3, <2>4 DEF NodeInv
<1>6. NumbersDistinct'
  <2>1. \A m \in Nodes : call'[m].number = call[m].number BY DEF Settles
  <2>2. QED BY <2>1 DEF Control, NumbersDistinct
<1>7. ASSUME NEW a \in Askers PROVE AskInv(a)'
  <2>1. AskInv(a) BY DEF Control
  <2>2. CASE a = n BY <1>2, <2>2, ReplyTypes DEF Settles, AskInv
  <2>3. CASE a # n
    <3>1. waiting'[a] = waiting[a] /\ reply'[a] = reply[a] /\ sent'[a] = sent[a]
      BY <1>2, <2>3 DEF Settles
    <3>2. QED BY <2>1, <3>1 DEF AskInv
  <2>4. QED BY <2>2, <2>3
<1>8. MessageInv' BY DEF Control, MessageInv, Settles, Waiting
<1>9. QED BY <1>3, <1>4, <1>5, <1>6, <1>7, <1>8 DEF Control, Settles

LEMMA AsksControl ==
  ASSUME Types, Control, NEW n \in Nodes, NEW p, ResolveAsks(n, p)
  PROVE  /\ Types' /\ Control'
         /\ sent[n] + 1 \in Numbers
         /\ call' = [call EXCEPT ![n] = [call[n] EXCEPT !.asked = p]]
<1> DEFINE r == call[n]
           s == [r EXCEPT !.asked = p]
           k == r.args[p]
<1>1. Resolving(n, p) /\ r.asked = None /\ Send(n, "raw", "get", k, Serving)
  BY DEF ResolveAsks
<1>2. /\ p \in Params /\ p # None
      /\ k \in Keys
      /\ n \in Askers
      /\ r \in CallRecords
      /\ call \in [Nodes -> CallRecords]
  BY <1>1, PendingFacts DEF Types
<1>3. p \in r.pending /\ r.pending \subseteq Params BY <1>1, <1>2 DEF Resolving, CallRecords
<1>4. call' = [call EXCEPT ![n] = s] BY DEF ResolveAsks
<1>5. /\ s \in CallRecords
      /\ s.number = r.number /\ s.phase = r.phase /\ s.args = r.args
      /\ s.pending = r.pending /\ s.asked = p
  BY <1>2 DEF CallRecords
<1> HIDE DEF s
<1>6. NodeInv(n) /\ calls \in Nat /\ calls <= MaxCalls /\ MaxCalls \in Nat /\ MaxRequests \in Nat
      /\ sent \in [Askers -> Nat] /\ sent[n] \in Nat
  BY <1>2, FilesAssumption DEF Types, Control
\* One parameter that could be asked for becomes one that was.
<1> DEFINE x == Cardinality(r.pending \ {p})
           K == Cardinality(Params)
<1>7. x \in Nat /\ K \in Nat /\ sent[n] + (x + 1) <= calls * K
  <2>1. None \notin r.pending BY <1>3, FilesAssumption
  <2>2. r.pending \ {r.asked} = r.pending BY <1>1, <2>1
  <2>3. Cardinality(r.pending \ {p}) = Cardinality(r.pending) - 1
        /\ Cardinality(r.pending) \in Nat /\ Cardinality(r.pending \ {p}) \in Nat
    BY <1>3, CountFacts
  <2>4. sent[n] + Cardinality(r.pending) <= calls * K BY <1>6, <2>2 DEF NodeInv
  <2>5. K \in Nat BY <1>3, CountFacts
  <2>6. x + 1 = Cardinality(r.pending) BY <2>3
  <2>7. QED BY <2>3, <2>4, <2>5, <2>6
<1>8. calls * K \in Nat /\ MaxCalls * K \in Nat /\ calls * K <= MaxCalls * K
  <2>1. calls * K \in Nat /\ calls * K <= MaxCalls * K BY <1>6, <1>7, Products
  <2>2. MaxCalls * K \in Nat BY <1>6, <1>7, Products
  <2>3. QED BY <2>1, <2>2
<1>9. sent[n] + 1 \in Numbers
  <2> DEFINE y == calls * K
             z == MaxCalls * K
  <2>1. y \in Nat /\ z \in Nat /\ y <= z /\ sent[n] + (x + 1) <= y BY <1>7, <1>8
  <2>2. Numbers = 1 .. (MaxRequests + z) BY DEF Numbers
  <2> HIDE DEF x, y, z
  <2>3. QED BY <1>6, <1>7, <2>1, <2>2
<1> DEFINE y == calls * K
<1>10. /\ inbox' \in [Queues -> Seq(Messages)]
       /\ sent' = [sent EXCEPT ![n] = sent[n] + 1]
       /\ sent' \in [Askers -> Nat]
       /\ NextId(n) \in Ids
       /\ waiting' = [waiting EXCEPT ![n] = NextId(n)]
       /\ waiting' \in [Askers -> Objects]
       /\ reply' \in [Askers -> Replies]
  BY <1>1, <1>2, <1>9, SendFacts
<1>11. MessageInv' /\ \A b \in Askers : AskInv(b)' BY <1>1, <1>2, <1>9, SendControl
<1>12. UNCHANGED <<home, bucket, calls, disk, broken, failures, possible, last>>
  BY DEF ResolveAsks
<1>13. call' \in [Nodes -> CallRecords] /\ call'[n] = s /\ \A m \in Nodes : m # n => call'[m] = call[m]
  BY <1>2, <1>4, <1>5
<1>14. Types' BY <1>10, <1>12, <1>13 DEF Types
<1>15. NodeInv(n)'
  <2>1. sent'[n] = sent[n] + 1 /\ waiting'[n] = NextId(n) /\ NextId(n) # None
    BY <1>2, <1>6, <1>10, IdFacts DEF Types
  <2>2. sent'[n] + Cardinality(call'[n].pending \ {call'[n].asked}) <= calls' * K
    <3>1. call'[n].pending \ {call'[n].asked} = r.pending \ {p} BY <1>5, <1>13
    <3>2. sent'[n] + x <= y
      <4>1. y \in Nat /\ x \in Nat /\ sent[n] \in Nat /\ sent[n] + (x + 1) <= y
        BY <1>6, <1>7, <1>8
      <4> HIDE DEF x, y
      <4>2. QED BY <2>1, <4>1
    <3>3. QED BY <1>12, <3>1, <3>2
  <2> HIDE DEF x, y
  <2>3. QED BY <1>2, <1>3, <1>5, <1>6, <1>12, <1>13, <2>1, <2>2 DEF NodeInv
<1>16. ASSUME NEW m \in Nodes, m # n PROVE NodeInv(m)'
  <2>1. m \in Askers BY DEF Askers
  <2>2. waiting'[m] = waiting[m] /\ sent'[m] = sent[m]
    BY <1>6, <1>10, <1>16, <2>1 DEF Types
  <2>3. call'[m] = call[m] /\ calls' = calls BY <1>12, <1>13, <1>16
  <2>4. NodeInv(m) BY DEF Control
  <2>5. QED BY <2>2, <2>3, <2>4 DEF NodeInv
<1>17. ASSUME NEW c \in Clients PROVE sent'[c] <= MaxRequests
  <2>1. c \in Askers /\ c # n BY FilesAssumption DEF Askers
  <2>2. sent'[c] = sent[c] BY <1>6, <1>10, <2>1
  <2>3. QED BY <2>2 DEF Control
<1>18. NumbersDistinct'
  <2>1. \A m \in Nodes : call'[m].number = call[m].number BY <1>5, <1>13
  <2>2. QED BY <2>1 DEF Control, NumbersDistinct
<1>19. Control' BY <1>11, <1>15, <1>16, <1>17, <1>18 DEF Control
<1>20. QED BY <1>4, <1>9, <1>14, <1>19 DEF s

\* A call n is replaced by s, with the same requests under way.
LEMMA CallChanges ==
  ASSUME Types, Control, NEW n \in Nodes, NEW s \in CallRecords,
         call' = [call EXCEPT ![n] = s], calls' \in 0 .. MaxCalls, calls <= calls',
         UNCHANGED <<inbox, sent, waiting, reply>>,
         s.phase = "idle" => s.number = 0,
         s.phase # "idle" => s.number \in 1 .. calls',
         s.phase # "resolving" => s.pending = {},
         call[n].asked = None, s.asked = None,
         \A p \in s.pending : s.args[p] \in Keys,
         s.pending # {} => calls' = calls + 1,
         \A m \in Nodes : m # n /\ s.number # 0 => call[m].number # s.number
  PROVE  Control' /\ call' \in [Nodes -> CallRecords]
<1> DEFINE K == Cardinality(Params)
<1>1. /\ call \in [Nodes -> CallRecords]
      /\ sent \in [Askers -> Nat]
      /\ n \in Askers
      /\ calls \in Nat /\ calls' \in Nat
      /\ K \in Nat
      /\ s.pending \subseteq Params
  BY FilesAssumption, FS_CardinalityType DEF Types, Askers, CallRecords
<1>2. call'[n] = s /\ \A m \in Nodes : m # n => call'[m] = call[m] BY <1>1
<1>3. call' \in [Nodes -> CallRecords] BY <1>1
<1>4. calls * K \in Nat /\ calls' * K \in Nat /\ calls * K <= calls' * K
  BY <1>1, Products
<1>5. ASSUME NEW m \in Nodes
      PROVE  /\ sent[m] \in Nat
             /\ Cardinality(call[m].pending \ {call[m].asked}) \in Nat
             /\ sent[m] + Cardinality(call[m].pending \ {call[m].asked}) <= calls * K
  <2>1. call[m].pending \ {call[m].asked} \subseteq Params BY <1>1 DEF CallRecords
  <2>2. m \in Askers /\ NodeInv(m) BY DEF Askers, Control
  <2>3. QED BY <1>1, <2>1, <2>2, CountFacts DEF NodeInv
<1>6. ASSUME NEW m \in Nodes
      PROVE  sent'[m] + Cardinality(call'[m].pending \ {call'[m].asked}) <= calls' * K
  <2> DEFINE x == Cardinality(call[m].pending \ {call[m].asked})
             y == calls * K
             z == calls' * K
  <2>1. /\ sent'[m] = sent[m] /\ sent[m] \in Nat /\ x \in Nat /\ y \in Nat /\ z \in Nat
        /\ sent[m] + x <= y /\ y <= z
    BY <1>4, <1>5
  <2>2. CASE m # n
    <3>1. call'[m] = call[m] BY <1>2, <2>2
    <3> HIDE DEF y, z
    <3>2. sent'[m] + x <= z
      <4> HIDE DEF x
      <4>1. QED BY <2>1
    <3>3. QED BY <3>1, <3>2 DEF z
  <2>3. CASE m = n
    <3> DEFINE w == Cardinality(call'[n].pending \ {call'[n].asked})
    <3>1. call'[n].pending \ {call'[n].asked} \subseteq s.pending BY <1>2
    <3>2. w \in Nat /\ w <= K BY <1>1, <3>1, CountFacts
    <3>3. CASE s.pending = {}
      <4>1. w = 0 BY <3>1, <3>3, FS_EmptySet
      <4> HIDE DEF x, y, z, w
      <4>2. sent'[m] + w <= z BY <2>1, <4>1
      <4>3. QED BY <2>3, <4>2 DEF w, z
    <3>4. CASE s.pending # {}
      <4>1. calls' = calls + 1 BY <3>4
      <4>2. z = y + K BY <1>1, <4>1
      <4> HIDE DEF x, y, z, w
      <4>3. sent'[m] + w <= z BY <1>1, <2>1, <3>2, <4>2
      <4>4. QED BY <2>3, <4>3 DEF w, z
    <3>5. QED BY <3>3, <3>4
  <2>4. QED BY <2>2, <2>3
<1>7. NodeInv(n)'
  <2>1. waiting'[n] = None BY DEF Control, NodeInv
  <2> HIDE DEF K
  <2>2. QED BY <1>2, <1>6, <2>1 DEF NodeInv, K
<1>8. ASSUME NEW m \in Nodes, m # n PROVE NodeInv(m)'
  <2>1. NodeInv(m) /\ call'[m] = call[m] /\ waiting' = waiting BY <1>2, <1>8 DEF Control
  <2>2. call[m].number \in 1 .. calls => call[m].number \in 1 .. calls' BY <1>1
  <2>3. QED BY <1>6, <2>1, <2>2 DEF NodeInv
<1>9. NumbersDistinct'
  <2>1. NumbersDistinct BY DEF Control
  <2>2. QED BY <1>2, <2>1 DEF NumbersDistinct
<1>10. /\ \A c \in Clients : sent'[c] <= MaxRequests
       /\ \A a \in Askers : AskInv(a)'
       /\ MessageInv'
  BY DEF Control, AskInv, MessageInv, Waiting
<1>11. QED BY <1>3, <1>7, <1>8, <1>9, <1>10 DEF Control

LEMMA StartsControl ==
  ASSUME Types, Control, NEW n \in Called, NEW args \in [Params -> Keys \cup {Plain}],
         CallStarts(n, args)
  PROVE  Types' /\ Control'
<1> DEFINE s == [number |-> calls + 1, phase |-> "resolving", args |-> args,
                 pending |-> {p \in Params : args[p] \in Keys}, asked |-> None]
<1>1. /\ n \in Nodes /\ n \in Askers
      /\ calls \in Nat /\ calls + 1 \in 1 .. MaxCalls
      /\ call \in [Nodes -> CallRecords]
  BY FilesAssumption DEF Types, Askers, CallStarts
<1>2. call[n].phase = "idle" /\ call' = [call EXCEPT ![n] = s] /\ calls' = calls + 1
      /\ StartsToAsk(n)
      /\ UNCHANGED <<home, bucket, inbox, sent, waiting, reply, disk, broken, failures, last>>
  BY DEF CallStarts, storeVars, askVars
<1>3. /\ s.number = calls + 1 /\ s.phase = "resolving" /\ s.asked = None
      /\ \A p \in s.pending : s.args[p] \in Keys
      /\ s.pending \subseteq Params
  OBVIOUS
<1>4. s \in CallRecords BY <1>1 DEF CallRecords, Phases
<1> HIDE DEF s
<1>5. call[n].asked = None
  <2>1. NodeInv(n) BY <1>1 DEF Control
  <2>2. call[n].pending = {} BY <1>2, <2>1 DEF NodeInv
  <2>3. QED BY <2>1, <2>2 DEF NodeInv
<1>6. ASSUME NEW m \in Nodes PROVE call[m].number # s.number
  <2>1. NodeInv(m) /\ call[m] \in CallRecords BY <1>1 DEF Control
  <2>2. call[m].number = 0 \/ call[m].number \in 1 .. calls BY <2>1 DEF NodeInv
  <2>3. QED BY <1>1, <1>3, <2>2
<1>7. calls' \in 0 .. MaxCalls /\ calls <= calls' /\ s.number \in 1 .. calls'
  BY <1>1, <1>2, <1>3
<1>8. Control' /\ call' \in [Nodes -> CallRecords]
  BY <1>1, <1>2, <1>3, <1>4, <1>5, <1>6, <1>7, CallChanges
<1>9. possible' \in [Askers -> [Keys -> SUBSET Objects]] BY <1>1, <1>2, StartsToAskType
<1>10. /\ disk' \subseteq [call : 1 .. calls', param : Params, key : Keys, data : Ids]
       /\ broken' \subseteq 1 .. calls'
  <2>1. 1 .. calls \subseteq 1 .. calls' BY <1>1, <1>2
  <2>2. /\ disk \subseteq [call : 1 .. calls, param : Params, key : Keys, data : Ids]
        /\ broken \subseteq 1 .. calls
    BY DEF Types
  <2>3. [call : 1 .. calls, param : Params, key : Keys, data : Ids]
          \subseteq [call : 1 .. calls', param : Params, key : Keys, data : Ids]
    BY <2>1
  <2>4. QED BY <1>2, <2>1, <2>2, <2>3
<1>11. Types' BY <1>2, <1>7, <1>8, <1>9, <1>10 DEF Types
<1>12. QED BY <1>8, <1>11

LEMMA RunsControl ==
  ASSUME Types, Control, NEW n \in Nodes, HandlerRuns(n)
  PROVE  /\ Types' /\ Control'
         /\ call' = [call EXCEPT ![n] = [call[n] EXCEPT !.phase = "running"]]
<1> DEFINE r == call[n]
           s == [r EXCEPT !.phase = "running"]
<1>1. /\ call \in [Nodes -> CallRecords] /\ r \in CallRecords
      /\ calls \in 0 .. MaxCalls /\ calls \in Nat
  BY FilesAssumption DEF Types
<1>2. call' = [call EXCEPT ![n] = s] /\ r.phase = "resolving" /\ r.pending = {}
      /\ UNCHANGED <<home, bucket, inbox, sent, waiting, reply, calls, disk, broken,
                     failures, possible, last>>
  BY DEF HandlerRuns, storeVars, askVars
<1>3. /\ s \in CallRecords /\ s.phase = "running" /\ s.number = r.number
      /\ s.pending = r.pending /\ s.asked = r.asked /\ s.args = r.args
  BY <1>1 DEF CallRecords, Phases
<1> HIDE DEF s
<1>4. NodeInv(n) /\ NumbersDistinct BY DEF Control
<1>5. r.asked = None /\ r.number \in 1 .. calls BY <1>2, <1>4 DEF NodeInv
<1>6. \A m \in Nodes : m # n /\ s.number # 0 => call[m].number # s.number
  BY <1>3, <1>4 DEF NumbersDistinct
<1>7. Control' /\ call' \in [Nodes -> CallRecords]
  <2>1. calls' = calls /\ calls' \in 0 .. MaxCalls /\ calls <= calls' BY <1>1, <1>2
  <2>2. s.phase # "idle" /\ s.number \in 1 .. calls' /\ s.pending = {} /\ s.asked = None
    BY <1>2, <1>3, <1>5, <2>1
  <2>3. UNCHANGED <<inbox, sent, waiting, reply>> BY <1>2
  <2>4. QED BY <1>2, <1>3, <1>5, <1>6, <2>1, <2>2, <2>3, CallChanges
<1>8. Types' BY <1>2, <1>7 DEF Types
<1>9. QED BY <1>2, <1>7, <1>8 DEF s

LEMMA ReturnsControl ==
  ASSUME Types, Control, NEW n \in Nodes, HandlerReturns(n)
  PROVE  /\ Types' /\ Control'
         /\ call'[n] = Idle
         /\ \A m \in Nodes : m # n => call'[m] = call[m]
<1>1. /\ call \in [Nodes -> CallRecords] /\ call[n] \in CallRecords
      /\ calls \in 0 .. MaxCalls /\ calls \in Nat
      /\ possible \in [Askers -> [Keys -> SUBSET Objects]]
      /\ n \in Askers
  BY FilesAssumption DEF Types, Askers
<1>2. call' = [call EXCEPT ![n] = Idle] /\ call[n].phase = "running"
      /\ possible' = [possible EXCEPT ![n] = [k \in Keys |-> {}]]
      /\ disk' \subseteq disk
      /\ UNCHANGED <<home, bucket, inbox, sent, waiting, reply, calls, broken, failures, last>>
  BY DEF HandlerReturns, storeVars, askVars
<1>3. /\ Idle \in CallRecords /\ Idle.number = 0 /\ Idle.phase = "idle"
      /\ Idle.pending = {} /\ Idle.asked = None
  BY DEF Idle, CallRecords, Phases
<1>4. call[n].asked = None
  <2>1. NodeInv(n) BY DEF Control
  <2>2. call[n].pending = {} BY <1>2, <2>1 DEF NodeInv
  <2>3. QED BY <2>1, <2>2 DEF NodeInv
<1>5. Control' /\ call' \in [Nodes -> CallRecords]
  <2>1. calls' \in 0 .. MaxCalls /\ calls <= calls' BY <1>1, <1>2
  <2>2. UNCHANGED <<inbox, sent, waiting, reply>> BY <1>2
  <2> DEFINE s == Idle
  <2>3. /\ s \in CallRecords /\ s.number = 0 /\ s.phase = "idle"
        /\ s.pending = {} /\ s.asked = None /\ call' = [call EXCEPT ![n] = s]
    BY <1>2, <1>3
  <2> HIDE DEF s
  <2>4. QED BY <1>4, <2>1, <2>2, <2>3, CallChanges
<1>6. possible' \in [Askers -> [Keys -> SUBSET Objects]]
  <2>1. [k \in Keys |-> {}] \in [Keys -> SUBSET Objects] OBVIOUS
  <2>2. QED BY <1>1, <1>2, <2>1
<1>7. Types' BY <1>2, <1>5, <1>6 DEF Types
<1>8. QED BY <1>1, <1>2, <1>5, <1>7

-----------------------------------------------------------------------------
(* Types and control hold of every behaviour.                              *)

LEMMA StepCases ==
  ASSUME Types, [Next]_vars
  PROVE  \/ UNCHANGED vars
         \/ \E c \in Clients, r \in Requests, k \in Keys : Request(c, r[1], r[2], k)
         \/ \E c \in Clients : RequestEnds(c)
         \/ \E q \in Queues, result \in Replies : Served(q, result)
         \/ \E b \in Buckets, k \in Keys : Expire(b, k)
         \/ \E n \in Called, args \in [Params -> Keys \cup {Plain}] : CallStarts(n, args)
         \/ \E n \in Nodes : \/ \E p \in Params : \/ ResolveLocally(n, p)
                                                  \/ ResolveAsks(n, p)
                                                  \/ ResolveMisses(n, p)
                                                  \/ ResolveAnswered(n, p)
                             \/ HandlerRuns(n)
                             \/ HandlerReturns(n)
<1>1. ServeStep => \E q \in Queues, result \in Replies : Served(q, result) BY ServeIsServed
<1>2. Called \subseteq Nodes BY FilesAssumption
<1>3. QED BY <1>1, <1>2 DEF Next, ServeStep, CallStep

LEMMA InitControl == Init => Types /\ Control
<1> SUFFICES ASSUME Init PROVE Types /\ Control OBVIOUS
<1>1. NoReply \in Replies BY ReplyTypes
<1>2. /\ Idle \in CallRecords /\ Idle.number = 0 /\ Idle.phase = "idle"
      /\ Idle.pending = {} /\ Idle.asked = None
  BY DEF Idle, CallRecords, Phases
<1>3. /\ bucket \in [Buckets -> [Keys -> Objects]]
      /\ waiting \in [Askers -> Objects]
      /\ possible \in [Askers -> [Keys -> SUBSET Objects]]
  <2>1. [k \in Keys |-> {}] \in [Keys -> SUBSET Objects] OBVIOUS
  <2>2. [k \in Keys |-> None] \in [Keys -> Objects] BY DEF Objects
  <2>3. QED BY <2>1, <2>2 DEF Init, Objects
<1>4. inbox \in [Queues -> Seq(Messages)] /\ \A q \in Queues : inbox[q] = <<>>
  BY DEF Init, Queues
<1>5. last \in [Keys -> Writers]
  <2>1. [id |-> <<>>, op |-> "delete", acked |-> FALSE, raced |-> FALSE] \in Writers
    BY DEF Writers, Writes
  <2>2. QED BY <2>1 DEF Init
<1>6. /\ sent \in [Askers -> Nat] /\ \A a \in Askers : sent[a] = 0
      /\ \A a \in Askers : waiting[a] = None /\ reply[a] = NoReply
      /\ reply \in [Askers -> Replies]
      /\ call \in [Nodes -> CallRecords] /\ \A n \in Nodes : call[n] = Idle
  BY <1>1, <1>2 DEF Init
<1>7. Types
  <2>1. calls \in 0 .. MaxCalls /\ failures \in 0 .. MaxFailures BY FilesAssumption DEF Init
  <2>2. home \in Homes /\ disk = {} /\ broken = {} BY DEF Init
  <2>3. QED BY <1>3, <1>4, <1>5, <1>6, <2>1, <2>2 DEF Types
<1>8. ASSUME NEW n \in Nodes PROVE NodeInv(n)
  <2>1. n \in Askers /\ call[n] = Idle /\ calls = 0 /\ sent[n] = 0 /\ waiting[n] = None
    BY <1>6 DEF Askers, Init
  <2>2. Cardinality(call[n].pending \ {call[n].asked}) = 0
    <3>1. call[n].pending \ {call[n].asked} = {} BY <1>2, <2>1
    <3>2. QED BY <3>1, FS_EmptySet
  <2>3. Cardinality(Params) \in Nat BY FilesAssumption, FS_CardinalityType
  <2>4. calls * Cardinality(Params) = 0 BY <2>1, <2>3
  <2>5. QED BY <1>2, <2>1, <2>2, <2>4 DEF NodeInv
<1>9. ASSUME NEW c \in Clients PROVE sent[c] <= MaxRequests
  BY <1>6, FilesAssumption DEF Askers
<1>10. NumbersDistinct BY <1>2, <1>6 DEF NumbersDistinct
<1>11. \A a \in Askers : AskInv(a) BY <1>6, ReplyTypes DEF AskInv
<1>12. MessageInv
  <2>1. \A q \in Queues : Waiting(q) = {} BY <1>4 DEF Waiting, ToSet
  <2>2. QED BY <2>1 DEF MessageInv
<1>13. QED BY <1>7, <1>8, <1>9, <1>10, <1>11, <1>12 DEF Control

LEMMA ControlStep ==
  ASSUME Types, Control, [Next]_vars
  PROVE  Types' /\ Control'
<1>1. CASE UNCHANGED vars
  BY <1>1 DEF vars, storeVars, askVars, callVars, Types, Control, NodeInv, NumbersDistinct,
              AskInv, MessageInv, Waiting
<1>2. ASSUME NEW c \in Clients, NEW r \in Requests, NEW k \in Keys, Request(c, r[1], r[2], k)
      PROVE  Types' /\ Control'
  BY <1>2, RequestTypes, RequestControl
<1>3. ASSUME NEW n \in Nodes, NEW p \in Params,
             ResolveLocally(n, p) \/ ResolveMisses(n, p) \/ ResolveAnswered(n, p)
      PROVE  Types' /\ Control'
  <2>1. Resolving(n, p) BY <1>3 DEF ResolveLocally, ResolveMisses, ResolveAnswered
  <2>2. /\ Settles(n, p)
        /\ UNCHANGED <<disk, broken, failures>> \/ \E o \in Ids : Writing(n, p, o)
    BY <1>3, LocallySettles, MissSettles, AnsweredSettles
  <2>3. QED BY <2>1, <2>2, SettledControl
<1>4. QED BY <1>1, <1>2, <1>3, StepCases, EndsControl, ServedTypes, ServedControl,
             ExpireControl, StartsControl, AsksControl, RunsControl, ReturnsControl

LEMMA ControlInvariant == Spec => [](Types /\ Control)
<1>1. Init => Types /\ Control BY InitControl
<1>2. (Types /\ Control) /\ [Next]_vars => (Types /\ Control)' BY ControlStep
<1>3. QED BY <1>1, <1>2, PTL DEF Spec

LEMMA TypeImplied == Types /\ Control => TypeOK
<1> SUFFICES ASSUME Types, Control PROVE TypeOK OBVIOUS
<1> DEFINE K == Cardinality(Params)
           z == MaxCalls * K
<1>1. /\ K \in Nat /\ MaxCalls \in Nat /\ MaxRequests \in Nat /\ calls \in Nat /\ calls <= MaxCalls
  BY FilesAssumption, FS_CardinalityType DEF Types
<1>2. calls * K \in Nat /\ z \in Nat /\ calls * K <= z
  <2>1. calls * K \in Nat /\ calls * K <= MaxCalls * K BY <1>1, Products
  <2>2. MaxCalls * K \in Nat BY <1>1, Products
  <2>3. QED BY <2>1, <2>2
<1>3. Numbers = 1 .. (MaxRequests + z) BY DEF Numbers
<1>4. ASSUME NEW a \in Askers PROVE sent[a] \in Numbers \cup {0}
  <2>1. sent[a] \in Nat BY DEF Types
  <2>2. CASE a \in Clients
    <3>1. sent[a] <= MaxRequests BY <2>2 DEF Control
    <3> HIDE DEF z
    <3>2. QED BY <1>1, <1>2, <1>3, <2>1, <3>1
  <2>3. CASE a \in Nodes
    <3> DEFINE x == Cardinality(call[a].pending \ {call[a].asked})
               y == calls * K
    <3>1. call[a] \in CallRecords BY <2>3 DEF Types
    <3>2. call[a].pending \ {call[a].asked} \subseteq Params BY <3>1 DEF CallRecords
    <3>3. x \in Nat BY <3>2, CountFacts
    <3>4. sent[a] + x <= y BY <2>3 DEF Control, NodeInv
    <3>5. y \in Nat /\ z \in Nat /\ y <= z BY <1>2
    <3> HIDE DEF x, y, z
    <3>6. QED BY <1>1, <1>3, <2>1, <3>3, <3>4, <3>5
  <2>4. QED BY <2>2, <2>3 DEF Askers
<1>5. \A q \in DOMAIN inbox : inbox[q] \in Seq([id : Ids, from : Askers, key : Keys])
  BY DEF Types, Messages
<1>6. ASSUME NEW n \in Nodes
      PROVE  /\ call[n].pending \subseteq Params
             /\ call[n].asked \in call[n].pending \cup {None}
             /\ (call[n].asked # None) = (waiting[n] # None)
  <2>1. call[n] \in CallRecords /\ NodeInv(n) BY DEF Types, Control
  <2>2. QED BY <2>1 DEF CallRecords, NodeInv
<1> HIDE DEF K, z
<1>7. QED BY <1>4, <1>5, <1>6 DEF Types, TypeOK, Objects

\* The type invariant holds in every behaviour.
THEOREM TypeCorrect == Spec => []TypeOK
<1>1. QED BY ControlInvariant, TypeImplied, PTL

-----------------------------------------------------------------------------
(* Temporary files.                                                        *)

LEMMA TempFilesStep ==
  ASSUME Types, Control, TempFilesRemoved, [Next]_vars
  PROVE  TempFilesRemoved'
<1>1. ASSUME broken \subseteq broken', disk' \subseteq disk,
             \A m \in Nodes : call'[m].number = call[m].number
      PROVE  TempFilesRemoved'
  BY <1>1 DEF TempFilesRemoved
<1>2. \A f \in disk : f.call \in 1 .. calls BY DEF Types
<1>3. CASE UNCHANGED vars BY <1>3 DEF vars, callVars, TempFilesRemoved
<1>4. ASSUME UNCHANGED callVars PROVE TempFilesRemoved' BY <1>4 DEF callVars, TempFilesRemoved
<1>5. ASSUME NEW n \in Called, NEW args \in [Params -> Keys \cup {Plain}], CallStarts(n, args)
      PROVE  TempFilesRemoved'
  <2>1. n \in Nodes /\ NodeInv(n) BY FilesAssumption DEF Control
  <2>2. call[n].number = 0 BY <1>5, <2>1 DEF CallStarts, NodeInv
  <2>3. /\ disk' = disk /\ broken' = broken
        /\ \A m \in Nodes : m # n => call'[m] = call[m]
    BY <1>5 DEF CallStarts, Types
  <2>4. ASSUME NEW f \in disk, NEW m \in Nodes, call[m].number = f.call
        PROVE  call'[m].number = f.call
    <3>1. f.call \in 1 .. calls /\ calls \in Nat BY <1>2, FilesAssumption DEF Types
    <3>2. m # n BY <2>2, <2>4, <3>1
    <3>3. QED BY <2>3, <2>4, <3>2
  <2>5. QED BY <2>3, <2>4 DEF TempFilesRemoved
<1>6. ASSUME NEW n \in Nodes, NEW p \in Params,
             ResolveLocally(n, p) \/ ResolveMisses(n, p) \/ ResolveAnswered(n, p)
      PROVE  TempFilesRemoved'
  <2>1. /\ Settles(n, p)
        /\ UNCHANGED <<disk, broken, failures>> \/ \E o \in Ids : Writing(n, p, o)
    BY <1>6, LocallySettles, MissSettles, AnsweredSettles
  <2>2. \A m \in Nodes : call'[m].number = call[m].number BY <2>1 DEF Settles
  <2>3. CASE UNCHANGED <<disk, broken, failures>> BY <1>1, <2>2, <2>3
  <2>4. ASSUME NEW o \in Ids, Writing(n, p, o) PROVE TempFilesRemoved'
    <3>1. CASE disk' = disk /\ broken' = broken \cup {call[n].number} BY <1>1, <2>2, <3>1
    <3>2. CASE /\ disk' = disk \cup {[call |-> call[n].number, param |-> p,
                                      key |-> call[n].args[p], data |-> o]}
               /\ broken' = broken
      <4> DEFINE new == [call |-> call[n].number, param |-> p,
                         key |-> call[n].args[p], data |-> o]
      <4>1. new.call = call[n].number OBVIOUS
      <4> HIDE DEF new
      <4>2. disk' = disk \cup {new} BY <3>2 DEF new
      <4>3. QED BY <2>2, <3>2, <4>1, <4>2 DEF TempFilesRemoved
    <3>3. QED BY <2>4, <3>1, <3>2 DEF Writing
  <2>5. QED BY <2>1, <2>3, <2>4
<1>7. ASSUME NEW n \in Nodes, NEW p \in Params, ResolveAsks(n, p) PROVE TempFilesRemoved'
  <2>1. call' = [call EXCEPT ![n] = [call[n] EXCEPT !.asked = p]] BY <1>7, AsksControl
  <2>2. call \in [Nodes -> CallRecords] BY DEF Types
  <2> DEFINE s == [call[n] EXCEPT !.asked = p]
  <2>3. s.number = call[n].number BY <2>2 DEF CallRecords
  <2> HIDE DEF s
  <2>4. call' = [call EXCEPT ![n] = s] BY <2>1 DEF s
  <2>5. \A m \in Nodes : call'[m].number = call[m].number BY <2>2, <2>3, <2>4
  <2>6. disk' = disk /\ broken' = broken BY <1>7 DEF ResolveAsks
  <2>7. QED BY <1>1, <2>5, <2>6
<1>8. ASSUME NEW n \in Nodes, HandlerRuns(n) PROVE TempFilesRemoved'
  <2>1. call' = [call EXCEPT ![n] = [call[n] EXCEPT !.phase = "running"]]
    BY <1>8, RunsControl
  <2>2. call \in [Nodes -> CallRecords] BY DEF Types
  <2> DEFINE s == [call[n] EXCEPT !.phase = "running"]
  <2>3. s.number = call[n].number BY <2>2 DEF CallRecords
  <2> HIDE DEF s
  <2>4. call' = [call EXCEPT ![n] = s] BY <2>1 DEF s
  <2>5. \A m \in Nodes : call'[m].number = call[m].number BY <2>2, <2>3, <2>4
  <2>6. disk' = disk /\ broken' = broken BY <1>8 DEF HandlerRuns
  <2>7. QED BY <1>1, <2>5, <2>6
<1>9. ASSUME NEW n \in Nodes, HandlerReturns(n) PROVE TempFilesRemoved'
  <2>1. \A m \in Nodes : m # n => call'[m] = call[m] BY <1>9, ReturnsControl
  <2>2. broken' = broken /\ disk' = IF call[n].number \in broken THEN disk
                                    ELSE {f \in disk : f.call # call[n].number}
    BY <1>9 DEF HandlerReturns
  <2>3. ASSUME NEW f \in disk' PROVE f.call \in broken \/ \E m \in Nodes : call'[m].number = f.call
    <3>1. f \in disk /\ (f.call = call[n].number => f.call \in broken) BY <2>2
    <3>2. QED BY <2>1, <3>1 DEF TempFilesRemoved
  <2>4. QED BY <2>2, <2>3 DEF TempFilesRemoved
<1>10. QED
  BY <1>3, <1>4, <1>5, <1>6, <1>7, <1>8, <1>9, StepCases
     DEF Request, RequestEnds, Served, Expire

\* What is left of a call that is over was left by a failed resolution.
THEOREM FilesCleanedUp == Spec => []TempFilesRemoved
<1>1. Init => TempFilesRemoved BY DEF Init, TempFilesRemoved
<1>2. (Types /\ Control) /\ TempFilesRemoved /\ [Next]_vars => TempFilesRemoved'
  BY TempFilesStep
<1>3. QED BY <1>1, <1>2, ControlInvariant, PTL DEF Spec

-----------------------------------------------------------------------------
(* Files that are got.  The invariant follows an answer back to its        *)
(* request: while an asker waits, it may be told whatever any bucket holds *)
(* of the key it asked for, so whichever node answers, and whenever.       *)

\* What any bucket holds of key k is among what asker a may be told.
MayRead(a, k) == \A b \in Buckets : bucket[b][k] \in possible[a][k]

\* A node asks for the key of the parameter it resolves.
Fits(a, k) == a \in Nodes => k = call[a].args[call[a].asked]

ReadInv(a) ==
  /\ a \in Nodes /\ call[a].phase = "resolving" => \A k \in Keys : MayRead(a, k)
  /\ \A q \in Queues : q[3] = "get" =>
       \A m \in Waiting(q) : m.from = a /\ waiting[a] = m.id =>
         MayRead(a, m.key) /\ Fits(a, m.key)
  /\ reply[a].kind = "file" =>
       reply[a].data \in possible[a][reply[a].key] /\ Fits(a, reply[a].key)
  /\ a \in Nodes => \A f \in disk : f.call = call[a].number => f.data \in possible[a][f.key]

GetInv == \A a \in Askers : ReadInv(a)

LEMMA GetImplied == GetInv => GetIsRegular
BY DEF GetInv, ReadInv, GetIsRegular, Askers

LEMMA WaitingMessages ==
  ASSUME Types, NEW q \in Queues, NEW m \in Waiting(q)
  PROVE  m \in Messages
<1>1. inbox[q] \in Seq(Messages) BY DEF Types
<1>2. \A i \in DOMAIN inbox[q] : inbox[q][i] \in Messages BY <1>1
<1>3. QED BY <1>2 DEF Waiting, ToSet

\* A step of asker a leaves the others what they had.
LEMMA OthersRead ==
  ASSUME Types, Control, Control', GetInv, NEW a \in Askers,
         bucket' = bucket,
         \A x \in Askers : x # a => /\ waiting'[x] = waiting[x]
                                    /\ reply'[x] = reply[x]
                                    /\ possible'[x] = possible[x]
                                    /\ x \in Nodes => call'[x] = call[x],
         \A q \in Queues : q[3] = "get" =>
           \A m \in Waiting(q)' : m \in Waiting(q) \/ m.from = a,
         \A f \in disk' : f \in disk \/ (a \in Nodes /\ f.call = call'[a].number /\ f.call # 0),
         ReadInv(a)'
  PROVE  GetInv'
<1> SUFFICES ASSUME NEW x \in Askers, x # a PROVE ReadInv(x)' BY DEF GetInv
<1>1. ReadInv(x) BY DEF GetInv
<1>2. /\ waiting'[x] = waiting[x] /\ reply'[x] = reply[x] /\ possible'[x] = possible[x]
      /\ x \in Nodes => call'[x] = call[x]
  OBVIOUS
<1>3. \A k : (MayRead(x, k) => MayRead(x, k)') /\ (Fits(x, k) => Fits(x, k)')
  BY <1>2 DEF MayRead, Fits
<1>4. x \in Nodes /\ call'[x].phase = "resolving" => \A k \in Keys : MayRead(x, k)'
  BY <1>1, <1>2, <1>3 DEF ReadInv
<1>5. ASSUME NEW q \in Queues, q[3] = "get", NEW m \in Waiting(q)', m.from = x,
             waiting'[x] = m.id
      PROVE  MayRead(x, m.key)' /\ Fits(x, m.key)'
  <2>1. m \in Waiting(q) BY <1>5
  <2>2. MayRead(x, m.key) /\ Fits(x, m.key) BY <1>1, <1>2, <1>5, <2>1 DEF ReadInv
  <2>3. QED BY <1>3, <2>2
<1>6. (reply[x].kind = "file" =>
         reply[x].data \in possible[x][reply[x].key] /\ Fits(x, reply[x].key))'
  BY <1>1, <1>2 DEF ReadInv, Fits
<1>7. ASSUME x \in Nodes, NEW f \in disk', f.call = call'[x].number
      PROVE  f.data \in possible'[x][f.key]
  <2>1. CASE f \in disk BY <1>1, <1>2, <1>7, <2>1 DEF ReadInv
  <2>2. CASE a \in Nodes /\ f.call = call'[a].number /\ f.call # 0
    BY <1>7, <2>2 DEF Control, NumbersDistinct
  <2>3. QED BY <2>1, <2>2
<1>8. QED BY <1>4, <1>5, <1>6, <1>7 DEF ReadInv

\* A message that an asker no longer waits for, because it waits for another
\* request or for none.
LEMMA NotAwaited ==
  ASSUME Types, Control, NEW q \in Queues, NEW m \in Waiting(q),
         NEW w, w = None \/ w = <<m.from, sent[m.from] + 1>>
  PROVE  w # m.id
<1>1. m \in Messages BY WaitingMessages
<1>2. m.id \in Ids /\ m.id[2] \in Nat BY <1>1, IdFacts DEF Messages
<1>3. m.from \in Askers /\ sent[m.from] \in Nat BY <1>1 DEF Messages, Types
<1>4. m.id[2] <= sent[m.from] BY DEF Control, MessageInv
<1>5. CASE w = None BY <1>2, <1>5, IdFacts
<1>6. CASE w = <<m.from, sent[m.from] + 1>>
  <2>1. w[2] = sent[m.from] + 1 BY <1>6
  <2>2. w[2] # m.id[2] BY <1>2, <1>3, <1>4, <2>1
  <2>3. QED BY <2>2
<1>7. QED BY <1>5, <1>6

\* A node that waits is resolving.
LEMMA WhoWaits ==
  ASSUME Types, Control, NEW n \in Nodes, waiting[n] # None
  PROVE  call[n].phase = "resolving" /\ call[n].asked \in call[n].pending
<1>1. NodeInv(n) BY DEF Control
<1>2. QED BY <1>1 DEF NodeInv

\* A step that changes no request under way, while the buckets change and what
\* may be told follows them.
LEMMA StoresRead ==
  ASSUME Types, Control, GetInv, UNCHANGED <<waiting, call, disk>>,
         \A q \in Queues : Waiting(q)' \subseteq Waiting(q),
         \A a \in Askers, k \in Keys : possible[a][k] \subseteq possible'[a][k],
         \A a \in Askers, k \in Keys :
           (a \in Nodes => call[a].phase = "resolving") /\ MayRead(a, k) => MayRead(a, k)',
         \A a \in Askers :
           \/ reply'[a] = reply[a]
           \/ reply'[a].kind # "file"
           \/ \E k \in Keys : /\ reply'[a].key = k /\ reply'[a].data \in possible'[a][k]
                              /\ Fits(a, k)
  PROVE  GetInv'
<1> SUFFICES ASSUME NEW a \in Askers PROVE ReadInv(a)' BY DEF GetInv
<1>1. ReadInv(a) BY DEF GetInv
<1>2. \A k : Fits(a, k) => Fits(a, k)' BY DEF Fits
<1>3. a \in Nodes /\ call'[a].phase = "resolving" => \A k \in Keys : MayRead(a, k)'
  BY <1>1 DEF ReadInv
<1>4. ASSUME NEW q \in Queues, q[3] = "get", NEW m \in Waiting(q)', m.from = a,
             waiting'[a] = m.id
      PROVE  MayRead(a, m.key)' /\ Fits(a, m.key)'
  <2>1. m \in Waiting(q) /\ waiting[a] = m.id BY <1>4
  <2>2. MayRead(a, m.key) /\ Fits(a, m.key) BY <1>1, <1>4, <2>1 DEF ReadInv
  <2>3. m \in Messages BY <2>1, WaitingMessages
  <2>4. m.key \in Keys /\ waiting[a] # None BY <2>1, <2>3, IdFacts DEF Messages
  <2>5. a \in Nodes => call[a].phase = "resolving" BY <2>4, WhoWaits
  <2>6. QED BY <1>2, <2>2, <2>4, <2>5
<1>5. (reply[a].kind = "file" =>
         reply[a].data \in possible[a][reply[a].key] /\ Fits(a, reply[a].key))'
  <2>1. ASSUME reply'[a] = reply[a], reply[a].kind = "file"
        PROVE  reply[a].data \in possible'[a][reply[a].key] /\ Fits(a, reply[a].key)
    <3>1. reply[a].key \in Keys BY <2>1, ReplyTypes DEF Types
    <3>2. QED BY <1>1, <2>1, <3>1 DEF ReadInv
  <2>2. CASE reply'[a] = reply[a] BY <2>1, <2>2 DEF Fits
  <2>3. CASE reply'[a].kind # "file" BY <2>3
  <2>4. ASSUME NEW k \in Keys, reply'[a].key = k, reply'[a].data \in possible'[a][k], Fits(a, k)
        PROVE  (reply[a].data \in possible[a][reply[a].key] /\ Fits(a, reply[a].key))'
    BY <2>4 DEF Fits
  <2>5. QED BY <2>2, <2>3, <2>4
<1>6. ASSUME a \in Nodes, NEW f \in disk', f.call = call'[a].number
      PROVE  f.data \in possible'[a][f.key]
  <2>1. f \in disk /\ f.call = call[a].number BY <1>6
  <2>2. f.key \in Keys BY <2>1 DEF Types
  <2>3. f.data \in possible[a][f.key] BY <1>1, <1>6, <2>1 DEF ReadInv
  <2>4. QED BY <2>2, <2>3
<1>7. QED BY <1>3, <1>4, <1>5, <1>6 DEF ReadInv

LEMMA GetServed ==
  ASSUME Types, Control, GetInv, NEW q \in Queues, NEW result \in Replies, Served(q, result)
  PROVE  GetInv'
<1> DEFINE m == Message(q)
<1>1. /\ m \in Messages /\ m \in Waiting(q)
      /\ \A r \in Queues : Waiting(r)' \subseteq Waiting(r)
  BY PopFacts DEF Served
<1>2. m.from \in Askers /\ m.key \in Keys /\ m.id \in Objects /\ m.id # None
  BY <1>1, IdFacts DEF Messages, Objects
<1>3. home[q[1]] \in Buckets BY FilesAssumption DEF Types, Queues
<1>4. UNCHANGED <<waiting, call, disk>> BY DEF Served, callVars
<1>5. /\ \A a \in Askers, k \in Keys : possible[a][k] \subseteq possible'[a][k]
      /\ \A a \in Askers, k \in Keys :
           (a \in Nodes => call[a].phase = "resolving") /\ MayRead(a, k) => MayRead(a, k)'
  <2>1. CASE UNCHANGED <<bucket, possible, last>> BY <2>1 DEF MayRead
  <2>2. ASSUME NEW o \in Objects, Store(home[q[1]], m.key, o)
        PROVE  /\ \A a \in Askers, k \in Keys : possible[a][k] \subseteq possible'[a][k]
               /\ \A a \in Askers, k \in Keys :
                    (a \in Nodes => call[a].phase = "resolving") /\ MayRead(a, k) => MayRead(a, k)'
    <3> HIDE DEF m
    <3>1. QED BY <1>2, <1>3, <2>2, StoreFacts DEF MayRead
  <2>3. None \in Objects BY DEF Objects
  <2>4. QED BY <1>2, <2>1, <2>2, <2>3 DEF Served
<1>6. ASSUME NEW a \in Askers
      PROVE  \/ reply'[a] = reply[a]
             \/ reply'[a].kind # "file"
             \/ \E k \in Keys : /\ reply'[a].key = k /\ reply'[a].data \in possible'[a][k]
                                /\ Fits(a, k)
  <2>1. reply'[a] = reply[a] \/ (a = m.from /\ reply'[a] = result /\ waiting[a] = m.id)
    BY <1>1, RespondFacts DEF Served
  <2>2. ASSUME a = m.from, reply'[a] = result, waiting[a] = m.id, result.kind = "file"
        PROVE  \E k \in Keys : /\ reply'[a].key = k /\ reply'[a].data \in possible'[a][k]
                               /\ Fits(a, k)
    <3>1. /\ q[3] = "get" /\ result.key = m.key
          /\ result.data = bucket[home[q[1]]][m.key]
      BY <2>2 DEF Served
    <3>2. ReadInv(a) BY DEF GetInv
    <3>3. MayRead(a, m.key) /\ Fits(a, m.key) BY <1>1, <2>2, <3>1, <3>2 DEF ReadInv
    <3>4. result.data \in possible[a][m.key] BY <1>3, <3>1, <3>3 DEF MayRead
    <3>5. result.data \in possible'[a][m.key] BY <1>2, <1>5, <3>4
    <3>6. QED BY <1>2, <2>2, <3>1, <3>3, <3>5
  <2>3. QED BY <2>1, <2>2
<1>7. QED BY <1>1, <1>4, <1>5, <1>6, StoresRead

LEMMA GetExpire ==
  ASSUME Types, Control, GetInv, NEW b \in Buckets, NEW k \in Keys, Expire(b, k)
  PROVE  GetInv'
<1>1. Store(b, k, None) /\ None \in Objects BY DEF Expire, Objects
<1>2. /\ UNCHANGED <<waiting, call, disk, inbox, reply>>
      /\ \A q \in Queues : Waiting(q)' \subseteq Waiting(q)
  BY DEF Expire, askVars, callVars, Waiting
<1>3. /\ \A a \in Askers, j \in Keys : possible[a][j] \subseteq possible'[a][j]
      /\ \A a \in Askers, j \in Keys :
           (a \in Nodes => call[a].phase = "resolving") /\ MayRead(a, j) => MayRead(a, j)'
  BY <1>1, StoreFacts DEF MayRead
<1>4. QED BY <1>2, <1>3, StoresRead

\* What the buckets hold when an asker starts to ask is what it may be told.
LEMMA StartsReading ==
  ASSUME Types, NEW a \in Askers, StartsToAsk(a), bucket' = bucket
  PROVE  /\ \A k \in Keys : MayRead(a, k)'
         /\ \A x \in Askers : x # a => possible'[x] = possible[x]
<1>1. /\ bucket \in [Buckets -> [Keys -> Objects]]
      /\ possible \in [Askers -> [Keys -> SUBSET Objects]]
  BY DEF Types
<1> DEFINE f == [k \in Keys |-> Held(k)]
<1>2. possible' = [possible EXCEPT ![a] = f] BY DEF StartsToAsk
<1>3. \A k \in Keys : f[k] = Held(k) OBVIOUS
<1> HIDE DEF f
<1>4. possible'[a] = f /\ \A x \in Askers : x # a => possible'[x] = possible[x]
  BY <1>1, <1>2
<1>5. QED BY <1>3, <1>4 DEF MayRead, Held

LEMMA GetRequest ==
  ASSUME Types, Control, GetInv, NEW c \in Clients, NEW r \in Requests, NEW k \in Keys,
         Request(c, r[1], r[2], k)
  PROVE  GetInv'
<1>1. /\ c \in Askers /\ c \notin Nodes
      /\ sent[c] + 1 \in Numbers
      /\ \E to : Send(c, r[1], r[2], k, to)
  BY RequestFacts
<1>2. /\ waiting \in [Askers -> Objects] /\ reply \in [Askers -> Replies]
      /\ sent \in [Askers -> Nat]
      /\ waiting' = [waiting EXCEPT ![c] = NextId(c)]
      /\ reply' = [reply EXCEPT ![c] = NoReply]
      /\ \A q \in Queues : \A m \in Waiting(q)' :
           \/ m \in Waiting(q)
           \/ /\ m = [id |-> NextId(c), from |-> c, key |-> k]
              /\ q[3] = r[2]
  <2>1. PICK to : Send(c, r[1], r[2], k, to) BY <1>1
  <2> DEFINE via == r[1]
             op == r[2]
  <2>2. Send(c, via, op, k, to) BY <2>1
  <2> HIDE DEF via, op
  <2>3. /\ waiting' = [waiting EXCEPT ![c] = NextId(c)]
        /\ reply' = [reply EXCEPT ![c] = NoReply]
        /\ \A q \in Queues : \A m \in Waiting(q)' :
             \/ m \in Waiting(q)
             \/ /\ m = [id |-> NextId(c), from |-> c, key |-> k]
                /\ q[2] = via /\ q[3] = op
    BY <1>1, <2>2, SendFacts
  <2>4. QED BY <2>3 DEF Types, op
<1>3. UNCHANGED <<bucket, call, disk>> BY DEF Request, callVars
<1>4. Control' BY RequestControl
<1>5. \A x \in Askers : x # c => possible'[x] = possible[x]
  BY <1>1, <1>3, StartsReading DEF Request
<1>6. r[2] = "get" => \A j \in Keys : MayRead(c, j)'
  BY <1>1, <1>3, StartsReading DEF Request
<1>7. ReadInv(c)'
  <2>1. reply'[c].kind # "file" BY <1>1, <1>2, ReplyTypes
  <2>2. ASSUME NEW q \in Queues, q[3] = "get", NEW m \in Waiting(q)', m.from = c,
               waiting'[c] = m.id
        PROVE  MayRead(c, m.key)' /\ Fits(c, m.key)'
    <3>1. waiting'[c] = <<c, sent[c] + 1>> BY <1>1, <1>2 DEF NextId
    <3>2. m \notin Waiting(q) BY <2>2, <3>1, NotAwaited
    <3>3. m = [id |-> NextId(c), from |-> c, key |-> k] /\ q[3] = r[2] BY <1>2, <2>2, <3>2
    <3>4. m.key = k BY <3>3
    <3>5. QED BY <1>1, <1>6, <2>2, <3>3, <3>4 DEF Fits
  <2>3. QED BY <1>1, <2>1, <2>2 DEF ReadInv
<1>8. \A x \in Askers : x # c => /\ waiting'[x] = waiting[x]
                                 /\ reply'[x] = reply[x]
                                 /\ possible'[x] = possible[x]
                                 /\ x \in Nodes => call'[x] = call[x]
  BY <1>1, <1>2, <1>3, <1>5
<1>9. \A q \in Queues : \A m \in Waiting(q)' : m \in Waiting(q) \/ m.from = c
  BY <1>2
<1>10. QED BY <1>1, <1>3, <1>4, <1>7, <1>8, <1>9, OthersRead

LEMMA GetEnds ==
  ASSUME Types, Control, GetInv, NEW c \in Clients, RequestEnds(c)
  PROVE  GetInv'
<1>1. c \in Askers /\ c \notin Nodes BY FilesAssumption DEF Askers
<1>2. /\ waiting \in [Askers -> Objects] /\ reply \in [Askers -> Replies]
      /\ possible \in [Askers -> [Keys -> SUBSET Objects]]
      /\ waiting' = [waiting EXCEPT ![c] = None]
      /\ reply' = [reply EXCEPT ![c] = NoReply]
      /\ possible' = [possible EXCEPT ![c] = [k \in Keys |-> {}]]
      /\ UNCHANGED <<bucket, inbox, call, disk>>
  BY DEF Types, RequestEnds, storeVars, callVars
<1>3. Control' BY EndsControl
<1>4. ReadInv(c)'
  <2>1. reply'[c].kind # "file" /\ waiting'[c] = None BY <1>1, <1>2, ReplyTypes
  <2>2. ASSUME NEW q \in Queues, NEW m \in Waiting(q)' PROVE waiting'[c] # m.id
    <3>1. m \in Waiting(q) BY <1>2 DEF Waiting
    <3>2. QED BY <2>1, <3>1, NotAwaited
  <2>3. QED BY <1>1, <2>1, <2>2 DEF ReadInv
<1>5. \A x \in Askers : x # c => /\ waiting'[x] = waiting[x]
                                 /\ reply'[x] = reply[x]
                                 /\ possible'[x] = possible[x]
                                 /\ x \in Nodes => call'[x] = call[x]
  BY <1>1, <1>2
<1>6. \A q \in Queues : Waiting(q)' = Waiting(q) BY <1>2 DEF Waiting
<1>7. QED BY <1>1, <1>2, <1>3, <1>4, <1>5, <1>6, OthersRead

\* A step of the call of a node that waits for no file after it.
LEMMA CallReads ==
  ASSUME Types, Control, Control', GetInv, NEW n \in Nodes,
         UNCHANGED <<bucket, inbox>>,
         \A x \in Askers : x # n => /\ waiting'[x] = waiting[x]
                                    /\ reply'[x] = reply[x]
                                    /\ possible'[x] = possible[x]
                                    /\ x \in Nodes => call'[x] = call[x],
         waiting'[n] = None, reply'[n] = NoReply,
         call'[n].phase = "resolving" => \A k \in Keys : MayRead(n, k)',
         \A f \in disk' : f \in disk \/ (f.call = call'[n].number /\ f.call # 0),
         \A f \in disk' : f.call = call'[n].number => f.data \in possible'[n][f.key]
  PROVE  GetInv'
<1>1. n \in Askers BY DEF Askers
<1>2. \A q \in Queues : Waiting(q)' = Waiting(q) BY DEF Waiting
<1>3. ReadInv(n)'
  <2>1. reply'[n].kind # "file" BY ReplyTypes
  <2>2. ASSUME NEW q \in Queues, NEW m \in Waiting(q)' PROVE waiting'[n] # m.id
    <3>1. m \in Waiting(q) BY <1>2
    <3>2. QED BY <3>1, NotAwaited
  <2>3. QED BY <2>1, <2>2 DEF ReadInv
<1>4. QED BY <1>1, <1>2, <1>3, OthersRead

LEMMA GetSettled ==
  ASSUME Types, Control, GetInv, NEW n \in Nodes, NEW p, Resolving(n, p), Settles(n, p),
         \/ UNCHANGED <<disk, broken, failures>>
         \/ \E o \in Ids : Writing(n, p, o) /\ o \in possible[n][call[n].args[p]]
  PROVE  GetInv'
<1>1. n \in Askers /\ call[n].number \in 1 .. calls /\ call[n].phase = "resolving"
  BY PendingFacts
<1>2. Control'
  <2>1. UNCHANGED <<disk, broken, failures>> \/ \E o \in Ids : Writing(n, p, o) OBVIOUS
  <2>2. QED BY <2>1, SettledControl
<1>3. /\ waiting \in [Askers -> Objects] /\ reply \in [Askers -> Replies]
      /\ waiting' = [waiting EXCEPT ![n] = None]
      /\ reply' = [reply EXCEPT ![n] = NoReply]
      /\ UNCHANGED <<bucket, inbox, possible>>
      /\ \A m \in Nodes : m # n => call'[m] = call[m]
      /\ call'[n].number = call[n].number
  BY DEF Types, Settles
<1>4. ReadInv(n) BY <1>1 DEF GetInv
<1>5. \A k \in Keys : MayRead(n, k)' BY <1>1, <1>3, <1>4 DEF ReadInv, MayRead
<1>6. /\ \A f \in disk' : f \in disk \/ (f.call = call'[n].number /\ f.call # 0)
      /\ \A f \in disk' : f.call = call'[n].number => f.data \in possible'[n][f.key]
  <2>1. \A f \in disk : f.call = call'[n].number => f.data \in possible'[n][f.key]
    BY <1>3, <1>4 DEF ReadInv
  <2>2. CASE disk' = disk BY <2>1, <2>2
  <2>3. ASSUME NEW o \in Ids, o \in possible[n][call[n].args[p]],
               disk' = disk \cup {[call |-> call[n].number, param |-> p,
                                   key |-> call[n].args[p], data |-> o]}
        PROVE  /\ \A f \in disk' : f \in disk \/ (f.call = call'[n].number /\ f.call # 0)
               /\ \A f \in disk' : f.call = call'[n].number => f.data \in possible'[n][f.key]
    <3> DEFINE new == [call |-> call[n].number, param |-> p,
                       key |-> call[n].args[p], data |-> o]
    <3>1. new.call = call[n].number /\ new.key = call[n].args[p] /\ new.data = o OBVIOUS
    <3> HIDE DEF new
    <3>2. disk' = disk \cup {new} BY <2>3 DEF new
    <3>3. new.call # 0 BY <1>1, <3>1, FilesAssumption DEF Types
    <3>4. new.data \in possible'[n][new.key] BY <1>3, <2>3, <3>1
    <3>5. QED BY <1>3, <2>1, <3>1, <3>2, <3>3, <3>4
  <2>4. QED BY <2>2, <2>3 DEF Writing
<1>7. \A x \in Askers : x # n => /\ waiting'[x] = waiting[x]
                                 /\ reply'[x] = reply[x]
                                 /\ possible'[x] = possible[x]
                                 /\ x \in Nodes => call'[x] = call[x]
  BY <1>3
<1>8. waiting'[n] = None /\ reply'[n] = NoReply BY <1>1, <1>3
<1>9. QED BY <1>2, <1>3, <1>5, <1>6, <1>7, <1>8, CallReads

LEMMA GetLocally ==
  ASSUME Types, Control, GetInv, NEW n \in Nodes, NEW p, ResolveLocally(n, p)
  PROVE  GetInv'
<1> DEFINE o == bucket[home[n]][call[n].args[p]]
<1>1. o \in Ids /\ Settles(n, p) /\ Writing(n, p, o) BY LocallySettles
<1>2. Resolving(n, p) BY DEF ResolveLocally
<1>3. call[n].args[p] \in Keys /\ n \in Askers /\ call[n].phase = "resolving"
  BY <1>2, PendingFacts
<1>4. home[n] \in Buckets BY FilesAssumption DEF Types
<1>5. ReadInv(n) BY <1>3 DEF GetInv
<1>6. o \in possible[n][call[n].args[p]] BY <1>3, <1>4, <1>5 DEF ReadInv, MayRead
<1> HIDE DEF o
<1>7. QED BY <1>1, <1>2, <1>6, GetSettled

LEMMA GetAnswered ==
  ASSUME Types, Control, GetInv, NEW n \in Nodes, NEW p, ResolveAnswered(n, p)
  PROVE  GetInv'
<1>1. /\ reply[n].data \in Ids
      /\ Settles(n, p) /\ Writing(n, p, reply[n].data)
  BY AnsweredSettles
<1>2. Resolving(n, p) /\ call[n].asked = p /\ reply[n].kind = "file" BY DEF ResolveAnswered
<1>3. n \in Askers BY DEF Askers
<1>4. ReadInv(n) BY <1>3 DEF GetInv
<1>5. reply[n].data \in possible[n][call[n].args[p]] BY <1>2, <1>4 DEF ReadInv, Fits
<1>6. QED BY <1>1, <1>2, <1>5, GetSettled

LEMMA GetMisses ==
  ASSUME Types, Control, GetInv, NEW n \in Nodes, NEW p, ResolveMisses(n, p)
  PROVE  GetInv'
<1>1. Resolving(n, p) BY DEF ResolveMisses
<1>2. QED BY <1>1, MissSettles, GetSettled

LEMMA GetAsks ==
  ASSUME Types, Control, GetInv, NEW n \in Nodes, NEW p, ResolveAsks(n, p)
  PROVE  GetInv'
<1> DEFINE k == call[n].args[p]
           s == [call[n] EXCEPT !.asked = p]
<1>1. Resolving(n, p) /\ Send(n, "raw", "get", k, Serving) BY DEF ResolveAsks
<1>2. k \in Keys /\ n \in Askers /\ call[n].phase = "resolving" /\ call[n] \in CallRecords
  BY <1>1, PendingFacts
<1>3. Control' /\ sent[n] + 1 \in Numbers /\ call' = [call EXCEPT ![n] = s]
  BY AsksControl
<1>4. s.asked = p /\ s.args = call[n].args /\ s.number = call[n].number
  BY <1>2 DEF CallRecords
<1> HIDE DEF s
<1>5. call'[n] = s /\ \A m \in Nodes : m # n => call'[m] = call[m] BY <1>3 DEF Types
<1>6. UNCHANGED <<bucket, disk, possible>> BY DEF ResolveAsks
<1>7. /\ waiting \in [Askers -> Objects] /\ reply \in [Askers -> Replies]
      /\ sent \in [Askers -> Nat]
  BY DEF Types
<1>8. /\ waiting' = [waiting EXCEPT ![n] = NextId(n)]
      /\ reply' = [reply EXCEPT ![n] = NoReply]
      /\ \A q \in Queues : \A m \in Waiting(q)' :
           m \in Waiting(q) \/ m = [id |-> NextId(n), from |-> n, key |-> k]
  <2> HIDE DEF k
  <2>1. QED BY <1>1, <1>2, <1>3, SendFacts
<1>9. ReadInv(n) BY <1>2 DEF GetInv
<1>10. \A j \in Keys : MayRead(n, j)' BY <1>2, <1>6, <1>9 DEF ReadInv, MayRead
<1>11. ReadInv(n)'
  <2>1. reply'[n].kind # "file" BY <1>2, <1>7, <1>8, ReplyTypes
  <2>2. ASSUME NEW q \in Queues, q[3] = "get", NEW m \in Waiting(q)', m.from = n,
               waiting'[n] = m.id
        PROVE  MayRead(n, m.key)' /\ Fits(n, m.key)'
    <3>1. waiting'[n] = <<n, sent[n] + 1>> BY <1>2, <1>7, <1>8 DEF NextId
    <3>2. m \notin Waiting(q) BY <2>2, <3>1, NotAwaited
    <3>3. m = [id |-> NextId(n), from |-> n, key |-> k] BY <1>8, <2>2, <3>2
    <3>4. m.key = k BY <3>3
    <3>5. call'[n].args[call'[n].asked] = k BY <1>4, <1>5
    <3> HIDE DEF k
    <3>6. QED BY <1>2, <1>10, <3>4, <3>5 DEF Fits
  <2>3. ASSUME NEW f \in disk', f.call = call'[n].number PROVE f.data \in possible'[n][f.key]
    BY <1>4, <1>5, <1>6, <1>9, <2>3 DEF ReadInv
  <2>4. QED BY <1>10, <2>1, <2>2, <2>3 DEF ReadInv
<1>12. \A x \in Askers : x # n => /\ waiting'[x] = waiting[x]
                                  /\ reply'[x] = reply[x]
                                  /\ possible'[x] = possible[x]
                                  /\ x \in Nodes => call'[x] = call[x]
  BY <1>5, <1>6, <1>7, <1>8
<1>13. \A q \in Queues : \A m \in Waiting(q)' : m \in Waiting(q) \/ m.from = n BY <1>8
<1>14. QED BY <1>2, <1>3, <1>6, <1>11, <1>12, <1>13, OthersRead

\* A node that has asked for nothing.
LEMMA AsksNothing ==
  ASSUME Types, Control, NEW n \in Nodes, call[n].pending = {}
  PROVE  waiting[n] = None /\ reply[n] = NoReply
<1>1. NodeInv(n) BY DEF Control
<1>2. call[n].asked = None BY <1>1 DEF NodeInv
<1>3. n \in Askers /\ reply \in [Askers -> Replies] BY DEF Types, Askers
<1>4. reply = [reply EXCEPT ![n] = NoReply] BY <1>2, NothingAsked
<1>5. reply[n] = NoReply BY <1>3, <1>4
<1>6. QED BY <1>1, <1>2, <1>5 DEF NodeInv

LEMMA GetStarts ==
  ASSUME Types, Control, GetInv, NEW n \in Called, NEW args \in [Params -> Keys \cup {Plain}],
         CallStarts(n, args)
  PROVE  GetInv'
<1>1. n \in Nodes /\ n \in Askers /\ calls \in Nat BY FilesAssumption DEF Askers, Types
<1>2. Control' BY StartsControl
<1>3. /\ UNCHANGED <<bucket, inbox, waiting, reply, disk>>
      /\ StartsToAsk(n)
      /\ call[n].phase = "idle"
      /\ \A m \in Nodes : m # n => call'[m] = call[m]
      /\ call'[n].number = calls + 1
  BY <1>1 DEF CallStarts, storeVars, askVars, Types
<1>4. waiting[n] = None /\ reply[n] = NoReply
  <2>1. call[n].pending = {} BY <1>1, <1>3 DEF Control, NodeInv
  <2>2. QED BY <1>1, <2>1, AsksNothing
<1>5. /\ \A k \in Keys : MayRead(n, k)'
      /\ \A x \in Askers : x # n => possible'[x] = possible[x]
  BY <1>1, <1>3, StartsReading
<1>6. \A f \in disk' : f \in disk /\ f.call # call'[n].number
  <2>1. \A f \in disk : f.call \in 1 .. calls BY DEF Types
  <2>2. QED BY <1>1, <1>3, <2>1
<1>7. \A x \in Askers : x # n => /\ waiting'[x] = waiting[x]
                                 /\ reply'[x] = reply[x]
                                 /\ possible'[x] = possible[x]
                                 /\ x \in Nodes => call'[x] = call[x]
  BY <1>3, <1>5
<1>8. QED BY <1>1, <1>2, <1>3, <1>4, <1>5, <1>6, <1>7, CallReads

LEMMA GetRuns ==
  ASSUME Types, Control, GetInv, NEW n \in Nodes, HandlerRuns(n)
  PROVE  GetInv'
<1> DEFINE s == [call[n] EXCEPT !.phase = "running"]
<1>1. n \in Askers /\ call \in [Nodes -> CallRecords] /\ call[n] \in CallRecords
  BY DEF Askers, Types
<1>2. Control' /\ call' = [call EXCEPT ![n] = s] BY RunsControl
<1>3. s.phase = "running" /\ s.number = call[n].number BY <1>1 DEF CallRecords
<1> HIDE DEF s
<1>4. call'[n] = s /\ \A m \in Nodes : m # n => call'[m] = call[m] BY <1>1, <1>2
<1>5. UNCHANGED <<bucket, inbox, waiting, reply, disk, possible>> /\ call[n].pending = {}
  BY DEF HandlerRuns, storeVars, askVars
<1>6. waiting[n] = None /\ reply[n] = NoReply BY <1>5, AsksNothing
<1>7. \A f \in disk' : f.call = call'[n].number => f.data \in possible'[n][f.key]
  <2>1. ReadInv(n) BY <1>1 DEF GetInv
  <2>2. QED BY <1>3, <1>4, <1>5, <2>1 DEF ReadInv
<1>8. call'[n].phase # "resolving" BY <1>3, <1>4
<1>9. QED BY <1>2, <1>4, <1>5, <1>6, <1>7, <1>8, CallReads

LEMMA GetReturns ==
  ASSUME Types, Control, GetInv, NEW n \in Nodes, HandlerReturns(n)
  PROVE  GetInv'
<1>1. n \in Askers /\ possible \in [Askers -> [Keys -> SUBSET Objects]] BY DEF Askers, Types
<1>2. /\ Control'
      /\ call'[n] = Idle /\ \A m \in Nodes : m # n => call'[m] = call[m]
  BY ReturnsControl
<1>3. call'[n].phase = "idle" /\ call'[n].number = 0 BY <1>2 DEF Idle
<1>4. /\ UNCHANGED <<bucket, inbox, waiting, reply>>
      /\ disk' \subseteq disk
      /\ possible' = [possible EXCEPT ![n] = [k \in Keys |-> {}]]
      /\ call[n].phase = "running"
  BY DEF HandlerReturns, storeVars, askVars
<1>5. waiting[n] = None /\ reply[n] = NoReply
  <2>1. call[n].pending = {} BY <1>4 DEF Control, NodeInv
  <2>2. QED BY <2>1, AsksNothing
<1>6. \A f \in disk' : f \in disk /\ f.call # call'[n].number
  <2>1. \A f \in disk : f.call \in 1 .. calls BY DEF Types
  <2>2. calls \in Nat BY FilesAssumption DEF Types
  <2>3. \A f \in disk : f.call # 0 BY <2>1, <2>2
  <2>4. QED BY <1>3, <1>4, <2>3
<1>7. \A x \in Askers : x # n => /\ waiting'[x] = waiting[x]
                                 /\ reply'[x] = reply[x]
                                 /\ possible'[x] = possible[x]
                                 /\ x \in Nodes => call'[x] = call[x]
  BY <1>1, <1>2, <1>4
<1>8. QED BY <1>2, <1>3, <1>4, <1>5, <1>6, <1>7, CallReads

LEMMA GetStep ==
  ASSUME Types, Control, GetInv, [Next]_vars
  PROVE  GetInv'
<1>1. CASE UNCHANGED vars
  <2>1. UNCHANGED <<bucket, inbox, waiting, reply, call, disk, possible>>
    BY <1>1 DEF vars, storeVars, askVars, callVars
  <2>2. \A a \in Askers : ReadInv(a)' BY <2>1 DEF GetInv, ReadInv, MayRead, Fits, Waiting
  <2>3. QED BY <2>2 DEF GetInv
<1>2. QED BY <1>1, StepCases, GetRequest, GetEnds, GetServed, GetExpire, GetStarts,
             GetLocally, GetAsks, GetMisses, GetAnswered, GetRuns, GetReturns

\* A file that is got was under the key asked for since it was asked for.
THEOREM GetsAreRegular == Spec => []GetIsRegular
<1>1. Init => GetInv
  <2> SUFFICES ASSUME Init, NEW a \in Askers PROVE ReadInv(a) BY DEF GetInv
  <2>1. Types BY InitControl
  <2>2. reply[a].kind # "file" /\ disk = {} BY ReplyTypes DEF Init
  <2>3. a \in Nodes => call[a].phase # "resolving" BY DEF Init, Idle
  <2>4. \A q \in Queues : Waiting(q) = {} BY DEF Init, Queues, Waiting, ToSet
  <2>5. QED BY <2>2, <2>3, <2>4 DEF ReadInv
<1>2. (Types /\ Control) /\ GetInv /\ [Next]_vars => GetInv' BY GetStep
<1>3. QED BY <1>1, <1>2, ControlInvariant, GetImplied, PTL DEF Spec

-----------------------------------------------------------------------------
(* Writes.  When no earlier write of a key was under way, every copy that  *)
(* still waits is one of the last write, so executing it again changes     *)
(* nothing.  A bucket that is nobody's stays empty, so what expires is in  *)
(* the bucket of the nodes.                                                *)

HomelessEmpty ==
  \A b \in Buckets : (\A n \in Nodes : home[n] # b) => \A k \in Keys : bucket[b][k] = None

CopiesOfLast(k) ==
  ~last[k].raced =>
    \A q \in Queues : q[3] \in Writes =>
      \A m \in Waiting(q) : m.key = k =>
        m.id = last[k].id /\ (last[k].op # "expired" => q[3] = last[k].op)

\* In a bucket of the nodes: what is left of an object that expired, and of a
\* write that was acknowledged.
Kept(k, n) ==
  ~last[k].raced =>
    /\ last[k].op = "expired" => bucket[home[n]][k] \in {last[k].id, None}
    /\ last[k].acked => Stands(last[k], bucket[home[n]][k])

WriteInv ==
  /\ HomelessEmpty
  /\ \A k \in Keys : CopiesOfLast(k)
  /\ Shared => \A k \in Keys, n \in Nodes : Kept(k, n)

LEMMA WriteImplied == WriteInv => AckedWriteStays
BY DEF WriteInv, Kept, AckedWriteStays

LEMMA OpTypes == ASSUME Types, NEW k \in Keys PROVE last[k].op \in {"put", "delete", "expired"}
BY DEF Types, Writers, Writes

\* A step that writes nothing.
LEMMA NothingWritten ==
  ASSUME Types, WriteInv, UNCHANGED <<home, bucket, last>>,
         \A q \in Queues : q[3] \in Writes => Waiting(q)' \subseteq Waiting(q)
  PROVE  WriteInv'
<1>1. HomelessEmpty' BY DEF WriteInv, HomelessEmpty
<1>2. \A k \in Keys : CopiesOfLast(k)' BY DEF WriteInv, CopiesOfLast
<1>3. Shared' => \A k \in Keys, n \in Nodes : Kept(k, n)' BY DEF WriteInv, Shared, Kept, Stands
<1>4. QED BY <1>1, <1>2, <1>3 DEF WriteInv

LEMMA WriteRequested ==
  ASSUME Types, Control, WriteInv, NEW c \in Clients, NEW r \in Requests, NEW k \in Keys,
         Request(c, r[1], r[2], k)
  PROVE  WriteInv'
<1>1. /\ c \in Askers
      /\ sent[c] + 1 \in Numbers
      /\ \E to : Send(c, r[1], r[2], k, to)
  BY RequestFacts
<1> DEFINE via == r[1]
           op == r[2]
           new == [id |-> NextId(c), from |-> c, key |-> k]
<1>2. \A q \in Queues : \A m \in Waiting(q)' : m \in Waiting(q) \/ (m = new /\ q[3] = op)
  <2>1. PICK to : Send(c, via, op, k, to) BY <1>1
  <2> HIDE DEF via, op
  <2>2. \A q \in Queues : \A m \in Waiting(q)' :
          \/ m \in Waiting(q)
          \/ /\ m = [id |-> NextId(c), from |-> c, key |-> k]
             /\ q[2] = via /\ q[3] = op
    BY <1>1, <2>1, SendFacts
  <2>3. QED BY <2>2
<1>3. home' = home /\ bucket' = bucket BY DEF Request
<1>4. new.key = k /\ new.id = NextId(c) OBVIOUS
<1> HIDE DEF new
<1>5. CASE op \notin Writes
  <2>1. last' = last BY <1>5 DEF Request
  <2>2. \A q \in Queues : q[3] \in Writes => Waiting(q)' \subseteq Waiting(q) BY <1>2, <1>5
  <2>3. QED BY <1>3, <2>1, <2>2, NothingWritten
<1>6. CASE op \in Writes
  <2> DEFINE w == [id |-> NextId(c), op |-> op, acked |-> FALSE, raced |-> WriteUnderWay(k)]
  <2>1. last \in [Keys -> Writers] BY DEF Types
  <2>2. last' = [last EXCEPT ![k] = w] BY <1>6 DEF Request
  <2>3. /\ w.id = NextId(c) /\ w.op = op /\ w.acked = FALSE /\ w.op # "expired"
        /\ ~w.raced => ~WriteUnderWay(k)
    BY <1>6 DEF Writes
  <2> HIDE DEF w, op
  <2>4. last'[k] = w /\ \A j \in Keys : j # k => last'[j] = last[j] BY <2>1, <2>2
  <2>5. HomelessEmpty' BY <1>3 DEF WriteInv, HomelessEmpty
  <2>6. ASSUME NEW j \in Keys PROVE CopiesOfLast(j)'
    <3>1. CASE j # k
      <4>1. \A q \in Queues : \A m \in Waiting(q)' : m.key = j => m \in Waiting(q)
        BY <1>2, <1>4, <3>1
      <4>2. CopiesOfLast(j) /\ last'[j] = last[j] BY <2>4, <3>1 DEF WriteInv
      <4>3. QED BY <4>1, <4>2 DEF CopiesOfLast
    <3>2. CASE j = k
      <4> SUFFICES ASSUME ~w.raced, NEW q \in Queues, q[3] \in Writes,
                          NEW m \in Waiting(q)', m.key = k
                   PROVE  m.id = w.id /\ q[3] = w.op
        BY <2>4, <3>2 DEF CopiesOfLast
      <4>1. DOMAIN inbox = Queues BY DEF Types
      <4>2. m \notin Waiting(q) BY <2>3, <4>1 DEF WriteUnderWay, Waiting
      <4>3. QED BY <1>2, <1>4, <2>3, <4>2
    <3>3. QED BY <3>1, <3>2
  <2>7. ASSUME Shared', NEW j \in Keys, NEW n \in Nodes PROVE Kept(j, n)'
    <3>1. CASE j # k
      <4>1. Shared BY <1>3, <2>7 DEF Shared
      <4>2. Kept(j, n) BY <4>1 DEF WriteInv
      <4>3. QED BY <1>3, <2>4, <3>1, <4>2 DEF Kept, Stands
    <3>2. CASE j = k BY <2>3, <2>4, <3>2 DEF Kept
    <3>3. QED BY <3>1, <3>2
  <2>8. QED BY <2>5, <2>6, <2>7 DEF WriteInv
<1>7. QED BY <1>5, <1>6

\* A copy of a write is executed: o is the object it leaves.
LEMMA WriteServed ==
  ASSUME Types, WriteInv, NEW q \in Queues, NEW result \in Replies, Served(q, result)
  PROVE  WriteInv'
<1> DEFINE m == Message(q)
           b == home[q[1]]
<1>1. /\ m \in Messages /\ m \in Waiting(q)
      /\ \A r \in Queues : Waiting(r)' \subseteq Waiting(r)
  BY PopFacts DEF Served
<1>2. m.key \in Keys /\ m.id \in Objects BY <1>1 DEF Messages, Objects
<1>3. q[1] \in Nodes /\ b \in Buckets BY FilesAssumption DEF Types, Queues
<1>4. home' = home BY DEF Served
<1>5. CASE UNCHANGED <<bucket, possible, last>> BY <1>1, <1>4, <1>5, NothingWritten
<1>6. ASSUME NEW o \in Objects, Store(b, m.key, o), Acknowledged(m), q[3] \in Writes,
             q[3] = "put" => o = m.id, q[3] = "delete" => o = None
      PROVE  WriteInv'
  <2> HIDE DEF m, b
  <2>1. /\ bucket'[b][m.key] = o
        /\ \A c \in Buckets, j \in Keys : c # b \/ j # m.key => bucket'[c][j] = bucket[c][j]
    BY <1>2, <1>3, <1>6, StoreFacts
  <2>2. \A k \in Keys : /\ last'[k].id = last[k].id
                        /\ last'[k].op = last[k].op
                        /\ last'[k].raced = last[k].raced
                        /\ last'[k].acked => last[k].acked \/ (k = m.key /\ last[k].id = m.id)
    BY <1>1, <1>6, AcknowledgedFacts
  <2>3. \A k \in Keys : k # m.key => last'[k] = last[k] BY <1>1, <1>6, AcknowledgedFacts
  <2>4. HomelessEmpty'
    <3> SUFFICES ASSUME NEW c \in Buckets, \A n \in Nodes : home[n] # c, NEW k \in Keys
                 PROVE  bucket'[c][k] = None
      BY <1>4 DEF HomelessEmpty
    <3>1. c # b BY <1>3 DEF b
    <3>2. QED BY <2>1, <3>1 DEF WriteInv, HomelessEmpty
  <2>5. ASSUME NEW k \in Keys PROVE CopiesOfLast(k)'
    <3>1. CopiesOfLast(k) BY DEF WriteInv
    <3>2. QED BY <1>1, <2>2, <3>1 DEF CopiesOfLast
  <2>6. ASSUME Shared', NEW k \in Keys, NEW n \in Nodes PROVE Kept(k, n)'
    <3>1. Shared BY <1>4, <2>6 DEF Shared
    <3>2. home[n] = b /\ home[n] \in Buckets BY <1>3, <3>1 DEF Shared, b
    <3>3. Kept(k, n) BY <3>1 DEF WriteInv
    <3>4. CASE k # m.key
      <4>1. bucket'[b][k] = bucket[b][k] BY <1>3, <2>1, <3>4
      <4>2. QED BY <1>4, <2>3, <3>2, <3>3, <3>4, <4>1 DEF Kept, Stands
    <3>5. CASE k = m.key
      <4> SUFFICES ASSUME ~last'[k].raced
                   PROVE  /\ last'[k].op = "expired" => o \in {last'[k].id, None}
                          /\ Stands(last[k], bucket[home[n]][k])'
        BY <1>4, <2>1, <3>2, <3>5 DEF Kept
      <4>1. m.id = last[k].id /\ (last[k].op # "expired" => q[3] = last[k].op)
        <5>1. CopiesOfLast(k) BY DEF WriteInv
        <5>2. QED BY <1>1, <1>6, <2>2, <3>5, <5>1 DEF CopiesOfLast
      <4>2. last'[k].id = last[k].id /\ last'[k].op = last[k].op BY <2>2
      <4>3. last[k].op \in {"put", "delete", "expired"} BY OpTypes
      <4>4. bucket'[home'[n]][k] = o BY <1>4, <2>1, <3>2, <3>5
      <4>5. o \in {last'[k].id, None} BY <1>6, <4>1, <4>2 DEF Writes
      <4>6. /\ last'[k].op = "put" => o = last'[k].id
            /\ last'[k].op = "delete" => o = None
        BY <1>6, <4>1, <4>2
      <4>7. QED BY <4>2, <4>3, <4>4, <4>5, <4>6 DEF Stands
    <3>6. QED BY <3>4, <3>5
  <2>7. QED BY <2>4, <2>5, <2>6 DEF WriteInv
<1>7. None \in Objects BY DEF Objects
<1>8. ASSUME q[3] = "put", Store(b, m.key, m.id), Acknowledged(m) PROVE WriteInv'
  <2>1. q[3] \in Writes BY <1>8 DEF Writes
  <2> HIDE DEF m, b
  <2>2. QED BY <1>2, <1>6, <1>8, <2>1
<1>9. ASSUME q[3] = "delete", Store(b, m.key, None), Acknowledged(m) PROVE WriteInv'
  <2>1. q[3] \in Writes BY <1>9 DEF Writes
  <2> HIDE DEF m, b
  <2>2. QED BY <1>6, <1>7, <1>9, <2>1
<1>10. QED BY <1>5, <1>8, <1>9 DEF Served

LEMMA WriteExpires ==
  ASSUME Types, WriteInv, NEW b \in Buckets, NEW k \in Keys, Expire(b, k)
  PROVE  WriteInv'
<1>1. /\ bucket'[b][k] = None
      /\ \A c \in Buckets, j \in Keys : c # b \/ j # k => bucket'[c][j] = bucket[c][j]
  <2>1. None \in Objects /\ Store(b, k, None) BY DEF Objects, Expire
  <2>2. QED BY <2>1, StoreFacts
<1>2. home' = home /\ inbox' = inbox /\ bucket[b][k] # None BY DEF Expire
<1> DEFINE w == [last[k] EXCEPT !.op = "expired"]
<1>3. last \in [Keys -> Writers] /\ last' = [last EXCEPT ![k] = w] BY DEF Types, Expire
<1>4. w.op = "expired" /\ w.id = last[k].id /\ w.acked = last[k].acked /\ w.raced = last[k].raced
  BY <1>3 DEF Writers
<1> HIDE DEF w
<1>5. last'[k] = w /\ \A j \in Keys : j # k => last'[j] = last[j] BY <1>3
<1>6. HomelessEmpty' BY <1>1, <1>2 DEF WriteInv, HomelessEmpty
<1>7. ASSUME NEW j \in Keys PROVE CopiesOfLast(j)'
  <2>1. CopiesOfLast(j) BY DEF WriteInv
  <2>2. QED BY <1>2, <1>4, <1>5, <2>1 DEF CopiesOfLast, Waiting
<1>8. ASSUME Shared', NEW j \in Keys, NEW n \in Nodes PROVE Kept(j, n)'
  <2>1. Shared /\ Kept(j, n) BY <1>2, <1>8 DEF Shared, WriteInv
  <2>2. CASE j # k
    <3>1. home[n] \in Buckets BY FilesAssumption DEF Types
    <3>2. bucket'[home[n]][j] = bucket[home[n]][j] BY <1>1, <2>2, <3>1
    <3>3. QED BY <1>2, <1>5, <2>1, <2>2, <3>2 DEF Kept, Stands
  <2>3. CASE j = k
\* The bucket that held something is the one of the nodes.
    <3>1. \E m \in Nodes : home[m] = b BY <1>2 DEF WriteInv, HomelessEmpty
    <3>2. home[n] = b BY <2>1, <3>1 DEF Shared
    <3>3. bucket'[home'[n]][j] = None BY <1>1, <1>2, <2>3, <3>2
    <3>4. last'[j].op = "expired" BY <1>4, <1>5, <2>3
    <3>5. QED BY <3>3, <3>4 DEF Kept, Stands
  <2>4. QED BY <2>2, <2>3
<1>9. QED BY <1>6, <1>7, <1>8 DEF WriteInv

LEMMA WriteStep ==
  ASSUME Types, Control, WriteInv, [Next]_vars
  PROVE  WriteInv'
<1>1. ASSUME UNCHANGED <<home, bucket, last, inbox>> PROVE WriteInv'
  BY <1>1, NothingWritten DEF Waiting
<1>2. ASSUME NEW n \in Nodes, NEW p \in Params, ResolveAsks(n, p) PROVE WriteInv'
  <2> DEFINE k == call[n].args[p]
  <2>1. Resolving(n, p) /\ Send(n, "raw", "get", k, Serving) BY <1>2 DEF ResolveAsks
  <2>2. k \in Keys /\ n \in Askers /\ sent[n] + 1 \in Numbers
    BY <1>2, <2>1, PendingFacts, AsksControl
  <2> HIDE DEF k
  <2>3. \A q \in Queues : q[3] \in Writes => Waiting(q)' \subseteq Waiting(q)
    BY <2>1, <2>2, SendFacts DEF Writes
  <2>4. UNCHANGED <<home, bucket, last>> BY <1>2 DEF ResolveAsks
  <2>5. QED BY <2>3, <2>4, NothingWritten
<1>3. CASE UNCHANGED vars BY <1>1, <1>3 DEF vars, storeVars
<1>4. ASSUME NEW n \in Nodes, NEW p \in Params,
             ResolveLocally(n, p) \/ ResolveMisses(n, p) \/ ResolveAnswered(n, p)
      PROVE  WriteInv'
  BY <1>1, <1>4 DEF ResolveLocally, ResolveMisses, ResolveAnswered, storeVars
<1>5. ASSUME NEW c \in Clients, RequestEnds(c) PROVE WriteInv'
  BY <1>1, <1>5 DEF RequestEnds, storeVars
<1>6. ASSUME NEW n \in Called, NEW args, CallStarts(n, args) PROVE WriteInv'
  BY <1>1, <1>6 DEF CallStarts, storeVars
<1>7. ASSUME NEW n \in Nodes, HandlerRuns(n) \/ HandlerReturns(n) PROVE WriteInv'
  BY <1>1, <1>7 DEF HandlerRuns, HandlerReturns, storeVars
<1>8. QED BY <1>2, <1>3, <1>4, <1>5, <1>6, <1>7, StepCases, WriteRequested, WriteServed,
             WriteExpires

\* The last write of a key stays in the bucket when it has been acknowledged.
THEOREM WritesStay == Spec => []AckedWriteStays
<1>1. Init => WriteInv
  <2> SUFFICES ASSUME Init PROVE WriteInv OBVIOUS
  <2>2. \A b \in Buckets, k \in Keys : bucket[b][k] = None BY DEF Init
  <2>3. \A k \in Keys : ~last[k].acked /\ last[k].op = "delete" BY DEF Init
  <2>4. \A q \in Queues : Waiting(q) = {} BY DEF Init, Queues, Waiting, ToSet
  <2>5. QED BY <2>2, <2>3, <2>4 DEF WriteInv, HomelessEmpty, CopiesOfLast, Kept
<1>2. (Types /\ Control) /\ WriteInv /\ [Next]_vars => WriteInv' BY WriteStep
<1>3. QED BY <1>1, <1>2, ControlInvariant, WriteImplied, PTL DEF Spec
=============================================================================
