------------------------------ MODULE MeshFiles ------------------------------
(***************************************************************************)
(* The file store of the mesh (pkg/filestore), the handlers of files.put,  *)
(* files.get, files.delete and files.list and of the tool "files"          *)
(* (pkg/mesh/files.go), and the resolution of file parameters in a call    *)
(* (pkg/mesh/file_resolve.go, RegisterTool of pkg/mesh/mesh.go).           *)
(*                                                                         *)
(* A request on a raw subject reaches every node that serves files, and    *)
(* each of them executes it; a request to the tool "files" reaches one.    *)
(* Every subscription handles its messages one at a time and in order, and *)
(* the first answer is the answer.  The content of an object is the number *)
(* of the request that put it: its type, size and hash are stored with it  *)
(* in one message and are not told apart from it.  files.head reads what   *)
(* files.get reads.                                                        *)
(***************************************************************************)
EXTENDS Integers, Sequences, SequencesExt, Functions

CONSTANTS
  Nodes,        \* nodes of the mesh
  Serving,      \* those without DisableFileServing
  Called,       \* those whose tools are called
  Buckets,      \* object stores of the JetStream servers
  Homes,        \* the assignments of nodes to buckets to be explored
  Clients,      \* clients that send file requests
  Requests,     \* what they send: pairs of a subject ("raw" or "tool") and an operation
  Keys,         \* keys of files
  Params,       \* parameters of a call, all with a file parameter's name
  Plain,        \* a value that does not look like a key
  MaxRequests,  \* bound on the file requests of each client
  MaxCalls,     \* bound on the tool calls
  MaxFailures,  \* bound on failed writes, of temporary files and of the store, and expiries
  None          \* no object, no request

ASSUME FilesAssumption ==
  /\ Serving \subseteq Nodes
  /\ Called \subseteq Nodes
  /\ Homes \subseteq [Nodes -> Buckets]
  /\ Clients \cap Nodes = {}
  /\ Requests \subseteq {"raw", "tool"} \X {"put", "get", "delete", "list"}
  /\ Plain \notin Keys
  /\ IsFiniteSet(Params)
  /\ None \notin Params
  /\ None \notin (Clients \cup Nodes) \X Nat
  /\ MaxRequests \in Nat
  /\ MaxCalls \in Nat
  /\ MaxFailures \in Nat

VARIABLES
  home,      \* the bucket of each node, fixed
  bucket,    \* the object of each key in each bucket
  inbox,     \* messages waiting at each subscription of the file handlers
  sent,      \* requests each asker has sent
  waiting,   \* the request each asker waits for
  reply,     \* the first answer to it
  call,      \* the tool call each node is handling
  calls,     \* calls started
  disk,      \* temporary files
  failures,  \* failures so far
  possible,  \* history: what each key held since an asker began to ask
  last,      \* history: the last write sent for each key
  broken     \* history: calls whose resolution failed

storeVars == <<home, bucket, inbox>>
askVars == <<sent, waiting, reply>>
callVars == <<call, calls, disk, broken>>
vars == <<storeVars, askVars, callVars, failures, possible, last>>

Ops == {"put", "get", "delete", "list"}
Vias == {"raw", "tool"}
Askers == Clients \cup Nodes
Numbers == 1 .. (MaxRequests + MaxCalls * Cardinality(Params))
Ids == Askers \X Numbers
Ack == [kind |-> "ack"]
Failure == [kind |-> "error"]
NoReply == [kind |-> "none"]
Idle == [number |-> 0, phase |-> "idle", args |-> [p \in Params |-> Plain],
         pending |-> {}, asked |-> None]

Init ==
  /\ home \in Homes
  /\ bucket = [b \in Buckets |-> [k \in Keys |-> None]]
  /\ inbox = [q \in Serving \X Vias \X Ops |-> <<>>]
  /\ sent = [a \in Askers |-> 0]
  /\ waiting = [a \in Askers |-> None]
  /\ reply = [a \in Askers |-> NoReply]
  /\ call = [n \in Nodes |-> Idle]
  /\ calls = 0
  /\ disk = {}
  /\ failures = 0
  /\ possible = [a \in Askers |-> [k \in Keys |-> {}]]
  /\ last = [k \in Keys |-> [id |-> <<>>, op |-> "delete", acked |-> FALSE, raced |-> FALSE]]
  /\ broken = {}

Held(k) == {bucket[b][k] : b \in Buckets}

\* What an asker may be told, from the moment it begins to ask.
StartsToAsk(a) == possible' = [possible EXCEPT ![a] = [k \in Keys |-> Held(k)]]

\* The object of k in b becomes o, and every asker under way may see it.
Store(b, k, o) ==
  /\ bucket' = [bucket EXCEPT ![b][k] = o]
  /\ possible' = [a \in Askers |->
       IF a \in Nodes => call[a].phase = "resolving"
         THEN [possible[a] EXCEPT ![k] = IF @ = {} THEN {} ELSE @ \cup {o}]
         ELSE possible[a]]

-----------------------------------------------------------------------------
(* Requests.                                                               *)

NextId(a) == <<a, sent[a] + 1>>

\* A request of asker a reaches the subscriptions of the nodes it goes to.
Send(a, via, op, k, to) ==
  /\ sent' = [sent EXCEPT ![a] = @ + 1]
  /\ inbox' = [q \in DOMAIN inbox |->
       IF q[1] \in to /\ q[2] = via /\ q[3] = op
         THEN Append(inbox[q], [id |-> NextId(a), from |-> a, key |-> k])
         ELSE inbox[q]]
  /\ waiting' = [waiting EXCEPT ![a] = NextId(a)]
  /\ reply' = [reply EXCEPT ![a] = NoReply]

Writes == {"put", "delete"}

\* A copy of an earlier write of k still waits at some node.
WriteUnderWay(k) ==
  \E q \in DOMAIN inbox : q[3] \in Writes /\ \E m \in ToSet(inbox[q]) : m.key = k

Request(c, via, op, k) ==
  /\ waiting[c] = None
  /\ sent[c] < MaxRequests
  /\ \E to \in IF via = "raw" THEN {Serving} ELSE {{n} : n \in Serving} :
       Send(c, via, op, k, to)
  /\ IF op = "get" THEN StartsToAsk(c) ELSE UNCHANGED possible
  /\ last' = IF op \in Writes
               THEN [last EXCEPT ![k] = [id |-> NextId(c), op |-> op, acked |-> FALSE,
                                         raced |-> WriteUnderWay(k)]]
               ELSE last
  /\ UNCHANGED <<home, bucket, callVars, failures>>

\* The client has its answer, or gives up after its timeout.
RequestEnds(c) ==
  /\ waiting[c] # None
  /\ waiting' = [waiting EXCEPT ![c] = None]
  /\ reply' = [reply EXCEPT ![c] = NoReply]
  /\ possible' = [possible EXCEPT ![c] = [k \in Keys |-> {}]]
  /\ UNCHANGED <<storeVars, sent, callVars, failures, last>>

-----------------------------------------------------------------------------
(* The handlers of the subscriptions.                                      *)

Next1(q) == inbox[q] # <<>>
Message(q) == Head(inbox[q])
Pop(q) == inbox' = [inbox EXCEPT ![q] = Tail(@)]

\* Faulty variant: an answer is taken for the request under way, whichever
\* request it answers.
RespondToAny(m, result) ==
  \/ waiting[m.from] # None /\ reply' = [reply EXCEPT ![m.from] = result]
  \/ (waiting[m.from] = m.id => reply[m.from] # NoReply) /\ reply' = reply

\* The inbox of a request takes the first answer to that request; the answers
\* of two nodes may overtake each other until the asker reads one.
Respond(m, result) ==
  \/ waiting[m.from] = m.id /\ reply' = [reply EXCEPT ![m.from] = result]
  \/ (waiting[m.from] = m.id => reply[m.from] # NoReply) /\ reply' = reply

Acknowledged(m) ==
  last' = [last EXCEPT ![m.key].acked = @ \/ last[m.key].id = m.id]

\* Faulty variant: the answer is sent before the object is stored.
ServePutUnstored(n, via) ==
  LET q == <<n, via, "put">>
  IN /\ Next1(q)
     /\ Pop(q)
     /\ Respond(Message(q), Ack)
     /\ Acknowledged(Message(q))
     /\ UNCHANGED <<home, bucket, possible, sent, waiting, callVars, failures>>

ServePut(n, via) ==
  LET q == <<n, via, "put">>
  IN /\ Next1(q)
     /\ Pop(q)
     /\ Store(home[n], Message(q).key, Message(q).id)
     /\ Respond(Message(q), Ack)
     /\ Acknowledged(Message(q))
     /\ UNCHANGED <<home, sent, waiting, callVars, failures>>

ServeGet(n, via) ==
  LET q == <<n, via, "get">>
      o == bucket[home[n]][Message(q).key]
  IN /\ Next1(q)
     /\ Pop(q)
     /\ Respond(Message(q), IF o = None THEN Failure
                            ELSE [kind |-> "file", key |-> Message(q).key, data |-> o])
     /\ UNCHANGED <<home, bucket, sent, waiting, callVars, failures, possible, last>>

\* Deleting what is not there is an error.
ServeDelete(n, via) ==
  LET q == <<n, via, "delete">>
      b == home[n]
  IN /\ Next1(q)
     /\ Pop(q)
     /\ IF bucket[b][Message(q).key] = None
          THEN /\ Respond(Message(q), Failure)
               /\ UNCHANGED <<bucket, possible, last>>
          ELSE /\ Store(b, Message(q).key, None)
               /\ Respond(Message(q), Ack)
               /\ Acknowledged(Message(q))
     /\ UNCHANGED <<home, sent, waiting, callVars, failures>>

\* The keys of the objects that are not deleted; the message's key is the
\* prefix, which every key has.
ServeList(n, via) ==
  LET q == <<n, via, "list">>
  IN /\ Next1(q)
     /\ Pop(q)
     /\ Respond(Message(q), [kind |-> "keys", keys |-> {k \in Keys : bucket[home[n]][k] # None}])
     /\ UNCHANGED <<home, bucket, sent, waiting, callVars, failures, possible, last>>

\* The object store does not answer, or the request is malformed.
ServeFails(q) ==
  /\ Next1(q)
  /\ failures < MaxFailures
  /\ failures' = failures + 1
  /\ Pop(q)
  /\ Respond(Message(q), Failure)
  /\ UNCHANGED <<home, bucket, sent, waiting, callVars, possible, last>>

\* DefaultTTL passes.
Expire(b, k) ==
  /\ failures < MaxFailures
  /\ failures' = failures + 1
  /\ bucket[b][k] # None
  /\ Store(b, k, None)
  /\ last' = [last EXCEPT ![k].op = "expired"]
  /\ UNCHANGED <<home, inbox, askVars, callVars>>

-----------------------------------------------------------------------------
(* A tool call with file parameters: ResolveFileParams, the handler, and   *)
(* the deferred cleanup.                                                   *)

CallStarts(n, args) ==
  /\ calls < MaxCalls
  /\ call[n].phase = "idle"
  /\ calls' = calls + 1
  /\ call' = [call EXCEPT ![n] =
       [number |-> calls + 1, phase |-> "resolving", args |-> args,
        pending |-> {p \in Params : args[p] \in Keys}, asked |-> None]]
  /\ StartsToAsk(n)
  /\ UNCHANGED <<storeVars, askVars, disk, broken, failures, last>>

Resolving(n, p) ==
  /\ call[n].phase = "resolving"
  /\ p \in call[n].pending
  /\ call[n].asked \in {None, p}

\* Faulty variant: the request for the file is not forgotten.
ToTempFileStillAsks(n, p, o) ==
  /\ disk' = disk \cup {[call |-> call[n].number, param |-> p,
                         key |-> call[n].args[p], data |-> o]}
  /\ call' = [call EXCEPT ![n].args[p] = o, ![n].pending = @ \ {p}]
  /\ UNCHANGED <<calls, broken>>

\* The parameter is replaced by the name of a temporary file with content o.
ToTempFile(n, p, o) ==
  /\ disk' = disk \cup {[call |-> call[n].number, param |-> p,
                         key |-> call[n].args[p], data |-> o]}
  /\ call' = [call EXCEPT ![n].args[p] = o,
                          ![n].pending = @ \ {p}, ![n].asked = None]
  /\ UNCHANGED <<calls, broken>>

\* The file cannot be created or written: ResolveFileParams returns an error
\* and no cleanup, and the call goes on with the parameters as they are.
TempFileFails(n, p) ==
  /\ failures < MaxFailures
  /\ failures' = failures + 1
  /\ broken' = broken \cup {call[n].number}
  /\ call' = [call EXCEPT ![n].pending = {}, ![n].asked = None]
  /\ UNCHANGED <<calls, disk>>

WriteTempFile(n, p, o) ==
  \/ ToTempFile(n, p, o) /\ UNCHANGED failures
  \/ TempFileFails(n, p)

ResolveLocally(n, p) ==
  LET o == bucket[home[n]][call[n].args[p]]
  IN /\ Resolving(n, p)
     /\ call[n].asked = None
     /\ o # None
     /\ WriteTempFile(n, p, o)
     /\ UNCHANGED <<storeVars, askVars, possible, last>>

\* The file is not in the bucket, or the bucket cannot be read.
ResolveAsks(n, p) ==
  /\ Resolving(n, p)
  /\ call[n].asked = None
  /\ Send(n, "raw", "get", call[n].args[p], Serving)
  /\ call' = [call EXCEPT ![n].asked = p]
  /\ UNCHANGED <<home, bucket, calls, disk, broken, failures, possible, last>>

\* An error, no answer within 30 s, or a request that could not be sent: the
\* parameter keeps the key.
ResolveMisses(n, p) ==
  /\ Resolving(n, p)
  /\ call[n].asked = p => reply[n].kind # "file"
  /\ waiting' = [waiting EXCEPT ![n] = None]
  /\ reply' = [reply EXCEPT ![n] = NoReply]
  /\ call' = [call EXCEPT ![n].pending = @ \ {p}, ![n].asked = None]
  /\ UNCHANGED <<storeVars, sent, calls, disk, broken, failures, possible, last>>

ResolveAnswered(n, p) ==
  /\ Resolving(n, p)
  /\ call[n].asked = p
  /\ reply[n].kind = "file"
  /\ WriteTempFile(n, p, reply[n].data)
  /\ waiting' = [waiting EXCEPT ![n] = None]
  /\ reply' = [reply EXCEPT ![n] = NoReply]
  /\ UNCHANGED <<storeVars, sent, possible, last>>

HandlerRuns(n) ==
  /\ call[n].phase = "resolving"
  /\ call[n].pending = {}
  /\ call' = [call EXCEPT ![n].phase = "running"]
  /\ UNCHANGED <<storeVars, askVars, calls, disk, broken, failures, possible, last>>

\* Faulty variant: the cleanup is not deferred, and an error skips it.
HandlerReturnsEarly(n) ==
  /\ call[n].phase = "running"
  /\ call' = [call EXCEPT ![n] = Idle]
  /\ disk' \in {disk, {f \in disk : f.call # call[n].number}}
  /\ possible' = [possible EXCEPT ![n] = [k \in Keys |-> {}]]
  /\ UNCHANGED <<storeVars, askVars, calls, broken, failures, last>>

\* cleanup is nil when the resolution failed.
HandlerReturns(n) ==
  /\ call[n].phase = "running"
  /\ call' = [call EXCEPT ![n] = Idle]
  /\ disk' = IF call[n].number \in broken THEN disk
             ELSE {f \in disk : f.call # call[n].number}
  /\ possible' = [possible EXCEPT ![n] = [k \in Keys |-> {}]]
  /\ UNCHANGED <<storeVars, askVars, calls, broken, failures, last>>

CallStep(n) ==
  \/ \E p \in Params :
       ResolveLocally(n, p) \/ ResolveAsks(n, p) \/ ResolveMisses(n, p) \/ ResolveAnswered(n, p)
  \/ HandlerRuns(n)
  \/ HandlerReturns(n)

Next ==
  \/ \E c \in Clients, r \in Requests, k \in Keys : Request(c, r[1], r[2], k)
  \/ \E c \in Clients : RequestEnds(c)
  \/ \E n \in Serving, v \in Vias :
       ServePut(n, v) \/ ServeGet(n, v) \/ ServeDelete(n, v) \/ ServeList(n, v)
  \/ \E q \in DOMAIN inbox : ServeFails(q)
  \/ \E b \in Buckets, k \in Keys : Expire(b, k)
  \/ \E n \in Called, args \in [Params -> Keys \cup {Plain}] : CallStarts(n, args)
  \/ \E n \in Called : CallStep(n)

Spec == Init /\ [][Next]_vars

-----------------------------------------------------------------------------
(* Properties.                                                             *)

Writers == [id : Ids \cup {<<>>}, op : Writes \cup {"expired"},
            acked : BOOLEAN, raced : BOOLEAN]

\* Every variable of the file store and of the calls has its type.
TypeOK ==
  /\ home \in Homes
  /\ bucket \in [Buckets -> [Keys -> Ids \cup {None}]]
  /\ \A q \in DOMAIN inbox : inbox[q] \in Seq([id : Ids, from : Askers, key : Keys])
  /\ \A a \in Askers : sent[a] \in Numbers \cup {0}
  /\ waiting \in [Askers -> Ids \cup {None}]
  /\ \A n \in Nodes : /\ call[n].pending \subseteq Params
                      /\ call[n].asked \in call[n].pending \cup {None}
                      /\ (call[n].asked # None) = (waiting[n] # None)
  /\ calls \in 0 .. MaxCalls
  /\ disk \subseteq [call : 1 .. calls, param : Params, key : Keys, data : Ids]
  /\ failures \in 0 .. MaxFailures
  /\ last \in [Keys -> Writers]
  /\ broken \subseteq 1 .. calls

\* A file that is got, by a client or for a parameter of a call, was under the
\* key asked for at some moment since it was asked for: the answer of an
\* earlier request, of another key or of an object deleted everywhere before
\* is never taken for it, although answers come late and from several nodes.
GetIsRegular ==
  /\ \A a \in Askers :
       reply[a].kind = "file" => reply[a].data \in possible[a][reply[a].key]
  /\ \A f \in disk, n \in Nodes :
       f.call = call[n].number => f.data \in possible[n][f.key]

Shared == \A m, n \in Nodes : home[m] = home[n]

\* Object o is what write w left.
Stands(w, o) == CASE w.op = "put" -> o = w.id
                  [] w.op = "expired" -> o \in {w.id, None}
                  [] w.op = "delete" -> o = None

\* On one bucket, the last write of a key that was acknowledged is what the
\* bucket holds, until it expires, unless a copy of an earlier write still
\* waited at some node when it was sent (a raw write is executed by every node
\* that serves files, also after the first has acknowledged it).
AckedWriteStays ==
  Shared => \A k \in Keys, n \in Nodes :
    last[k].acked /\ ~last[k].raced => Stands(last[k], bucket[home[n]][k])

\* "it doesn't matter which node handles the request" (pkg/mesh/files.go:114):
\* an acknowledged write stays whoever serves files.
AnyNodeServes ==
  Shared => \A k \in Keys, n \in Nodes :
    last[k].acked => Stands(last[k], bucket[home[n]][k])

\* The temporary files of a call are removed when its handler returns, also
\* when the handler failed; only a call whose resolution failed half way, and
\* that has no cleanup, leaves those it had written.
TempFilesRemoved ==
  \A f \in disk : f.call \in broken \/ \E n \in Nodes : call[n].number = f.call
=============================================================================
