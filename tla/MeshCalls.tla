------------------------------ MODULE MeshCalls ------------------------------
(***************************************************************************)
(* Calls of a tool method through the mesh: Call, CallWithContext and      *)
(* Stream of pkg/mesh/mesh.go on the caller's side, and on the serving     *)
(* nodes the endpoint handler and handleStreamRequest of pkg/node/node.go  *)
(* over CallContext and CallStream of pkg/tools/executor.go.               *)
(*                                                                         *)
(* A subscription hands its messages to its handler one at a time, so the  *)
(* requests of one subject that reached a node wait in line (queue).  The  *)
(* frames a handler publishes to a caller's inbox arrive in order, some    *)
(* time later (net), and a stream's inbox holds at most ChanCap of them:   *)
(* what arrives at a full one is dropped.  A frame is named by the node    *)
(* that made it and its number there; the reply of a single-reply call is  *)
(* a terminal frame.  Requests and frames are well formed: what JSON cannot *)
(* carry is left out.                                                      *)
(***************************************************************************)
EXTENDS Naturals, FiniteSets, Sequences, SequencesExt

CONSTANTS
  Calls,      \* calls, one for each call_id
  Kind,       \* "call" (Call), "context" (CallWithContext) or "stream"
  Target,     \* the node a call is directed to, or Anywhere
  Nodes,      \* nodes that serve the tool
  ChanCap,    \* capacity of Stream's rawCh (32 in the code)
  MaxChunks,  \* bound on the chunks of a stream
  Faults,     \* "node": a node exits; "tool": a tool process exits
  Anywhere,   \* no targetNode
  None        \* no node, no frame

ASSUME MeshCallsAssumption ==
  /\ Kind \in [Calls -> {"call", "context", "stream"}]
  /\ Target \in [Calls -> Nodes \cup {Anywhere}]
  /\ Anywhere \notin Nodes
  /\ None \notin Nodes
  /\ ChanCap \in Nat \ {0}
  /\ MaxChunks \in Nat
  /\ Faults \subseteq {"node", "tool"}

VARIABLES
  caller,   \* where the goroutine of a call is
  fired,    \* its context is done, or its timeout has passed
  raw,      \* rawCh of a stream
  hand,     \* the frame taken from rawCh, on its way to the consumer
  got,      \* what the consumer was handed
  missed,   \* frames dropped at a full inbox
  outcome,  \* how the call ended
  queue,    \* requests that reached a node, in order; the one served included
  server,   \* where the handler of a request is
  stop,     \* the handler's context is cancelled
  made,     \* frames the handler has published
  net,      \* those on their way to the inbox
  cancels,  \* cancel messages on their way: pairs of a call and a node
  alive     \* nodes that run

callerVars == <<caller, fired, raw, hand, got, missed, outcome>>
serverVars == <<queue, server, stop, made>>
vars == <<callerVars, serverVars, net, cancels, alive>>

Frame(n, k, terminal) == [from |-> n, seq |-> k, done |-> terminal]

\* A request nobody subscribes to is answered by NATS itself; Stream turns the
\* empty message into a frame of its own.
Refusal == Frame(None, 1, TRUE)

Subject(c) == <<Kind[c] = "stream", Target[c]>>

Stream(c) == Kind[c] = "stream"
Open(c) == caller[c] \in {"waiting", "holding"}

Init ==
  /\ caller = [c \in Calls |-> "idle"]
  /\ fired = [c \in Calls |-> FALSE]
  /\ raw = [c \in Calls |-> <<>>]
  /\ hand = [c \in Calls |-> None]
  /\ got = [c \in Calls |-> <<>>]
  /\ missed = [c \in Calls |-> 0]
  /\ outcome = [c \in Calls |-> "none"]
  /\ queue = [n \in Nodes |-> <<>>]
  /\ server = [n \in Nodes |-> [c \in Calls |-> "none"]]
  /\ stop = [n \in Nodes |-> [c \in Calls |-> FALSE]]
  /\ made = [n \in Nodes |-> [c \in Calls |-> 0]]
  /\ net = [n \in Nodes |-> [c \in Calls |-> <<>>]]
  /\ cancels = {}
  /\ alive = Nodes

-----------------------------------------------------------------------------
(* The caller.                                                             *)

Close(c, how) ==
  /\ caller' = [caller EXCEPT ![c] = "closed"]
  /\ outcome' = [outcome EXCEPT ![c] = how]

\* The nodes a request may reach together: micro endpoints share a queue
\* group, stream subjects are plain subscriptions, a targeted subject has one
\* subscriber.
Receivers(c) ==
  LET subscribed == IF Target[c] = Anywhere THEN alive ELSE alive \cap {Target[c]}
  IN IF Stream(c) THEN {subscribed} ELSE {{n} : n \in subscribed}

\* The request is published and somebody subscribes to its subject.
Issue(c) ==
  /\ caller[c] = "idle"
  /\ caller' = [caller EXCEPT ![c] = "waiting"]
  /\ \E reached \in Receivers(c) \ {{}} :
       queue' = [n \in Nodes |-> IF n \in reached THEN Append(queue[n], c) ELSE queue[n]]
  /\ UNCHANGED <<fired, raw, hand, got, missed, outcome, server, stop, made, net, cancels, alive>>

\* Nobody does: a stream finds the refusal in its inbox, a call returns.
IssueRefused(c) ==
  /\ caller[c] = "idle"
  /\ Receivers(c) \subseteq {{}}
  /\ IF Stream(c)
       THEN /\ caller' = [caller EXCEPT ![c] = "waiting"]
            /\ raw' = [raw EXCEPT ![c] = <<Refusal>>]
            /\ UNCHANGED outcome
       ELSE /\ Close(c, "failed")
            /\ UNCHANGED raw
  /\ UNCHANGED <<fired, hand, got, missed, serverVars, net, cancels, alive>>

\* Stream: case msg := <-rawCh
TakeFrame(c) ==
  /\ caller[c] = "waiting"
  /\ raw[c] # <<>>
  /\ caller' = [caller EXCEPT ![c] = "holding"]
  /\ hand' = [hand EXCEPT ![c] = Head(raw[c])]
  /\ raw' = [raw EXCEPT ![c] = Tail(@)]
  /\ UNCHANGED <<fired, got, missed, outcome, serverVars, net, cancels, alive>>

\* Faulty variant: the loop goes on after the terminal frame.
HandFrameGoesOn(c) ==
  /\ caller[c] = "holding"
  /\ got' = [got EXCEPT ![c] = Append(@, hand[c])]
  /\ hand' = [hand EXCEPT ![c] = None]
  /\ caller' = [caller EXCEPT ![c] = "waiting"]
  /\ UNCHANGED <<outcome, fired, raw, missed, serverVars, net, cancels, alive>>

\* Stream: case out <- frame; the terminal frame ends the stream.
HandFrame(c) ==
  /\ caller[c] = "holding"
  /\ got' = [got EXCEPT ![c] = Append(@, hand[c])]
  /\ hand' = [hand EXCEPT ![c] = None]
  /\ IF hand[c].done
       THEN Close(c, "answered")
       ELSE /\ caller' = [caller EXCEPT ![c] = "waiting"]
            /\ UNCHANGED outcome
  /\ UNCHANGED <<fired, raw, missed, serverVars, net, cancels, alive>>

\* ctx is cancelled or its deadline passes; the timeout of Call does.
Fire(c) ==
  /\ Open(c)
  /\ ~fired[c]
  /\ fired' = [fired EXCEPT ![c] = TRUE]
  /\ UNCHANGED <<caller, raw, hand, got, missed, outcome, serverVars, net, cancels, alive>>

\* Faulty variant: a stream that waits to hand over a frame does not look at ctx.
AbortOnlyWhenWaiting(c) ==
  /\ caller[c] = "waiting"
  /\ fired[c]
  /\ Close(c, "cancelled")
  /\ hand' = [hand EXCEPT ![c] = None]
  /\ cancels' = IF Kind[c] = "call" \/ hand[c] = Refusal THEN cancels
                ELSE cancels \cup ({c} \X alive)
  /\ UNCHANGED <<fired, raw, got, missed, serverVars, net, alive>>

\* case <-ctx.Done(): the call ends without waiting for anything more.  Call,
\* which only has a timeout, tells nobody; nor does a stream that was refused.
Abort(c) ==
  /\ Open(c)
  /\ fired[c]
  /\ Close(c, "cancelled")
  /\ hand' = [hand EXCEPT ![c] = None]
  /\ cancels' = IF Kind[c] = "call" \/ hand[c] = Refusal THEN cancels
                ELSE cancels \cup ({c} \X alive)
  /\ UNCHANGED <<fired, raw, got, missed, serverVars, net, alive>>

-----------------------------------------------------------------------------
(* The network.                                                            *)

\* Faulty variant: a frame is taken off a full inbox to make room.
FrameArrivesEvicting(n, c) ==
  /\ net[n][c] # <<>>
  /\ net' = [net EXCEPT ![n][c] = Tail(@)]
  /\ CASE Stream(c) /\ Open(c) /\ Len(raw[c]) < ChanCap ->
            /\ raw' = [raw EXCEPT ![c] = Append(@, Head(net[n][c]))]
            /\ UNCHANGED <<caller, got, missed, outcome>>
       [] Stream(c) /\ Open(c) /\ Len(raw[c]) >= ChanCap ->
            /\ raw' = [raw EXCEPT ![c] = Append(Tail(@), Head(net[n][c]))]
            /\ UNCHANGED <<caller, got, missed, outcome>>
       [] ~Stream(c) /\ Open(c) ->
            /\ got' = [got EXCEPT ![c] = <<Head(net[n][c])>>]
            /\ Close(c, "answered")
            /\ UNCHANGED <<raw, missed>>
       [] ~Open(c) -> UNCHANGED <<caller, raw, got, missed, outcome>>
  /\ UNCHANGED <<fired, hand, serverVars, cancels, alive>>

\* Faulty variant: the inbox has no capacity.
FrameArrivesUnbounded(n, c) ==
  /\ net[n][c] # <<>>
  /\ net' = [net EXCEPT ![n][c] = Tail(@)]
  /\ CASE Stream(c) /\ Open(c) ->
            /\ raw' = [raw EXCEPT ![c] = Append(@, Head(net[n][c]))]
            /\ UNCHANGED <<caller, got, missed, outcome>>
       [] ~Stream(c) /\ Open(c) ->
            /\ got' = [got EXCEPT ![c] = <<Head(net[n][c])>>]
            /\ Close(c, "answered")
            /\ UNCHANGED <<raw, missed>>
       [] ~Open(c) -> UNCHANGED <<caller, raw, got, missed, outcome>>
  /\ UNCHANGED <<fired, hand, serverVars, cancels, alive>>

\* The next frame of a handler reaches the inbox: of a stream, which keeps it
\* if it has room; of a single-reply call, which returns; or of a call that
\* has ended and unsubscribed.
FrameArrives(n, c) ==
  /\ net[n][c] # <<>>
  /\ net' = [net EXCEPT ![n][c] = Tail(@)]
  /\ CASE Stream(c) /\ Open(c) /\ Len(raw[c]) < ChanCap ->
            /\ raw' = [raw EXCEPT ![c] = Append(@, Head(net[n][c]))]
            /\ UNCHANGED <<caller, got, missed, outcome>>
       [] Stream(c) /\ Open(c) /\ Len(raw[c]) >= ChanCap ->
            /\ missed' = [missed EXCEPT ![c] = @ + 1]
            /\ UNCHANGED <<caller, raw, got, outcome>>
       [] ~Stream(c) /\ Open(c) ->
            /\ got' = [got EXCEPT ![c] = <<Head(net[n][c])>>]
            /\ Close(c, "answered")
            /\ UNCHANGED <<raw, missed>>
       [] ~Open(c) -> UNCHANGED <<caller, raw, got, missed, outcome>>
  /\ UNCHANGED <<fired, hand, serverVars, cancels, alive>>

\* Faulty variant: the cancel subject does not name the call.
CancelArrivesAtAll(c, n) ==
  /\ <<c, n>> \in cancels
  /\ cancels' = cancels \ {<<c, n>>}
  /\ stop' = [stop EXCEPT ![n] = [d \in Calls |->
                 @[d] \/ (server[n][d] \in {"started", "running"} /\ Kind[d] # "call")]]
  /\ UNCHANGED <<callerVars, queue, server, made, net, alive>>

\* A cancel message reaches a node: only a handler that has subscribed to
\* cancel.<call_id> by then, and has not returned, hears it.
CancelArrives(c, n) ==
  /\ <<c, n>> \in cancels
  /\ cancels' = cancels \ {<<c, n>>}
  /\ stop' = IF server[n][c] \in {"started", "running"} /\ Kind[c] # "call"
               THEN [stop EXCEPT ![n][c] = TRUE] ELSE stop
  /\ UNCHANGED <<callerVars, queue, server, made, net, alive>>

-----------------------------------------------------------------------------
(* The serving node.                                                       *)

\* The request of c is the first of its subject in line.
First(n, c) ==
  \E i \in DOMAIN queue[n] :
    /\ queue[n][i] = c
    /\ \A j \in 1..(i - 1) : Subject(queue[n][j]) # Subject(c)

Publish(n, c, terminal) ==
  /\ made' = [made EXCEPT ![n][c] = @ + 1]
  /\ net' = [net EXCEPT ![n][c] = Append(@, Frame(n, made[n][c] + 1, terminal))]

HandlerReturns(n, c, how) ==
  /\ server' = [server EXCEPT ![n][c] = how]
  /\ queue' = [queue EXCEPT ![n] = RemoveFirst(@, c)]
  /\ UNCHANGED <<callerVars, stop, cancels, alive>>

\* The handler begins and subscribes to the call's cancel subject.
HandlerStarts(n, c) ==
  /\ First(n, c)
  /\ server[n][c] = "none"
  /\ server' = [server EXCEPT ![n][c] = "started"]
  /\ UNCHANGED <<callerVars, queue, stop, made, net, cancels, alive>>

\* CallStream or CallContext refuses (ctx is done already, the tool does not
\* run): the error goes out as the terminal frame.
HandlerRefuses(n, c) ==
  /\ server[n][c] = "started"
  /\ Publish(n, c, TRUE)
  /\ HandlerReturns(n, c, "answered")

\* The tool has the call.
HandlerCalls(n, c) ==
  /\ server[n][c] = "started"
  /\ ~stop[n][c]
  /\ server' = [server EXCEPT ![n][c] = "running"]
  /\ UNCHANGED <<callerVars, queue, stop, made, net, cancels, alive>>

\* A chunk of a stream.  Cancellation is cooperative: more may come after it.
HandlerEmits(n, c) ==
  /\ server[n][c] = "running"
  /\ Stream(c)
  /\ made[n][c] < MaxChunks
  /\ Publish(n, c, FALSE)
  /\ UNCHANGED <<callerVars, queue, server, stop, cancels, alive>>

\* The method returns, or a single-reply call fails: the terminal frame.
HandlerAnswers(n, c) ==
  /\ server[n][c] = "running"
  /\ Publish(n, c, TRUE)
  /\ HandlerReturns(n, c, "answered")

\* The channel of CallStream is closed on cancellation or on the exit of the
\* tool's process: the handler returns and publishes nothing.
HandlerBreaksOff(n, c) ==
  /\ server[n][c] = "running"
  /\ Stream(c)
  /\ stop[n][c] \/ "tool" \in Faults
  /\ HandlerReturns(n, c, "brokenOff")
  /\ UNCHANGED <<made, net>>

\* The node exits, its requests and handlers with it, and perhaps the last
\* frames that its connection has not written yet.
NodeExits(n) ==
  /\ "node" \in Faults
  /\ n \in alive
  /\ \E written \in [Calls -> 0..(MaxChunks + 1)] :
       /\ \A c \in Calls : written[c] <= Len(net[n][c])
       /\ net' = [net EXCEPT ![n] = [c \in Calls |-> SubSeq(@[c], 1, written[c])]]
  /\ alive' = alive \ {n}
  /\ queue' = [queue EXCEPT ![n] = <<>>]
  /\ server' = [server EXCEPT ![n] = [c \in Calls |->
                  IF @[c] \in {"started", "running"} THEN "brokenOff" ELSE @[c]]]
  /\ cancels' = {m \in cancels : m[2] # n}
  /\ UNCHANGED <<callerVars, stop, made>>

CallerStep(c) ==
  \/ Issue(c)
  \/ IssueRefused(c)
  \/ TakeFrame(c)
  \/ HandFrame(c)
  \/ Fire(c)
  \/ Abort(c)

HandlerStep(n, c) ==
  \/ HandlerStarts(n, c)
  \/ HandlerRefuses(n, c)
  \/ HandlerCalls(n, c)
  \/ HandlerEmits(n, c)
  \/ HandlerAnswers(n, c)
  \/ HandlerBreaksOff(n, c)

Next ==
  \/ \E c \in Calls : CallerStep(c)
  \/ \E n \in Nodes, c \in Calls :
       FrameArrives(n, c) \/ CancelArrives(c, n) \/ HandlerStep(n, c)
  \/ \E n \in Nodes : NodeExits(n)

Spec == Init /\ [][Next]_vars

\* A goroutine whose select has a ready case runs, NATS delivers, a handler
\* that got a request runs, and a tool method returns.  Nothing makes a
\* consumer read, a context end or a chunk come.
CallFairness ==
  /\ \A c \in Calls : WF_vars(TakeFrame(c)) /\ WF_vars(Abort(c))
  /\ \A n \in Nodes, c \in Calls :
       /\ WF_vars(FrameArrives(n, c))
       /\ WF_vars(HandlerStarts(n, c))
       /\ WF_vars(HandlerRefuses(n, c) \/ HandlerCalls(n, c))
       /\ WF_vars(HandlerAnswers(n, c) \/ HandlerBreaksOff(n, c))

FairSpec == Spec /\ CallFairness

-----------------------------------------------------------------------------
(* Properties.                                                             *)

Frames == [from : Nodes \cup {None}, seq : 1..(MaxChunks + 1), done : BOOLEAN]

\* Every variable of the calls has its type, and an inbox never overflows.
TypeOK ==
  /\ caller \in [Calls -> {"idle", "waiting", "holding", "closed"}]
  /\ fired \in [Calls -> BOOLEAN]
  /\ raw \in [Calls -> Seq(Frames)]
  /\ \A c \in Calls : Len(raw[c]) <= ChanCap
  /\ hand \in [Calls -> Frames \cup {None}]
  /\ got \in [Calls -> Seq(Frames)]
  /\ missed \in [Calls -> Nat]
  /\ outcome \in [Calls -> {"none", "answered", "failed", "cancelled"}]
  /\ queue \in [Nodes -> Seq(Calls)]
  /\ server \in [Nodes -> [Calls -> {"none", "started", "running", "answered", "brokenOff"}]]
  /\ stop \in [Nodes -> [Calls -> BOOLEAN]]
  /\ made \in [Nodes -> [Calls -> 0..(MaxChunks + 1)]]
  /\ net \in [Nodes -> [Calls -> Seq(Frames)]]
  /\ cancels \subseteq Calls \X Nodes
  /\ alive \subseteq Nodes

\* The frames a node has published for a call.
Published(n, c) ==
  {Frame(n, k, server[n][c] = "answered" /\ k = made[n][c]) : k \in 1..made[n][c]}

Promise == INSTANCE CallPromise WITH
  sent <- [c \in Calls |-> UNION {Published(n, c) : n \in Nodes}],
  over <- [c \in Calls |-> caller[c] = "closed"]

\* A call keeps the promise of CallPromise, whatever its kind and however its
\* frames, cancellations and nodes that exit interleave.
PromiseKept == Promise!Spec

\* A stream that lost no frame at its inbox has no gap: of each node it was
\* handed the first frames that node made (Stream, handleStreamRequest).
NoSilentGap ==
  \A c \in Calls :
    missed[c] = 0 =>
      \A i \in DOMAIN got[c] :
        \A k \in 1..(got[c][i].seq - 1) :
          \E j \in 1..(i - 1) : got[c][j].from = got[c][i].from /\ got[c][j].seq = k

\* A handler is cancelled only for a caller that gave up.
StoppedForCause ==
  \A n \in Nodes, c \in Calls : stop[n][c] => outcome[c] = "cancelled"

\* A call whose context is done ends, also while its consumer does not read
\* and whatever the nodes do (Stream, CallWithContext).
CancelledEnds == \A c \in Calls : fired[c] ~> caller[c] = "closed"

\* A stream that is read ends, unless a frame was dropped at its full inbox or
\* a handler broke off (handleStreamRequest, Stream).
StreamEnds ==
  \A c \in Calls :
    WF_vars(HandFrame(c)) =>
      (Stream(c) /\ Open(c)) ~>
        \/ caller[c] = "closed"
        \/ missed[c] > 0
        \/ \E n \in Nodes : n \notin alive \/ server[n][c] = "brokenOff"

\* A stream that is read ends unless frames were dropped, also when the tool
\* or its node dies (mesh.go: "closed after the terminal frame (Done=true) is
\* delivered, or after ctx fires / an error occurs").
StreamCloses ==
  \A c \in Calls :
    WF_vars(HandFrame(c)) =>
      (Stream(c) /\ Open(c)) ~> (caller[c] = "closed" \/ missed[c] > 0)
=============================================================================
