----------------------------- MODULE CallPromise -----------------------------
(***************************************************************************)
(* What a call through the mesh promises the code that made it, whichever  *)
(* of Call, CallWithContext and Stream it used: it is handed frames that   *)
(* were made for this call and nothing else, those of one node in the      *)
(* order that node made them and each at most once, and nothing after a    *)
(* terminal frame or after it gave up.                                     *)
(***************************************************************************)
EXTENDS Naturals, Sequences

CONSTANTS Calls, Nodes, Refusal

VARIABLES
  sent,  \* the frames nodes made for each call
  got,   \* the frames its caller was handed, in order
  over   \* the call has ended

vars == <<sent, got, over>>

FramesOf(c, n) == {f \in sent[c] : f.from = n}

Init ==
  /\ sent = [c \in Calls |-> {}]
  /\ got = [c \in Calls |-> <<>>]
  /\ over = [c \in Calls |-> FALSE]

\* Node n makes its next frame, unless its last one was terminal.
Make(c, n) ==
  LET before == FramesOf(c, n)
  IN /\ \A g \in before : ~g.done
     /\ \E f \in sent'[c] :
          /\ f.from = n
          /\ \A g \in before : g.seq < f.seq
          /\ f.seq = 1 \/ \E g \in before : g.seq + 1 = f.seq
          /\ sent' = [sent EXCEPT ![c] = @ \cup {f}]
     /\ UNCHANGED <<got, over>>

\* The caller is handed a frame later than any it has from that node, or the
\* refusal of a mesh in which nobody answers; a terminal frame ends the call.
Hand(c, f) ==
  /\ ~over[c]
  /\ \A i \in DOMAIN got[c] : got[c][i].from = f.from => got[c][i].seq < f.seq
  /\ got' = [got EXCEPT ![c] = Append(@, f)]
  /\ over' = [over EXCEPT ![c] = f.done]
  /\ UNCHANGED sent

\* The caller gives up.
GiveUp(c) ==
  /\ ~over[c]
  /\ over' = [over EXCEPT ![c] = TRUE]
  /\ UNCHANGED <<sent, got>>

Next ==
  \E c \in Calls :
    \/ \E n \in Nodes : Make(c, n)
    \/ \E f \in sent[c] \cup {Refusal} : Hand(c, f)
    \/ GiveUp(c)

Spec == Init /\ [][Next]_vars
=============================================================================
