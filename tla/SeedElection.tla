---------------------------- MODULE SeedElection ----------------------------
(***************************************************************************)
(* How jb-mesh nodes on one LAN agree on a seed: the role decision of      *)
(* node.New, the mDNS browse loop of pkg/discovery and the split-brain     *)
(* resolution of pkg/node (onPeerFound, shouldDemote, demoteToLeaf).       *)
(*                                                                         *)
(* A node's name is its number, so < on numbers is the alphabetical order  *)
(* on names.  An mDNS responder lives in the node's process: a node that   *)
(* left answers nothing.  A responder's answer may also be missed by any   *)
(* browse, as UDP multicast is.                                            *)
(*                                                                         *)
(* The states of a node:                                                   *)
(*   "down"      no process                                                *)
(*   "browsing"  in New, inside the one-shot Browse                        *)
(*   "seed"      n.role is "seed"                                          *)
(*   "joined"    it found a seed in New and started as its leaf            *)
(*   "demoting"  in demoteToLeaf: n.role is "leaf", its server is down     *)
(*   "demoted"   demoteToLeaf completed                                    *)
(*   "broken"    demoteToLeaf gave up ("manual restart required")          *)
(***************************************************************************)
EXTENDS Naturals, FiniteSets

CONSTANTS
  Nodes,      \* node names
  Forced,     \* nodes started with --seed, which skip the browse
  Times,      \* values of time.Now().Unix() (bounds the starts)
  Clock,      \* "distinct", "seconds" or "skewed", see MayStartAt
  Faults,     \* "leave": processes exit; "mdns": advertising fails
  Nobody      \* no node

ASSUME SeedElectionAssumption ==
  /\ Nodes \subseteq Nat
  /\ Forced \subseteq Nodes
  /\ Times \subseteq Nat \ {0}
  /\ Clock \in {"distinct", "seconds", "skewed"}
  /\ Faults \subseteq {"leave", "mdns"}
  /\ Nobody \notin Nodes

VARIABLES
  state,      \* see above
  startedAt,  \* n.startedAt, also the "started" record of the advertisement
  clock,      \* the latest startedAt so far
  named,      \* n.nodeName is set: New has connected to its own server
  advert,     \* role in the advertisement: "seed", "leaf", or "none" (no responder)
  heard,      \* the seeds the one-shot Browse has collected, with their start
  known,      \* the keys of d.peers
  seen,       \* the names seen in the current browse round
  pending,    \* the peers demoteToLeaf goroutines were spawned with
  up          \* the seed whose URL a leaf was given

bootVars == <<clock, startedAt, heard>>
browseVars == <<known, seen>>
vars == <<state, bootVars, named, advert, browseVars, pending, up>>

-----------------------------------------------------------------------------
\* Hosts with one clock that never start two nodes in the same second; with
\* one clock; or with clocks that disagree.
MayStartAt(s) ==
  CASE Clock = "distinct" -> s > clock
    [] Clock = "seconds"  -> s >= clock
    [] Clock = "skewed"   -> TRUE

\* The order the election follows: earlier start first, then the lower name.
Outranks(m, n) ==
  \/ startedAt[m] < startedAt[n]
  \/ startedAt[m] = startedAt[n] /\ m < n

\* Faulty variant: the older node gives way.
ShouldDemoteReversed(n, m) ==
  \/ startedAt[n] < startedAt[m]
  \/ startedAt[n] = startedAt[m] /\ named[n] /\ n > m

\* Faulty variant: on a tie both nodes give way.
ShouldDemoteOnTie(n, m) == startedAt[n] >= startedAt[m]

\* shouldDemote: until New sets n.nodeName, the name compared is "".
ShouldDemote(n, m) ==
  \/ startedAt[n] > startedAt[m]
  \/ startedAt[n] = startedAt[m] /\ named[n] /\ n > m

\* The records FindSeed may return: an earliest start among the seeds heard.
FindSeed(records) ==
  {r \in records : \A other \in records : r.started <= other.started}

\* A node whose embedded server accepts client connections.
Serving(m) == state[m] \in {"seed", "joined", "demoted"}

Init ==
  /\ state = [n \in Nodes |-> "down"]
  /\ startedAt = [n \in Nodes |-> 0]
  /\ clock = 0
  /\ named = [n \in Nodes |-> FALSE]
  /\ advert = [n \in Nodes |-> "none"]
  /\ heard = [n \in Nodes |-> {}]
  /\ known = [n \in Nodes |-> {}]
  /\ seen = [n \in Nodes |-> {}]
  /\ pending = [n \in Nodes |-> {}]
  /\ up = [n \in Nodes |-> Nobody]

-----------------------------------------------------------------------------
(* New.                                                                    *)

\* New up to the browse: startedAt is read before it, not after.
Boot(n) ==
  /\ state[n] = "down"
  /\ \E s \in Times :
       /\ MayStartAt(s)
       /\ startedAt' = [startedAt EXCEPT ![n] = s]
       /\ clock' = IF s > clock THEN s ELSE clock
  /\ state' = [state EXCEPT ![n] = "browsing"]
  /\ UNCHANGED <<named, advert, heard, browseVars, pending, up>>

\* The browse hears a seed's answer.  (Leaves' answers play no part.)
Hear(n, m) ==
  /\ state[n] = "browsing"
  /\ n \notin Forced
  /\ m # n
  /\ advert[m] = "seed"
  /\ heard' = [heard EXCEPT ![n] = @ \cup {[name |-> m, started |-> startedAt[m]]}]
  /\ UNCHANGED <<state, clock, startedAt, named, advert, browseVars, pending, up>>

\* No seed was heard: the node becomes one, advertises it and starts to browse.
BecomeSeed(n) ==
  /\ state[n] = "browsing"
  /\ heard[n] = {}
  /\ state' = [state EXCEPT ![n] = "seed"]
  /\ \E a \in {"seed", "none"} :
       /\ a = "none" => "mdns" \in Faults
       /\ advert' = [advert EXCEPT ![n] = a]
  /\ UNCHANGED <<bootVars, named, browseVars, pending, up>>

\* Faulty variant: what is advertised is not one of the two roles.
JoinSeedAdvertisesState(n) ==
  /\ state[n] = "browsing"
  /\ \E r \in FindSeed(heard[n]) : up' = [up EXCEPT ![n] = r.name]
  /\ state' = [state EXCEPT ![n] = "joined"]
  /\ advert' = [advert EXCEPT ![n] = "joined"]
  /\ heard' = [heard EXCEPT ![n] = {}]
  /\ UNCHANGED <<clock, startedAt, named, browseVars, pending>>

\* The node joins the oldest seed it heard, whatever that seed is by now.
JoinSeed(n) ==
  /\ state[n] = "browsing"
  /\ \E r \in FindSeed(heard[n]) : up' = [up EXCEPT ![n] = r.name]
  /\ state' = [state EXCEPT ![n] = "joined"]
  /\ \E a \in {"leaf", "none"} :
       /\ a = "none" => "mdns" \in Faults
       /\ advert' = [advert EXCEPT ![n] = a]
  /\ heard' = [heard EXCEPT ![n] = {}]
  /\ UNCHANGED <<clock, startedAt, named, browseVars, pending>>

\* New has connected its mesh client: n.nodeName is set.  The browse loop has
\* been running for a while by then.
SetNodeName(n) ==
  /\ state[n] = "seed"
  /\ ~named[n]
  /\ named' = [named EXCEPT ![n] = TRUE]
  /\ UNCHANGED <<state, bootVars, advert, browseVars, pending, up>>

-----------------------------------------------------------------------------
(* The browse loop of a seed.                                              *)

\* One answer in a round.  A peer that is not in d.peers yet is reported to
\* onPeerFound; a seed that should win spawns a demoteToLeaf goroutine.
\* (Once n.role is "leaf" onPeerFound returns at once: no action.)
Found(n, m) ==
  /\ state[n] = "seed"
  /\ advert[n] # "none"
  /\ m # n
  /\ m \notin seen[n]
  /\ advert[m] # "none"
  /\ seen' = [seen EXCEPT ![n] = @ \cup {m}]
  /\ known' = [known EXCEPT ![n] = @ \cup {m}]
  /\ pending' = IF m \notin known[n] /\ advert[m] = "seed" /\ ShouldDemote(n, m)
                  THEN [pending EXCEPT ![n] = @ \cup {m}]
                  ELSE pending
  /\ UNCHANGED <<state, bootVars, named, advert, up>>

\* The end of a round: peers that did not answer in it are forgotten.
RoundEnd(n) ==
  /\ state[n] = "seed"
  /\ advert[n] # "none"
  /\ known' = [known EXCEPT ![n] = @ \cap seen[n]]
  /\ seen' = [seen EXCEPT ![n] = {}]
  /\ UNCHANGED <<state, bootVars, named, advert, pending, up>>

-----------------------------------------------------------------------------
(* demoteToLeaf.                                                           *)

\* The role changes under the mutex; a second goroutine finds it "leaf" and
\* returns.  The mesh client and the server are then closed.
DemoteBegin(n, m) ==
  /\ m \in pending[n]
  /\ IF state[n] = "seed"
       THEN /\ state' = [state EXCEPT ![n] = "demoting"]
            /\ up' = [up EXCEPT ![n] = m]
       ELSE UNCHANGED <<state, up>>
  /\ pending' = [pending EXCEPT ![n] = @ \ {m}]
  /\ UNCHANGED <<bootVars, named, advert, browseVars>>

\* The leaf server is up and the mesh client has reached the chosen peer.  The
\* old advertisement is replaced; the new one may fail, or have no name yet.
DemoteFinish(n) ==
  /\ state[n] = "demoting"
  /\ Serving(up[n])
  /\ state' = [state EXCEPT ![n] = "demoted"]
  /\ \E a \in {"leaf", "none"} :
       /\ a = "none" => ("mdns" \in Faults \/ ~named[n])
       /\ advert' = [advert EXCEPT ![n] = a]
  /\ known' = [known EXCEPT ![n] = {}]
  /\ seen' = [seen EXCEPT ![n] = {}]
  /\ UNCHANGED <<bootVars, named, pending, up>>

\* The leaf server does not start, or the chosen peer does not accept
\* connections: demoteToLeaf returns early and the advertisement still says
\* "seed".
DemoteFail(n) ==
  /\ state[n] = "demoting"
  /\ state' = [state EXCEPT ![n] = "broken"]
  /\ UNCHANGED <<bootVars, named, advert, browseVars, pending, up>>

\* Close, a crash, or New returning an error: the process and its responder
\* are gone.
Leave(n) ==
  /\ "leave" \in Faults
  /\ state[n] # "down"
  /\ state' = [state EXCEPT ![n] = "down"]
  /\ startedAt' = [startedAt EXCEPT ![n] = 0]
  /\ named' = [named EXCEPT ![n] = FALSE]
  /\ advert' = [advert EXCEPT ![n] = "none"]
  /\ heard' = [heard EXCEPT ![n] = {}]
  /\ known' = [known EXCEPT ![n] = {}]
  /\ seen' = [seen EXCEPT ![n] = {}]
  /\ pending' = [pending EXCEPT ![n] = {}]
  /\ up' = [up EXCEPT ![n] = Nobody]
  /\ UNCHANGED clock

NodeStep(n) ==
  \/ Boot(n)
  \/ \E m \in Nodes : Hear(n, m)
  \/ BecomeSeed(n)
  \/ JoinSeed(n)
  \/ SetNodeName(n)
  \/ \E m \in Nodes : Found(n, m)
  \/ RoundEnd(n)
  \/ \E m \in Nodes : DemoteBegin(n, m)
  \/ DemoteFinish(n)
  \/ DemoteFail(n)
  \/ Leave(n)

Next == \E n \in Nodes : NodeStep(n)

Spec == Init /\ [][Next]_vars

\* New and demoteToLeaf run to their end, spawned goroutines run, and the
\* browse loop repeats: a responder that keeps answering is heard.
ElectionFairness ==
  \A n \in Nodes :
    /\ WF_vars(BecomeSeed(n) \/ JoinSeed(n))
    /\ WF_vars(SetNodeName(n))
    /\ WF_vars(RoundEnd(n))
    /\ WF_vars(DemoteFinish(n) \/ DemoteFail(n))
    /\ \A m \in Nodes : WF_vars(Found(n, m)) /\ WF_vars(DemoteBegin(n, m))

FairSpec == Spec /\ ElectionFairness

-----------------------------------------------------------------------------
(* Properties.                                                             *)

States == {"down", "browsing", "seed", "joined", "demoting", "demoted", "broken"}
Stamps == Times \cup {0}
Records == [name : Nodes, started : Stamps]

\* Every variable of the election has its type.
TypeOK ==
  /\ state \in [Nodes -> States]
  /\ startedAt \in [Nodes -> Stamps]
  /\ clock \in Stamps
  /\ named \in [Nodes -> BOOLEAN]
  /\ advert \in [Nodes -> {"seed", "leaf", "none"}]
  /\ heard \in [Nodes -> SUBSET Records]
  /\ known \in [Nodes -> SUBSET Nodes]
  /\ seen \in [Nodes -> SUBSET Nodes]
  /\ pending \in [Nodes -> SUBSET Nodes]
  /\ up \in [Nodes -> Nodes \cup {Nobody}]

\* As long as no process exits, resolving a split brain never leaves the mesh
\* without a seed: whoever gave up the role, or joined as a leaf, did so while
\* a seed exists, however many seeds demote at once and on however stale a
\* record (onPeerFound, demoteToLeaf).
SeedRemains ==
  (\E n \in Nodes : state[n] \notin {"down", "browsing"}) =>
     \E m \in Nodes : state[m] = "seed"

\* As long as no process exits, a seed gives up its role only to a node that
\* started earlier (or as early, with the lower name), so no two nodes can end
\* up as each other's leaves (shouldDemote).
DemotesUpward ==
  \A n \in Nodes :
    state[n] \in {"demoting", "demoted", "broken"} =>
      up[n] \in Nodes /\ Outranks(up[n], n)

\* Two seeds do not coexist for ever (the comment on the OnPeerFound wiring in
\* New: "if we're a seed and discover another seed, the newer one demotes").
SplitBrainHeals ==
  \A n, m \in Nodes :
    n < m => (state[n] = "seed" /\ state[m] = "seed"
                ~> ~(state[n] = "seed" /\ state[m] = "seed"))

\* A seed that discovers a seed it must give way to by the documented order
\* (node.go: "The older seed (lower StartedAt) wins. If timestamps match, lower
\* alphabetical node name wins.") starts its demotion then and there.
DiscoveryDemotes ==
  [][\A n, m \in Nodes :
       /\ state[n] = "seed" /\ state'[n] = "seed"
       /\ m \notin known[n] /\ m \in known'[n]
       /\ advert[m] = "seed" /\ Outranks(m, n)
       => m \in pending'[n]]_vars
=============================================================================
