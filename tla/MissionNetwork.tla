---------------------------- MODULE MissionNetwork ----------------------------
(***************************************************************************)
(* The networks of one run's environment: what of the mission's compose    *)
(* file a deploy confines, where in the run's block each entry network,    *)
(* the router and the agent's callback address are put, and the watcher in *)
(* the router that follows the agent through its joins.  Compose and the   *)
(* inner Docker daemon, which attach the services in any order, are        *)
(* external.                                                               *)
(***************************************************************************)
EXTENDS Naturals, Sequences, FiniteSets, Functions

CONSTANTS
  Services,    \* the services of the mission
  Missions,    \* the mission bundles considered
  Block,       \* how many addresses a run's block has (a power of two)
  AgentNodes   \* how often the agent joins the tailnet

Default == "default"
EgressNet == "xorcise-egress"
Router == "xorcise-router"
NetworkNames == {"front", "back", Default, EgressNet}

\* attached: the networks a service names; pins: network -> last octet;
\* named: the top-level block; external: those another project owns
ASSUME MissionAssumption ==
  /\ Missions \subseteq [attached : [Services -> SUBSET NetworkNames],
                         pins : [Services -> UNION {[D -> 0..Block] : D \in SUBSET {"front", "back"}}],
                         named : SUBSET NetworkNames, external : SUBSET NetworkNames,
                         entries : Seq(NetworkNames), allowEgress : BOOLEAN, readable : BOOLEAN]
  /\ AgentNodes \in Nat

VARIABLES
  mission,   \* the bundle of the run
  stack,     \* how far the deploy is
  attached,  \* service -> entry network -> its address there
  online,    \* the agent's nodes the router sees online
  joined,    \* how often the agent joined
  cur,       \* the address the watcher points at, 0 for none
  target,    \* the address it is about to point at
  unpointed, \* the entry networks whose rule is still the old one
  nat        \* entry network -> its DNAT rules, the first one wins

networkVars == <<mission, stack, attached, online, joined, cur, target, unpointed, nat>>

(***************************************************************************)
(* carve_entry_subnets, and the addresses within a subnet                  *)
(***************************************************************************)
Entries == {mission.entries[i] : i \in DOMAIN mission.entries}

Halvings(entries) == CHOOSE k \in 0..3 : /\ 2 ^ k >= Len(entries)
                                         /\ k = 0 \/ 2 ^ (k - 1) < Len(entries)

SubnetSize(entries) == Block \div (2 ^ Halvings(entries))

\* bounds: the entry networks of a mission, and its services, which Docker's IPAM
\* numbers from below: the code counts on it that they do not reach the top addresses
ASSUME RoomAssumption ==
  /\ Block \in Nat /\ IsFiniteSet(Services) /\ Router \notin Services
  /\ \A m \in Missions : /\ Len(m.entries) <= 8
                         /\ Cardinality(Services) + 5 <= SubnetSize(m.entries)

Subnet(net) ==
  LET i == CHOOSE j \in DOMAIN mission.entries : mission.entries[j] = net
      size == SubnetSize(mission.entries)
  IN [first |-> (i - 1) * size, size |-> size]

HostIn(net, octet) == Subnet(net).first + octet

FromTop(net, offset) == Subnet(net).first + Subnet(net).size - 1 - offset

BugRouterAddress(net) == HostIn(net, 2)

IngressAddress(net) == FromTop(net, 1)
RouterAddress(net) == FromTop(net, 2)

\* static_ips on the networks that were carved
PinnedOn(s) == DOMAIN mission.pins[s] \cap Entries

BugTargets ==
  [s \in {s \in Services : PinnedOn(s) # {}} |->
     {mission.pins[s][net] : net \in PinnedOn(s)}]

\* target_ips_for: where the agent is told to find each pinned service; of
\* several networks the manifest's first, here each of them
Targets ==
  [s \in {s \in Services : PinnedOn(s) # {}} |->
     {HostIn(net, mission.pins[s][net]) : net \in PinnedOn(s)}]

(***************************************************************************)
(* What a deploy confines                                                  *)
(***************************************************************************)
BugNamed == Entries

\* compose_network_names: declared or attached by name, else the default one
Named ==
  LET names == mission.named \cup UNION {mission.attached[s] : s \in Services}
  IN IF names = {} THEN {Default} ELSE names

\* build_net_override: the networks it marks internal
Internal == IF mission.allowEgress THEN {} ELSE (Entries \cup Named) \ {EgressNet}

ReservedAddress ==
  \E s \in Services : \E net \in PinnedOn(s) :
    HostIn(net, mission.pins[s][net]) \in {RouterAddress(net), IngressAddress(net)}

\* _deploy_env and build_net_override refuse
Refuses ==
  \/ ~mission.allowEgress /\ (~mission.readable \/ mission.external # {})
  \/ ~mission.allowEgress /\ EgressNet \in Entries \cup Named
  \/ ReservedAddress

NetworkInit ==
  /\ mission \in Missions
  /\ stack = "asked"
  /\ attached = << >>
  /\ online = {} /\ joined = 0
  /\ cur = 0 /\ target = 0 /\ unpointed = {}
  /\ nat = << >>

DeployRefused ==
  /\ stack = "asked" /\ Refuses
  /\ stack' = "refused"
  /\ UNCHANGED <<mission, attached, online, joined, cur, target, unpointed, nat>>

DeployStarts ==
  /\ stack = "asked" /\ ~Refuses
  /\ stack' = "starting"
  /\ nat' = [net \in Entries |-> << >>]
  /\ UNCHANGED <<mission, attached, online, joined, cur, target, unpointed>>

(***************************************************************************)
(* compose up, on the bundle's file merged with the override               *)
(***************************************************************************)
\* the networks compose attaches a service to
Attaches(s) ==
  LET nets == mission.attached[s] \cup PinnedOn(s)
  IN IF nets = {} THEN {Default} ELSE nets

EntriesOf(c) == IF c = Router THEN Entries ELSE Attaches(c) \cap Entries

Pinned(c, net) == c = Router \/ net \in PinnedOn(c)

Pin(c, net) == IF c = Router THEN RouterAddress(net) ELSE HostIn(net, mission.pins[c][net])

\* an address Docker can give out: not the network's, the gateway's, the broadcast one
Vacant(net) ==
  LET sub == Subnet(net)
  IN (sub.first + 2 .. sub.first + sub.size - 2) \ {attached[c][net] : c \in {c \in DOMAIN attached : net \in EntriesOf(c)}}

\* bottom up, as Docker's IPAM does
Lowest(S) == CHOOSE x \in S : \A y \in S : x <= y

Attachable(c) ==
  \A net \in EntriesOf(c) :
    IF Pinned(c, net) THEN Pin(c, net) \in Vacant(net) ELSE Vacant(net) # {}

ContainerStarts(c) ==
  /\ stack = "starting" /\ c \notin DOMAIN attached /\ Attachable(c)
  /\ attached' = [d \in DOMAIN attached \cup {c} |->
       IF d = c
       THEN [net \in EntriesOf(c) |-> IF Pinned(c, net) THEN Pin(c, net) ELSE Lowest(Vacant(net))]
       ELSE attached[d]]
  /\ stack' = IF DOMAIN attached' = Services \cup {Router} THEN "up" ELSE "starting"
  /\ UNCHANGED <<mission, online, joined, cur, target, unpointed, nat>>

\* `Address already in use`: the entrypoint stops, and the environment with it
ContainerRefused(c) ==
  /\ stack = "starting" /\ c \notin DOMAIN attached /\ ~Attachable(c)
  /\ stack' = "failed"
  /\ UNCHANGED <<mission, attached, online, joined, cur, target, unpointed, nat>>

(***************************************************************************)
(* The agent joins the tailnet, and again under another address; the       *)
(* watcher in the router finds its node and moves the rules                *)
(***************************************************************************)
RouterRuns == stack \in {"starting", "up"} /\ Router \in DOMAIN attached

AgentJoins ==
  /\ RouterRuns /\ joined < AgentNodes
  /\ joined' = joined + 1 /\ online' = online \cup {joined + 1}
  /\ UNCHANGED <<mission, stack, attached, cur, target, unpointed, nat>>

NodeGoesOffline ==
  /\ RouterRuns
  /\ \E node \in online : online' = online \ {node}
  /\ UNCHANGED <<mission, stack, attached, joined, cur, target, unpointed, nat>>

WatcherLooks ==
  /\ RouterRuns /\ unpointed = {}
  /\ \E node \in online \ {cur} :
       target' = node /\ unpointed' = Entries
  /\ UNCHANGED <<mission, stack, attached, online, joined, cur, nat>>

BugMoved(rules) == Append(rules, target)

\* -D takes the first rule that matches away, if there is one
Deleted(rules, node) ==
  LET at == {i \in DOMAIN rules : rules[i] = node} IN
  IF at = {} THEN rules
  ELSE SubSeq(rules, 1, Lowest(at) - 1) \o SubSeq(rules, Lowest(at) + 1, Len(rules))

\* -D of the rule to the address pointed at so far, then -A
Moved(rules) == Append(Deleted(rules, cur), target)

WatcherMoves(net) ==
  /\ RouterRuns /\ net \in unpointed
  /\ nat' = [nat EXCEPT ![net] = Moved(@)]
  /\ unpointed' = unpointed \ {net}
  /\ cur' = IF unpointed' = {} THEN target ELSE cur
  /\ UNCHANGED <<mission, stack, attached, online, joined, target>>

\* the rule does not install: the router ends itself, and takes its rules along
WatcherFails ==
  /\ RouterRuns /\ unpointed # {}
  /\ stack' = "failed"
  /\ UNCHANGED <<mission, attached, online, joined, cur, target, unpointed, nat>>

NetworkNext ==
  \/ DeployRefused \/ DeployStarts
  \/ \E c \in Services \cup {Router} : ContainerStarts(c) \/ ContainerRefused(c)
  \/ AgentJoins \/ NodeGoesOffline
  \/ WatcherLooks \/ WatcherFails
  \/ \E net \in Entries : WatcherMoves(net)

NetworkSpec == NetworkInit /\ [][NetworkNext]_networkVars

(***************************************************************************)
(* Properties                                                              *)
(***************************************************************************)
Deployed == stack \in {"starting", "up"}

\* the networks the compose file names anywhere
Written == mission.named \cup UNION {mission.attached[s] : s \in Services}

\* what `internal: true` takes away, for a network this project creates
WayOut(net) == net \notin Internal \/ net \in mission.external

(***************************************************************************)
(* A deployed run that is not allowed egress has no service on a network   *)
(* its compose file names and that leads off the box, whichever of the     *)
(* mission's networks were carved and wherever else a service of theirs    *)
(* has a foot (_deploy_env, build_net_override).                           *)
(***************************************************************************)
NamedAreConfined ==
  Deployed /\ ~mission.allowEgress =>
    \A s \in Services : \A net \in Attaches(s) : net \in Written => ~WayOut(net)

(***************************************************************************)
(* "Every network a mission's compose will create" is confined: the same   *)
(* for each network compose attaches a service to.                         *)
(***************************************************************************)
AllAreConfined ==
  Deployed /\ ~mission.allowEgress => \A s \in Services : \A net \in Attaches(s) : ~WayOut(net)

(***************************************************************************)
(* In whatever order the containers come up, no service of the mission,    *)
(* pinned or not, gets the address of the router or the agent's callback   *)
(* address: the one would stop the router, and Docker does not know of the *)
(* other (ROUTER_OFFSET, _assert_reserved_addresses_free).                 *)
(***************************************************************************)
ReservedStayFree ==
  \A s \in DOMAIN attached \ {Router} : \A net \in DOMAIN attached[s] :
    attached[s][net] \notin {RouterAddress(net), IngressAddress(net)}

(***************************************************************************)
(* In a stack that is up a pinned service is where the prompt tells the    *)
(* agent to look, in the carved subnet and not in the run's block          *)
(* (target_ips_for, build_net_override).                                   *)
(***************************************************************************)
TargetsAreThere ==
  stack = "up" => \A s \in DOMAIN Targets : Targets[s] \subseteq Range(attached[s])

(***************************************************************************)
(* The router, the callback address and the services of a run each have    *)
(* the address the rest of the run expects them at.                        *)
(***************************************************************************)
AddressesHold == ReservedStayFree /\ TargetsAreThere

(***************************************************************************)
(* However often the agent joins again and whichever of its nodes are      *)
(* still online, between two moves of the watcher the callback address of  *)
(* every entry network leads to one and the same node (_INGRESS_WATCHER).  *)
(***************************************************************************)
CallbackHasOneTarget ==
  RouterRuns /\ unpointed = {} /\ cur # 0 =>
    \A net \in Entries : nat[net] # << >> /\ Head(nat[net]) = cur

\* The networks of a run are those it was given, its addresses are where the ACL and
\* the map say, and what calls back reaches one run (runner/netoverride.py).
NetworkIsConfined == NamedAreConfined /\ AddressesHold /\ CallbackHasOneTarget
=============================================================================
