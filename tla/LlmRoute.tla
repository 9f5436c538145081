--------------------------------- MODULE LlmRoute ---------------------------------
(***************************************************************************)
(* resolve_task_llm: which model, at which endpoint, a task is sent to.  With  *)
(* a manifest of profiles every endpoint is asked, one after another, what it    *)
(* has loaded, the compatible answers are ranked, and a cloud model is taken       *)
(* only if none is left; without one, resolve_user_llm adopts what the fleet        *)
(* serves.  The fleet changes while it is asked.                                    *)
(***************************************************************************)
EXTENDS Integers, Sequences, FiniteSets, SequencesExt

CONSTANTS None, Refused, NoModel,
          Endpoints,  \* base URLs of the fleet
          Managed,    \* those with a vllm-manager, which lists what it could load
          Home,       \* the fleet's nodes in order: [node, url]
          Models,
          Manifests,  \* sets of profiles
          Requests,   \* [caps, context]
          Owners,     \* [vllm, model, url]: what a user has configured
          MaxChanges  \* bound on the changes of the fleet during a resolution

Profile(node, model, caps, priority, context, url) ==
    [node |-> node, model |-> model, caps |-> caps, priority |-> priority,
     context |-> context, url |-> url, key |-> None]
\* A cloud profile: key says whether its API key is in the environment.
Cloud(p, key) == [p EXCEPT !.key = key]
Local(p)      == p.key = None

VARIABLES
    manifest, request, owner, cloud,   \* the configuration; cloud: fallback allowed
    loaded,     \* what each endpoint has loaded: NoModel if nothing, None if it is down
    changes,
    asking,     \* the endpoints still to be asked: [node, url]
    listing,    \* the list of the managed endpoint at the head, before its status
    inventory,  \* the profiles confirmed so far, with the endpoint of each
    route,      \* the decision: None, Refused, or [node, model, url]
    was         \* what has been loaded where, at some time since the start

config == <<manifest, request, owner, cloud>>
vars   == <<config, loaded, changes, asking, listing, inventory, route, was>>

\* The models an endpoint lists: a manager lists all it could load.
Listed(e) == IF loaded[e] = None THEN {}
             ELSE IF e \in Managed THEN Models
             ELSE Models \cap {loaded[e]}

HasProfiles == \E p \in manifest : Local(p)

\* _inventory_endpoints: the nodes', then those of the profiles, each once.
Targets(m) ==
    LET own == {[node |-> p.node, url |-> p.url] : p \in {q \in m : Local(q) /\ q.url # None}}
    IN  Home \o SetToSeq(own \ {Home[i] : i \in DOMAIN Home})

\* The fleet: an engine is stopped, started with another model, or lost.
Change(e) ==
    /\ changes < MaxChanges /\ route = None
    /\ \E m \in Models \cup {NoModel, None} :
         /\ loaded[e] # m
         /\ loaded' = [loaded EXCEPT ![e] = m]
    /\ was' = was \cup {<<f, loaded'[f]>> : f \in Endpoints}
    /\ changes' = changes + 1
    /\ UNCHANGED <<config, asking, listing, inventory, route>>

---------------------------------------------------------------------------------
(* discover_inventory and route_llm *)

Routing == HasProfiles /\ route = None
Here == Head(asking)

\* What an endpoint has confirmed of the local profiles of its node.
Confirm(models) ==
    inventory' = inventory \cup
        {[p |-> p, at |-> Here.url] : p \in {q \in manifest : Local(q) /\ q.node = Here.node /\ q.model \in models}}

Ask ==
    /\ Routing /\ asking # <<>> /\ listing = None
    /\ IF Here.url \in Managed /\ loaded[Here.url] # None
       THEN /\ listing' = Listed(Here.url)
            /\ UNCHANGED <<asking, inventory>>
       ELSE /\ Confirm(Listed(Here.url))
            /\ asking' = Tail(asking)
            /\ UNCHANGED listing
    /\ UNCHANGED <<config, loaded, changes, route, was>>

\* Mutant: the catalogue is taken for the inventory if the engine runs.
AskStatusAny ==
    /\ Routing /\ listing # None
    /\ Confirm(IF loaded[Here.url] \in Models THEN listing ELSE {})
    /\ asking' = Tail(asking) /\ listing' = None
    /\ UNCHANGED <<config, loaded, changes, route, was>>

\* _filter_sidecar_catalog: only the model that runs, if it is one of the list.
AskStatus ==
    /\ Routing /\ listing # None
    /\ Confirm(listing \cap {loaded[Here.url]})
    /\ asking' = Tail(asking) /\ listing' = None
    /\ UNCHANGED <<config, loaded, changes, route, was>>

Fits(p) == request.caps \subseteq p.caps /\ p.context >= request.context

Candidates == {o \in inventory : Fits(o.p)}
Clouds     == {p \in manifest : ~Local(p) /\ Fits(p) /\ p.key}

\* Mutant: the sign of the priority is lost.
BestAscending(S) == {p \in S : \A q \in S : p.priority <= q.priority}

\* Ties are broken by reliability, latency and name.
Best(S) == {p \in S : \A q \in S : q.priority <= p.priority}

Choose ==
    /\ Routing /\ asking = <<>>
    /\ \/ \E p \in Best({o.p : o \in Candidates}) : \E o \in Candidates :
            /\ o.p = p
            /\ route' = [node |-> p.node, model |-> p.model,
                         url |-> IF p.url # None THEN p.url ELSE o.at]
       \/ /\ Candidates = {} /\ cloud
          /\ \E p \in Best(Clouds) : route' = [node |-> p.node, model |-> p.model, url |-> p.url]
       \/ /\ Candidates = {} /\ (cloud => Clouds = {})
          /\ route' = Refused
    /\ UNCHANGED <<config, loaded, changes, asking, listing, inventory, was>>

---------------------------------------------------------------------------------
(* resolve_user_llm *)

Legacy == ~HasProfiles /\ route = None

\* The user's own endpoint is used whatever has been found elsewhere.
Decide(node, model, url) ==
    route' = [node |-> node, model |-> model, url |-> IF owner.url # None THEN owner.url ELSE url]

\* discover_fleet_model, or resolve_fleet_url for a model the user has pinned:
\* the first node that lists one, or lists that one.
Adopt ==
    /\ Legacy /\ owner.vllm /\ asking # <<>>
    /\ LET fit == IF owner.model = None THEN Listed(Here.url) ELSE Listed(Here.url) \cap {owner.model}
       IN  IF fit = {} THEN asking' = Tail(asking) /\ UNCHANGED route
           ELSE asking' = <<>> /\ \E m \in fit : Decide(Here.node, m, Here.url)
    /\ UNCHANGED <<config, loaded, changes, listing, inventory, was>>

\* Nothing was found, or another provider: the configured model or a default,
\* at the first node.
Default ==
    /\ Legacy /\ (owner.vllm => asking = <<>>)
    /\ Decide(None, IF owner.model = None THEN NoModel ELSE owner.model,
              IF Home = <<>> THEN None ELSE Home[1].url)
    /\ UNCHANGED <<config, loaded, changes, asking, listing, inventory, was>>

Init ==
    /\ manifest \in Manifests /\ request \in Requests /\ owner \in Owners /\ cloud \in BOOLEAN
    /\ loaded \in [Endpoints -> Models \cup {NoModel, None}]
    /\ changes = 0
    /\ asking = IF HasProfiles THEN Targets(manifest) ELSE Home
    /\ listing = None /\ inventory = {} /\ route = None
    /\ was = {<<e, loaded[e]>> : e \in Endpoints}

Next ==
    \/ \E e \in Endpoints : Change(e)
    \/ Ask \/ AskStatus \/ Choose \/ Adopt \/ Default

Spec == Init /\ [][Next]_vars

---------------------------------------------------------------------------------
(* Properties *)

Routed == route \notin {None, Refused}

ServedOn(node, model) ==
    \E i \in DOMAIN Targets(manifest) :
        Targets(manifest)[i].node = node /\ <<Targets(manifest)[i].url, model>> \in was

\* Once profiles are declared, a task goes to a model that can do it, and to one
\* that its node had really loaded at some time while the fleet was asked;
\* otherwise to a cloud model that is allowed, and else nowhere.
RouteSound ==
    (HasProfiles /\ Routed) =>
        \E p \in manifest :
            /\ p.node = route.node /\ p.model = route.model /\ Fits(p)
            /\ IF Local(p) THEN ServedOn(p.node, p.model) ELSE cloud /\ p.key /\ Candidates = {}

\* Neither a better local model that stayed loaded is passed over, nor a fitting
\* one in favour of the cloud or a refusal.
NonePassedOver ==
    (HasProfiles /\ route # None /\ changes = 0) =>
        \A p \in manifest : \A i \in DOMAIN Targets(manifest) :
            (/\ Local(p) /\ Fits(p)
             /\ Targets(manifest)[i].node = p.node
             /\ loaded[Targets(manifest)[i].url] = p.model) =>
                Routed /\ \E q \in manifest : /\ Local(q) /\ q.node = route.node /\ q.model = route.model
                                              /\ q.priority >= p.priority
=================================================================================
