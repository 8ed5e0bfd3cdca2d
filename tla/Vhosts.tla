------------------------------- MODULE Vhosts -------------------------------
(***************************************************************************)
(* caddy/model.go and render.go: from the labels of the tracked instances  *)
(* to the Caddyfile of one target.  Plugin.reconcile takes the instances   *)
(* out of a Go map, in an order of the run time's own; extractVhosts goes  *)
(* over them twice: it collects what the replicas of a service share, then *)
(* it adds a site for every route, or merges it into the site of the same  *)
(* domain.  render executes a template for each site, or fails.            *)
(*                                                                         *)
(* A label is its parsed entries, a domain the sequence of its names, a    *)
(* template one of a set of texts, of which some fail and some are blank.  *)
(* The {uri} suffix of redirects, an upstream flag without a value and the *)
(* flags that only custom templates read are left out, and so is the order *)
(* of the upstreams and of the blocks in the text.                         *)
(***************************************************************************)
EXTENDS Naturals, FiniteSets, Sequences, SequencesExt

CONSTANTS
    Instances,    \* running instances
    Labels,       \* the labels an instance may have
    Interfaces,   \* of each instance: a sequence of [network, address]
    Fixed,        \* an upstream given as host:port
    Files,        \* the template files: <<directory, name, extension>> to text
    Paths,        \* the templates that are file names
    TemplatesDir, \* where they are looked for before the working directory
    GlobalTemplate, \* global_template of the target
    Fails,        \* texts that do not parse or execute; Missing is one
    Blank,        \* texts of which nothing but white space comes
    Missing       \* what there is instead of the text of a file that is not there

VARIABLES
    labels,         \* the labels of each instance
    instances,      \* the slice that reconcile builds from p.instances
    pass,           \* of extractVhosts "collect", "emit"; the outcome of render
                    \* "rendered" or "failed"; at first "idle"
    pos,            \* the next instance to collect from
    serviceConfigs, \* what is collected for each service
    added,          \* the places of the entries that are in the vhosts
    vhostMap,       \* the vhost of each domain
    order,          \* the domains, in the order they came
    rendered        \* the blocks of the Caddyfile, without the global one

vars == <<labels, instances, pass, pos, serviceConfigs, added, vhostMap, order, rendered>>

VhostsAssumption == IsFiniteSet(Instances) /\ Missing \in Fails \ Blank

ASSUME VhostsAssumption

(***************************************************************************)
(* A label has: own and compose, the service by the target's prefix and by *)
(* incus-compose; network; site, the legacy domain label with its flags;   *)
(* aliases, the legacy redirs; routes, the structured ones; and other,     *)
(* whether there are labels of another target.                             *)
(***************************************************************************)
None == ""

NoSite == [domain |-> <<>>, redir |-> None, upstream |-> None, template |-> None,
           network |-> None, aliases |-> <<>>]
NoConfig == [site |-> NoSite, network |-> None, aliases |-> <<>>, routes |-> <<>>]

\* "if old is empty": of a string, a list, a site.
First(old, new) == IF old = None THEN new ELSE old
FirstList(old, new) == IF old = <<>> THEN new ELSE old
FirstSite(old, new) == IF old = NoSite THEN new ELSE old

\* resolveService.
Service(label) == First(label.own, label.compose)

HasLegacy(label) == label.site # NoSite \/ label.aliases # <<>>
HasRoutes(label) == label.routes # <<>>
Mixed(label) == HasLegacy(label) /\ HasRoutes(label)

\* hasTargetLabels: any label of any target's prefix.
HasTargetLabels(label) ==
    \/ label.other
    \/ HasLegacy(label) \/ HasRoutes(label) \/ label.own # None \/ label.network # None

-----------------------------------------------------------------------------
(* The sites.                                                              *)

Vhost(domain, service, upstreams, redirect, template) ==
    [domain |-> domain, service |-> service, upstreams |-> upstreams,
     redirect |-> redirect, template |-> template]

\* Mutant: a site keeps to the template it has come with.
MergedKeeping(old, new, redirect) ==
    Vhost(old.domain, First(old.service, new.service), old.upstreams \cup new.upstreams,
          redirect, old.template)

Merged(old, new, redirect) ==
    Vhost(old.domain, First(old.service, new.service), old.upstreams \cup new.upstreams,
          redirect, First(old.template, new.template))

Put(map, vhost) ==
    [domain \in DOMAIN map \cup {vhost.domain} |->
        IF domain = vhost.domain THEN vhost ELSE map[domain]]

\* Mutant: the redirect stays.
AddVhostKeeping(map, new) ==
    IF new.domain \notin DOMAIN map THEN Put(map, new)
    ELSE LET old == map[new.domain]
         IN  Put(map, Merged(old, new, First(old.redirect, new.redirect)))

\* A route: an upstream takes the place of an earlier redirect, then the first
\* redirect counts.
AddVhost(map, new) ==
    IF new.domain \notin DOMAIN map THEN Put(map, new)
    ELSE LET old == map[new.domain]
             kept == IF new.upstreams # {} /\ new.redirect = None THEN None ELSE old.redirect
         IN  Put(map, Merged(old, new, First(kept, new.redirect)))

\* An alias: it redirects unless the domain has something to serve.
AddRedirVhost(map, new) ==
    IF new.domain \notin DOMAIN map THEN Put(map, new)
    ELSE LET old == map[new.domain]
         IN  Put(map, Merged(old, new, IF old.upstreams = {} THEN First(old.redirect, new.redirect)
                                       ELSE old.redirect))

Add(map, entry) ==
    IF entry.kind = "primary" THEN AddVhost(map, entry.vhost)
    ELSE AddRedirVhost(map, entry.vhost)

\* Mutant: a place in the order for every route.
OrderedAlways(domain) == Append(order, domain)

Ordered(domain) == IF domain \in DOMAIN vhostMap THEN order ELSE Append(order, domain)

-----------------------------------------------------------------------------
(* What one instance contributes.                                          *)

\* resolveIPv4: an address on the network asked for, else the first one.
Address(i, network) ==
    LET valid == SelectSeq(Interfaces[i], LAMBDA interface : interface.address # None)
        there == SelectSeq(valid, LAMBDA interface : interface.network = network)
    IN  CASE there # <<>> /\ network # None -> Head(there).address
          [] valid # <<>> -> Head(valid).address
          [] OTHER -> None

At(address, port) == IF address = None THEN {} ELSE {<<address, port>>}

\* With a redirect an upstream has to be asked for; a port that is "false" or
\* "none" is one like any other.
LegacyUpstreams(site, address) ==
    CASE site.upstream = Fixed -> At(Fixed, None)
      [] site.upstream # None -> At(address, site.upstream)
      [] site.redir # None -> {}
      [] OTHER -> At(address, None)

StructuredUpstreams(route, address) ==
    CASE route.redir # None \/ route.upstream \in {"false", "none"} -> {}
      [] route.upstream = Fixed -> At(Fixed, None)
      [] OTHER -> At(address, route.upstream)

HasDomain(route) == route.domain # <<>>

\* Whether the legacy labels count, its own or those of the service.
IsLegacy(i, config) ==
    ~HasRoutes(labels[i]) /\ (HasLegacy(labels[i]) \/ config.routes = <<>>)

\* The legacy labels as a route; what an instance does not say itself, it has
\* from its service, and aliases that neither says are those flagged at the domain.
LegacyRoute(i, config) ==
    LET site == FirstSite(labels[i].site, config.site)
    IN  [domain |-> site.domain, redir |-> site.redir, upstream |-> site.upstream,
         template |-> site.template,
         network |-> First(site.network, First(labels[i].network, config.network)),
         aliases |-> FirstList(FirstList(labels[i].aliases, config.aliases), site.aliases)]

Routes(i, config) ==
    CASE Mixed(labels[i]) -> <<>>
      [] HasRoutes(labels[i]) -> labels[i].routes
      [] IsLegacy(i, config) -> <<LegacyRoute(i, config)>>
      [] OTHER -> config.routes

\* The routes are gone through with their aliases.  At <<r, 0>> comes the site of
\* the r-th route, if it has a domain; at <<r, a>> its a-th alias, unless that is
\* a name of the site itself or there is nowhere to redirect to.
Places(i, config) ==
    LET routes == Routes(i, config)
        Counts(route, a) ==
            IF a = 0 THEN HasDomain(route)
            ELSE /\ HasDomain(route) \/ (IsLegacy(i, config) /\ route.redir # None)
                 /\ route.aliases[a].name \notin ToSet(route.domain)
    IN  UNION {{r} \X {a \in 0 .. Len(routes[r].aliases) : Counts(routes[r], a)} :
                 r \in DOMAIN routes}

\* The aliases redirect to where the site redirects, or to its first name.
Entry(i, config, place) ==
    LET route == Routes(i, config)[place[1]]
        alias == route.aliases[place[2]]
        address == Address(i, First(route.network, labels[i].network))
        upstreams == IF IsLegacy(i, config) THEN LegacyUpstreams(route, address)
                     ELSE StructuredUpstreams(route, address)
    IN  IF place[2] = 0
        THEN [kind |-> "primary",
              vhost |-> Vhost(route.domain, Service(labels[i]), upstreams, route.redir,
                              route.template)]
        ELSE [kind |-> "alias",
              vhost |-> Vhost(<<alias.name>>, Service(labels[i]), {},
                              First(route.redir, Head(route.domain)), alias.template)]

\* The network a legacy label says.
Network(label) == First(label.site.network, label.network)

\* The routes of a label, if any has a domain; those without one are left out
\* when the routes are gone through.
ValidRoutes(label) ==
    IF \E r \in DOMAIN label.routes : HasDomain(label.routes[r]) THEN label.routes ELSE <<>>

\* The first of a service to say something says it for all.
Collected(config, label) ==
    IF HasRoutes(label)
    THEN [config EXCEPT !.routes = FirstList(@, ValidRoutes(label))]
    ELSE [config EXCEPT !.site = FirstSite(@, label.site),
                        !.network = First(@, Network(label)),
                        !.aliases = FirstList(@, label.aliases)]

-----------------------------------------------------------------------------
(* render.                                                                 *)

Directories == IF TemplatesDir = None THEN <<".">> ELSE <<TemplatesDir, ".">>

\* The first of the files that is there, be it broken.
Read(candidates) ==
    LET there == SelectSeq(candidates, LAMBDA file : file \in DOMAIN Files)
    IN  IF there = <<>> THEN Missing ELSE Files[Head(there)]

InDirectories(name, extensions) ==
    FlattenSeq([d \in DOMAIN Directories |->
                    [e \in DOMAIN extensions |-> <<Directories[d], name, extensions[e]>>]])

\* loadGlobalTemplate, of a name without an extension; None is the default.
GlobalText ==
    IF GlobalTemplate = None THEN None
    ELSE Read(InDirectories(GlobalTemplate, <<"", ".tmpl", ".caddyfile">>))

\* resolveTemplate: the default, a file, or the text itself.
Text(template) ==
    IF template \in Paths THEN Read(InDirectories(template, <<"">>)) ELSE template

Block(site) == [domain |-> site.domain, text |-> Text(site.template)]

Blocks == {Block(vhostMap[domain]) : domain \in ToSet(order)}

Failing == GlobalText \in Fails \/ \E block \in Blocks : block.text \in Fails

-----------------------------------------------------------------------------
Services == {Service(label) : label \in Labels}

\* processEvent keeps the instances with a label of the target only.
Relevant == {i \in Instances : HasTargetLabels(labels[i])}

\* The orders in which a range over p.instances may go.
Orders(set) == {seq \in [1 .. Cardinality(set) -> set] : ToSet(seq) = set}

Config(service) == IF service = None THEN NoConfig ELSE serviceConfigs[service]

\* The places of all instances, and what comes there.
AllPlaces ==
    UNION {LET i == instances[k] IN {k} \X Places(i, Config(Service(labels[i]))) :
             k \in DOMAIN instances}

EntryAt(p) == LET i == instances[p[1]] IN Entry(i, Config(Service(labels[i])), p[2])

Before(p, q) ==
    \/ p[1] < q[1]
    \/ p[1] = q[1] /\ p[2][1] < q[2][1]
    \/ p[1] = q[1] /\ p[2][1] = q[2][1] /\ p[2][2] < q[2][2]

\* Plugin.reconcile.
Reconcile ==
    /\ pass \in {"idle", "rendered", "failed"}
    /\ pass' = "collect"
    /\ pos' = 1
    /\ instances' \in Orders(Relevant)
    /\ serviceConfigs' = [s \in Services \ {None} |-> NoConfig]
    /\ added' = {}
    /\ vhostMap' = [domain \in {} |-> None]
    /\ order' = <<>>
    /\ rendered' = {}
    /\ UNCHANGED labels

\* Mutant: the mixed labels are not passed over.
CollectMixed ==
    /\ pass = "collect"
    /\ pos <= Len(instances)
    /\ LET label == labels[instances[pos]] IN
        serviceConfigs' =
            IF Service(label) = None THEN serviceConfigs
            ELSE [serviceConfigs EXCEPT ![Service(label)] = Collected(@, label)]
    /\ pos' = pos + 1
    /\ UNCHANGED <<labels, instances, pass, added, vhostMap, order, rendered>>

Collect ==
    /\ pass = "collect"
    /\ pos <= Len(instances)
    /\ LET label == labels[instances[pos]] IN
        serviceConfigs' =
            IF Service(label) = None \/ Mixed(label) THEN serviceConfigs
            ELSE [serviceConfigs EXCEPT ![Service(label)] = Collected(@, label)]
    /\ pos' = pos + 1
    /\ UNCHANGED <<labels, instances, pass, added, vhostMap, order, rendered>>

CollectEnd ==
    /\ pass = "collect"
    /\ pos > Len(instances)
    /\ pass' = "emit"
    /\ UNCHANGED <<labels, instances, pos, serviceConfigs, added, vhostMap, order, rendered>>

\* One call of addVhost or addRedirVhost.
Emit ==
    /\ pass = "emit"
    /\ \E p \in AllPlaces \ added :
        /\ \A q \in AllPlaces \ added : ~Before(q, p)
        /\ added' = added \cup {p}
        /\ vhostMap' = Add(vhostMap, EntryAt(p))
        /\ order' = Ordered(EntryAt(p).vhost.domain)
    /\ UNCHANGED <<labels, instances, pass, pos, serviceConfigs, rendered>>

\* extractVhosts has gone over all instances.
Extracted == pass = "emit" /\ added = AllPlaces

\* One template that fails fails them all: the target keeps its Caddyfile.
Render ==
    /\ Extracted
    /\ IF Failing
       THEN pass' = "failed" /\ UNCHANGED rendered
       ELSE pass' = "rendered" /\ rendered' = {block \in Blocks : block.text \notin Blank}
    /\ UNCHANGED <<labels, instances, pos, serviceConfigs, added, vhostMap, order>>

Init ==
    /\ labels \in [Instances -> Labels]
    /\ instances = <<>>
    /\ pass = "idle"
    /\ pos = 1
    /\ serviceConfigs = [s \in Services \ {None} |-> NoConfig]
    /\ added = {}
    /\ vhostMap = [domain \in {} |-> None]
    /\ order = <<>>
    /\ rendered = {}

Next == Reconcile \/ Collect \/ CollectEnd \/ Emit \/ Render

Spec == Init /\ [][Next]_vars

-----------------------------------------------------------------------------
(* What the labels ask for, without an order.                              *)

Said(service) ==
    {label \in {labels[i] : i \in Relevant} : Service(label) = service /\ ~Mixed(label)}

\* What the replicas of a service tell each other.
Sites(said) == {label.site : label \in said} \ {NoSite}
AliasLists(said) == {label.aliases : label \in said} \ {<<>>}
RouteLists(said) == {ValidRoutes(label) : label \in said} \ {<<>>}
Networks(said) == {Network(label) : label \in {l \in said : ~HasRoutes(l)}} \ {None}

AllEqual(set) == \A a, b \in set : a = b

\* The replicas of every service that say something say the same.
ServicesAgree ==
    \A s \in Services \ {None} :
        LET said == Said(s)
        IN  AllEqual(Sites(said)) /\ AllEqual(AliasLists(said)) /\ AllEqual(RouteLists(said))
              /\ AllEqual(Networks(said))

TheOne(set, none) == IF set = {} THEN none ELSE CHOOSE one \in set : TRUE

Shared(service) ==
    LET said == Said(service)
    IN  IF service = None THEN NoConfig
        ELSE [site |-> TheOne(Sites(said), NoSite), network |-> TheOne(Networks(said), None),
              aliases |-> TheOne(AliasLists(said), <<>>),
              routes |-> TheOne(RouteLists(said), <<>>)]

\* The entries of all instances.
Asked ==
    UNION {LET shared == Shared(Service(labels[i]))
           IN  {Entry(i, shared, place) : place \in Places(i, shared)} : i \in Relevant}

\* What a set of entries wants for a domain.
For(entries, domain) == {entry \in entries : entry.vhost.domain = domain}
Domains(entries) == {entry.vhost.domain : entry \in entries}
Upstreams(entries, domain) == UNION {entry.vhost.upstreams : entry \in For(entries, domain)}
Templates(entries, domain) == {entry.vhost.template : entry \in For(entries, domain)} \ {None}
Redirects(entries, domain, kind) ==
    {entry.vhost.redirect : entry \in {e \in For(entries, domain) : e.kind = kind}} \ {None}

\* No two entries want something else of one domain.
DomainAgrees(entries, domain) ==
    /\ AllEqual(Redirects(entries, domain, "primary"))
    /\ AllEqual(Redirects(entries, domain, "alias"))
    /\ Redirects(entries, domain, "primary") # {} =>
            Redirects(entries, domain, "alias") = {} /\ Upstreams(entries, domain) = {}

\* The redirect of a domain on which they agree.
Redirect(entries, domain) ==
    IF Redirects(entries, domain, "primary") # {}
    THEN TheOne(Redirects(entries, domain, "primary"), None)
    ELSE IF Upstreams(entries, domain) # {} THEN None
         ELSE TheOne(Redirects(entries, domain, "alias"), None)

-----------------------------------------------------------------------------
(* Properties.                                                             *)

\* The variables have their types; the order names every domain of the map,
\* and each once.
TypeOK ==
    /\ labels \in [Instances -> Labels]
    /\ instances \in Seq(Relevant)
    /\ pass \in {"idle", "collect", "emit", "rendered", "failed"}
    /\ pos \in 1 .. Len(instances) + 1
    /\ DOMAIN serviceConfigs = Services \ {None}
    /\ added \subseteq AllPlaces
    /\ order \in Seq(DOMAIN vhostMap)
    /\ ToSet(order) = DOMAIN vhostMap
    /\ \A k, l \in DOMAIN order : order[k] = order[l] => k = l

\* In whatever order the instances come, the site of a domain has the upstreams
\* of all instances that are routed under it, of replicas that have the route
\* only from their service too, and no others; there is a site for each domain.
UpstreamsMerged ==
    Extracted /\ ServicesAgree =>
        LET asked == Asked
        IN  /\ DOMAIN vhostMap = Domains(asked)
            /\ \A domain \in Domains(asked) :
                  vhostMap[domain].upstreams = Upstreams(asked, domain)

\* An alias never shadows a domain that has something to serve, and is not lost
\* otherwise, in whatever order aliases, routes and redirects come.
AliasesYield ==
    Extracted /\ ServicesAgree =>
        LET asked == Asked
        IN  \A domain \in DOMAIN vhostMap :
                DomainAgrees(asked, domain)
                => vhostMap[domain].redirect = Redirect(asked, domain)

\* The blocks that the entries want.
WantedBlocks(entries) ==
    {[domain |-> domain, text |-> Text(TheOne(Templates(entries, domain), None))] :
        domain \in Domains(entries)}

\* In whatever order the instances come: a Caddyfile has a block for every domain,
\* with the template any of its routes or aliases asks for, if no two ask for
\* different ones; and there is none at all exactly when one of those or the global
\* one fails.
TemplatesApply ==
    LET asked == Asked
        wanted == WantedBlocks(asked)
    IN  pass \in {"rendered", "failed"} /\ ServicesAgree
          /\ (\A domain \in Domains(asked) : AllEqual(Templates(asked, domain)))
        =>
            IF GlobalText \in Fails \/ \E block \in wanted : block.text \in Fails
            THEN pass = "failed"
            ELSE /\ pass = "rendered"
                 /\ rendered = {block \in wanted : block.text \notin Blank}
=============================================================================
