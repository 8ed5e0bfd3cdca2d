---------------------------- MODULE VhostsProofs ----------------------------
(***************************************************************************)
(* What extractVhosts makes of the labels, for any labels and in any order *)
(* of the instances: the proof of the properties of Vhosts.                *)
(*                                                                         *)
(* The first pass keeps, for each service, one of the things its replicas  *)
(* have said so far; the second keeps, for each domain, a vhost that fits  *)
(* the set of the entries added so far.  At the end these are what all of  *)
(* them say and all of the entries, in which no order is left.             *)
(***************************************************************************)
EXTENDS Vhosts, FiniteSetTheorems, TLAPS

-----------------------------------------------------------------------------
(* The vhosts of a set of entries.                                         *)

\* One of the set, if there is one.
OneOf(value, set, none) == IF set = {} THEN value = none ELSE value \in set

VhostFits(vhost, domain, entries) ==
    /\ vhost.domain = domain
    /\ vhost.upstreams = Upstreams(entries, domain)
    /\ OneOf(vhost.template, Templates(entries, domain), None)
    /\ DomainAgrees(entries, domain) => vhost.redirect = Redirect(entries, domain)

VhostsFit(map, entries) ==
    /\ DOMAIN map = Domains(entries)
    /\ \A domain \in DOMAIN map : VhostFits(map[domain], domain, entries)

\* An entry as Entry makes them.
IsEntry(entry) ==
    /\ entry.kind \in {"primary", "alias"}
    /\ entry.kind = "alias" => entry.vhost.upstreams = {}

\* One of a set that agrees is the one of it.
LEMMA OneIsTheOne ==
    ASSUME NEW value, NEW set, NEW none, OneOf(value, set, none), AllEqual(set)
    PROVE  value = TheOne(set, none)
<1>1. CASE set = {}
  BY <1>1 DEF OneOf, TheOne
<1>2. CASE set # {}
  <2>1. value \in set
    BY <1>2 DEF OneOf
  <2>2. (CHOOSE one \in set : TRUE) \in set
    BY <1>2
  <2>. QED BY <1>2, <2>1, <2>2 DEF AllEqual, TheOne
<1>. QED BY <1>1, <1>2

\* What the first to say something says is one of the things said.
LEMMA FirstIsOneOf ==
    ASSUME NEW old, NEW new, NEW set, NEW none, NEW next,
           OneOf(old, set, none), next = (set \cup {new}) \ {none}, none \notin set
    PROVE  OneOf(IF old = none THEN new ELSE old, next, none)
<1>1. CASE set = {}
  BY <1>1 DEF OneOf
<1>2. CASE set # {}
  BY <1>2 DEF OneOf
<1>. QED BY <1>1, <1>2

\* An entry adds its own to what is wanted for its domain, and nothing to what
\* is wanted for another.
LEMMA DomainsGrow ==
    ASSUME NEW entries, NEW entry
    PROVE  /\ Domains(entries \cup {entry}) = Domains(entries) \cup {entry.vhost.domain}
           /\ \A other : other # entry.vhost.domain
                 => For(entries \cup {entry}, other) = For(entries, other)
  BY DEF Domains, For

LEMMA EntriesGrow ==
    ASSUME NEW entries, NEW entry
    PROVE  /\ Upstreams(entries \cup {entry}, entry.vhost.domain) =
                 Upstreams(entries, entry.vhost.domain) \cup entry.vhost.upstreams
           /\ Templates(entries \cup {entry}, entry.vhost.domain) =
                 (Templates(entries, entry.vhost.domain) \cup {entry.vhost.template}) \ {None}
<1>. DEFINE next == entries \cup {entry}
            domain == entry.vhost.domain
<1>1. For(next, domain) = For(entries, domain) \cup {entry}
  BY DEF For
<1>2. Upstreams(next, domain) = Upstreams(entries, domain) \cup entry.vhost.upstreams
  BY <1>1 DEF Upstreams
<1>3. Templates(next, domain) =
         (Templates(entries, domain) \cup {entry.vhost.template}) \ {None}
  BY <1>1 DEF Templates
<1>. QED BY <1>2, <1>3

\* So it does for the redirects of its kind.
LEMMA RedirectsGrow ==
    ASSUME NEW entries, NEW entry, NEW kind
    PROVE  Redirects(entries \cup {entry}, entry.vhost.domain, kind) =
              IF entry.kind = kind
              THEN (Redirects(entries, entry.vhost.domain, kind) \cup {entry.vhost.redirect})
                      \ {None}
              ELSE Redirects(entries, entry.vhost.domain, kind)
<1>. DEFINE domain == entry.vhost.domain
<1>1. For(entries \cup {entry}, domain) = For(entries, domain) \cup {entry}
  BY DEF For
<1>. QED BY <1>1 DEF Redirects

\* What fits a domain is a matter of the entries for it only.
LEMMA FitsByEntries ==
    ASSUME NEW vhost, NEW domain, NEW entries, NEW next, For(next, domain) = For(entries, domain),
           VhostFits(vhost, domain, entries)
    PROVE  VhostFits(vhost, domain, next)
<1>1. /\ Upstreams(next, domain) = Upstreams(entries, domain)
      /\ Templates(next, domain) = Templates(entries, domain)
      /\ \A kind : Redirects(next, domain, kind) = Redirects(entries, domain, kind)
  BY DEF Upstreams, Templates, Redirects
<1>2. DomainAgrees(next, domain) = DomainAgrees(entries, domain)
  BY <1>1 DEF DomainAgrees
<1>3. Redirect(next, domain) = Redirect(entries, domain)
  BY <1>1 DEF Redirect
<1>. QED BY <1>1, <1>2, <1>3 DEF VhostFits

\* So is every other member.
LEMMA MemberIsTheOne ==
    ASSUME NEW set, NEW none, NEW one \in set, AllEqual(set)
    PROVE  TheOne(set, none) = one
  BY OneIsTheOne, set # {} DEF OneOf

\* Entries that agree with one more agree without it.
LEMMA AgreedBefore ==
    ASSUME NEW entries, NEW entry, IsEntry(entry),
           DomainAgrees(entries \cup {entry}, entry.vhost.domain)
    PROVE  DomainAgrees(entries, entry.vhost.domain)
<1>. DEFINE next == entries \cup {entry}
            domain == entry.vhost.domain
<1>1. /\ \A kind : Redirects(entries, domain, kind) \subseteq Redirects(next, domain, kind)
      /\ Upstreams(entries, domain) \subseteq Upstreams(next, domain)
  BY DEF Redirects, Upstreams, For
<1>2. /\ AllEqual(Redirects(entries, domain, "primary"))
      /\ AllEqual(Redirects(entries, domain, "alias"))
  BY <1>1 DEF DomainAgrees, AllEqual
<1>3. ASSUME Redirects(entries, domain, "primary") # {}
      PROVE  Redirects(entries, domain, "alias") = {} /\ Upstreams(entries, domain) = {}
  <2>1. Redirects(next, domain, "primary") # {}
    BY <1>1, <1>3
  <2>2. Redirects(next, domain, "alias") = {} /\ Upstreams(next, domain) = {}
    BY <2>1 DEF DomainAgrees
  <2>. QED BY <2>2, <1>1
<1>. QED BY <1>2, <1>3 DEF DomainAgrees

\* addVhost, line by line: what it does to the redirect is what one more route
\* does to the redirect wanted.
LEMMA RouteRedirect ==
    ASSUME NEW entries, NEW entry, IsEntry(entry), entry.kind = "primary",
           DomainAgrees(entries \cup {entry}, entry.vhost.domain)
    PROVE  LET new == entry.vhost
               old == Redirect(entries, new.domain)
               kept == IF new.upstreams # {} /\ new.redirect = None THEN None ELSE old
           IN  Redirect(entries \cup {entry}, new.domain) = First(kept, new.redirect)
<1>. DEFINE next == entries \cup {entry}
            new == entry.vhost
            domain == new.domain
            routed == Redirects(entries, domain, "primary")
            aliased == Redirects(entries, domain, "alias")
            serving == Upstreams(entries, domain)
<1>1. /\ Upstreams(next, domain) = serving \cup new.upstreams
      /\ Redirects(next, domain, "primary") = (routed \cup {new.redirect}) \ {None}
      /\ Redirects(next, domain, "alias") = aliased
  <2>1. Upstreams(next, domain) = serving \cup new.upstreams
    BY EntriesGrow
  <2>2. Redirects(next, domain, "primary") = (routed \cup {new.redirect}) \ {None}
    BY RedirectsGrow
  <2>3. Redirects(next, domain, "alias") = aliased
    <3>1. entry.kind # "alias"
      OBVIOUS
    <3>. QED BY <3>1, RedirectsGrow
  <2>. QED BY <2>1, <2>2, <2>3
<1>2. None \notin routed /\ None \notin aliased
  BY DEF Redirects
<1>3. DomainAgrees(next, domain)
  OBVIOUS
<1>4. CASE new.redirect # None
  <2>1. new.redirect \in Redirects(next, domain, "primary")
    BY <1>1, <1>4
  <2>2. /\ AllEqual(Redirects(next, domain, "primary"))
        /\ aliased = {} /\ serving = {}
    BY <2>1, <1>1, <1>3 DEF DomainAgrees
  <2>3. Redirect(next, domain) = new.redirect
    BY <2>1, <2>2, MemberIsTheOne DEF Redirect
  <2>4. Redirect(entries, domain) \in {None, new.redirect}
    <3>1. CASE routed = {}
      BY <3>1, <2>2 DEF Redirect, TheOne
    <3>2. CASE routed # {}
      <4>1. PICK one \in routed : TRUE
        BY <3>2
      <4>2. one = new.redirect
        BY <4>1, <1>1, <1>2, <2>1, <2>2 DEF AllEqual
      <4>3. AllEqual(routed)
        BY <1>1, <1>2, <2>2 DEF AllEqual
      <4>. QED BY <3>2, <4>1, <4>2, <4>3, MemberIsTheOne DEF Redirect
    <3>. QED BY <3>1, <3>2
  <2>. QED BY <2>3, <2>4, <1>4 DEF First
<1>5. CASE new.redirect = None /\ new.upstreams # {}
  <2>1. Redirects(next, domain, "primary") = {}
    BY <1>1, <1>3, <1>5 DEF DomainAgrees
  <2>2. Redirect(next, domain) = None
    BY <2>1, <1>1, <1>5 DEF Redirect
  <2>. QED BY <2>2, <1>5 DEF First
<1>6. CASE new.redirect = None /\ new.upstreams = {}
  <2>1. /\ Upstreams(next, domain) = serving
        /\ Redirects(next, domain, "primary") = routed
    BY <1>1, <1>2, <1>6
  <2>2. Redirect(next, domain) = Redirect(entries, domain)
    BY <2>1, <1>1 DEF Redirect
  <2>. QED BY <2>2, <1>6 DEF First
<1>. QED BY <1>4, <1>5, <1>6

\* The same of addRedirVhost and one more alias.
LEMMA AliasRedirect ==
    ASSUME NEW entries, NEW entry, IsEntry(entry), entry.kind = "alias",
           DomainAgrees(entries \cup {entry}, entry.vhost.domain)
    PROVE  LET new == entry.vhost
               old == Redirect(entries, new.domain)
           IN  Redirect(entries \cup {entry}, new.domain) =
                  IF Upstreams(entries, new.domain) = {} THEN First(old, new.redirect) ELSE old
<1>. DEFINE next == entries \cup {entry}
            new == entry.vhost
            domain == new.domain
            routed == Redirects(entries, domain, "primary")
            aliased == Redirects(entries, domain, "alias")
            serving == Upstreams(entries, domain)
<1>1. /\ Upstreams(next, domain) = serving
      /\ Redirects(next, domain, "primary") = routed
      /\ Redirects(next, domain, "alias") = (aliased \cup {new.redirect}) \ {None}
  <2>1. Upstreams(next, domain) = serving \cup new.upstreams
    BY EntriesGrow
  <2>2. new.upstreams = {}
    BY DEF IsEntry
  <2>3. Redirects(next, domain, "primary") = routed
    <3>1. entry.kind # "primary"
      OBVIOUS
    <3>. QED BY <3>1, RedirectsGrow
  <2>4. Redirects(next, domain, "alias") = (aliased \cup {new.redirect}) \ {None}
    BY RedirectsGrow
  <2>. QED BY <2>1, <2>2, <2>3, <2>4
<1>2. None \notin routed /\ None \notin aliased
  BY DEF Redirects
<1>3. DomainAgrees(next, domain)
  OBVIOUS
<1>4. CASE new.redirect = None
  <2>1. Redirects(next, domain, "alias") = aliased
    BY <1>1, <1>2, <1>4
  <2>2. Redirect(next, domain) = Redirect(entries, domain)
    BY <2>1, <1>1 DEF Redirect
  <2>. QED BY <2>2, <1>4 DEF First
<1>5. CASE new.redirect # None
  <2>1. new.redirect \in Redirects(next, domain, "alias")
    BY <1>1, <1>5
  <2>2. routed = {} /\ AllEqual(Redirects(next, domain, "alias"))
    BY <2>1, <1>1, <1>3 DEF DomainAgrees
  <2>3. CASE serving # {}
    BY <2>2, <2>3, <1>1 DEF Redirect
  <2>4. CASE serving = {}
    <3>1. Redirect(next, domain) = new.redirect
      BY <2>1, <2>2, <2>4, <1>1, MemberIsTheOne DEF Redirect
    <3>2. Redirect(entries, domain) \in {None, new.redirect}
      <4>1. CASE aliased = {}
        BY <4>1, <2>2, <2>4 DEF Redirect, TheOne
      <4>2. CASE aliased # {}
        <5>1. PICK one \in aliased : TRUE
          BY <4>2
        <5>2. one = new.redirect
          BY <5>1, <1>1, <1>2, <2>1, <2>2 DEF AllEqual
        <5>3. AllEqual(aliased)
          BY <1>1, <1>2, <2>2 DEF AllEqual
        <5>. QED BY <2>2, <2>4, <5>1, <5>2, <5>3, MemberIsTheOne DEF Redirect
      <4>. QED BY <4>1, <4>2
    <3>. QED BY <3>1, <3>2, <2>4, <1>5 DEF First
  <2>. QED BY <2>3, <2>4
<1>. QED BY <1>4, <1>5
\* A domain no entry is for wants nothing.
LEMMA NothingWanted ==
    ASSUME NEW entries, NEW domain, domain \notin Domains(entries)
    PROVE  /\ Upstreams(entries, domain) = {}
           /\ Templates(entries, domain) = {}
           /\ Redirect(entries, domain) = None
<1>1. For(entries, domain) = {}
  BY DEF For, Domains
<1>2. Upstreams(entries, domain) = {} /\ Templates(entries, domain) = {}
  BY <1>1 DEF Upstreams, Templates
<1>3. ASSUME NEW kind PROVE Redirects(entries, domain, kind) = {}
  BY <1>1 DEF Redirects
<1>. QED BY <1>2, <1>3 DEF Redirect, TheOne

\* A vhost that is merged fits, if its redirect does.
LEMMA MergedFits ==
    ASSUME NEW entries, NEW entry, NEW old, NEW redirect,
           VhostFits(old, entry.vhost.domain, entries),
           DomainAgrees(entries \cup {entry}, entry.vhost.domain)
              => redirect = Redirect(entries \cup {entry}, entry.vhost.domain)
    PROVE  VhostFits(Merged(old, entry.vhost, redirect), entry.vhost.domain, entries \cup {entry})
<1>. DEFINE next == entries \cup {entry}
            new == entry.vhost
            domain == new.domain
            merged == Merged(old, new, redirect)
<1>1. /\ merged.domain = old.domain
      /\ merged.upstreams = old.upstreams \cup new.upstreams
      /\ merged.template = IF old.template = None THEN new.template ELSE old.template
      /\ merged.redirect = redirect
  BY DEF Merged, Vhost, First
<1>2. merged.domain = domain
  BY <1>1 DEF VhostFits
<1>3. merged.upstreams = Upstreams(next, domain)
  <2>1. Upstreams(next, domain) = Upstreams(entries, domain) \cup new.upstreams
    BY EntriesGrow
  <2>. QED BY <1>1, <2>1 DEF VhostFits
<1>4. OneOf(merged.template, Templates(next, domain), None)
  <2>1. Templates(next, domain) = (Templates(entries, domain) \cup {new.template}) \ {None}
    BY EntriesGrow
  <2>2. None \notin Templates(entries, domain)
    BY DEF Templates
  <2>3. OneOf(old.template, Templates(entries, domain), None)
    BY DEF VhostFits
  <2>4. OneOf(IF old.template = None THEN new.template ELSE old.template,
              (Templates(entries, domain) \cup {new.template}) \ {None}, None)
    <3>. HIDE DEF domain, new
    <3>. QED BY <2>2, <2>3, FirstIsOneOf
  <2>. QED BY <1>1, <2>1, <2>4
<1>. QED BY <1>1, <1>2, <1>3, <1>4 DEF VhostFits

\* The first entry for a domain fits as it is.
LEMMA NewFits ==
    ASSUME NEW entries, NEW entry, IsEntry(entry),
           entry.vhost.domain \notin Domains(entries)
    PROVE  VhostFits(entry.vhost, entry.vhost.domain, entries \cup {entry})
<1>. DEFINE next == entries \cup {entry}
            new == entry.vhost
            domain == new.domain
<1>1. /\ Upstreams(entries, domain) = {}
      /\ Templates(entries, domain) = {}
      /\ Redirect(entries, domain) = None
  BY NothingWanted
<1>2. new.upstreams = Upstreams(next, domain)
  <2>1. Upstreams(next, domain) = Upstreams(entries, domain) \cup new.upstreams
    BY EntriesGrow
  <2>. QED BY <1>1, <2>1
<1>3. OneOf(new.template, Templates(next, domain), None)
  <2>1. Templates(next, domain) = (Templates(entries, domain) \cup {new.template}) \ {None}
    BY EntriesGrow
  <2>. QED BY <1>1, <2>1 DEF OneOf
<1>4. ASSUME DomainAgrees(next, domain)
      PROVE  new.redirect = Redirect(next, domain)
  <2>1. CASE entry.kind = "primary"
    BY <1>1, <1>4, <2>1, RouteRedirect DEF First
  <2>2. CASE entry.kind = "alias"
    BY <1>1, <1>4, <2>2, AliasRedirect DEF First
  <2>. QED BY <2>1, <2>2 DEF IsEntry
<1>. QED BY <1>2, <1>3, <1>4 DEF VhostFits

\* addVhost and addRedirVhost keep every vhost what the entries want it to be.
LEMMA AddFits ==
    ASSUME NEW map, NEW entries, NEW entry, IsEntry(entry), VhostsFit(map, entries)
    PROVE  /\ VhostsFit(Add(map, entry), entries \cup {entry})
           /\ DOMAIN Add(map, entry) = DOMAIN map \cup {entry.vhost.domain}
<1>. DEFINE next == entries \cup {entry}
            new == entry.vhost
            domain == new.domain
            result == Add(map, entry)
            old == map[domain]
<1>1. \E vhost : result = Put(map, vhost) /\ VhostFits(vhost, domain, next)
  <2>1. CASE domain \notin DOMAIN map
    <3>1. result = Put(map, new)
      BY <2>1 DEF Add, AddVhost, AddRedirVhost
    <3>2. VhostFits(new, domain, next)
      BY <2>1, NewFits DEF VhostsFit
    <3>. QED BY <3>1, <3>2
  <2>2. CASE domain \in DOMAIN map /\ entry.kind = "primary"
    <3>. DEFINE kept == IF new.upstreams # {} /\ new.redirect = None THEN None ELSE old.redirect
                merged == Merged(old, new, First(kept, new.redirect))
    <3>1. result = Put(map, merged)
      BY <2>2 DEF Add, AddVhost
    <3>2. VhostFits(old, domain, entries)
      BY <2>2 DEF VhostsFit
    <3>3. ASSUME DomainAgrees(next, domain)
          PROVE  First(kept, new.redirect) = Redirect(next, domain)
      <4>1. old.redirect = Redirect(entries, domain)
        BY <3>2, <3>3, AgreedBefore DEF VhostFits
      <4>. QED BY <4>1, <2>2, <3>3, RouteRedirect
    <3>. QED BY <3>1, <3>2, <3>3, MergedFits
  <2>3. CASE domain \in DOMAIN map /\ entry.kind = "alias"
    <3>. DEFINE redirect == IF old.upstreams = {} THEN First(old.redirect, new.redirect)
                            ELSE old.redirect
                merged == Merged(old, new, redirect)
    <3>1. result = Put(map, merged)
      BY <2>3 DEF Add, AddRedirVhost
    <3>2. VhostFits(old, domain, entries)
      BY <2>3 DEF VhostsFit
    <3>3. ASSUME DomainAgrees(next, domain)
          PROVE  redirect = Redirect(next, domain)
      <4>1. /\ old.redirect = Redirect(entries, domain)
            /\ old.upstreams = Upstreams(entries, domain)
        BY <3>2, <3>3, AgreedBefore DEF VhostFits
      <4>. QED BY <4>1, <2>3, <3>3, AliasRedirect
    <3>. QED BY <3>1, <3>2, <3>3, MergedFits
  <2>. QED BY <2>1, <2>2, <2>3 DEF IsEntry
<1>2. PICK vhost : result = Put(map, vhost) /\ VhostFits(vhost, domain, next)
  BY <1>1
<1>3. vhost.domain = domain
  BY <1>2 DEF VhostFits
<1>4. /\ DOMAIN result = DOMAIN map \cup {domain}
      /\ result[domain] = vhost
      /\ \A other \in DOMAIN map : other # domain => result[other] = map[other]
  BY <1>2, <1>3 DEF Put
<1>5. DOMAIN result = Domains(next)
  BY <1>4, DomainsGrow DEF VhostsFit
<1>6. ASSUME NEW other \in DOMAIN result
      PROVE  VhostFits(result[other], other, next)
  <2>1. CASE other = domain
    BY <2>1, <1>2, <1>4
  <2>2. CASE other # domain
    <3>1. For(next, other) = For(entries, other)
      BY <2>2, DomainsGrow
    <3>2. VhostFits(map[other], other, entries)
      BY <2>2, <1>4, <1>6 DEF VhostsFit
    <3>. QED BY <2>2, <3>1, <3>2, <1>4, <1>6, FitsByEntries
  <2>. QED BY <2>1, <2>2
<1>. QED BY <1>4, <1>5, <1>6 DEF VhostsFit

-----------------------------------------------------------------------------
(* What is collected from a set of labels.                                 *)

ConfigFits(config, said) ==
    /\ config = [site |-> config.site, network |-> config.network,
                 aliases |-> config.aliases, routes |-> config.routes]
    /\ OneOf(config.site, Sites(said), NoSite)
    /\ OneOf(config.network, Networks(said), None)
    /\ OneOf(config.aliases, AliasLists(said), <<>>)
    /\ OneOf(config.routes, RouteLists(said), <<>>)

\* Of nothing said nothing is collected.
LEMMA NothingSaid == ConfigFits(NoConfig, {})
<1>1. /\ Sites({}) = {} /\ Networks({}) = {}
      /\ AliasLists({}) = {} /\ RouteLists({}) = {}
  BY DEF Sites, Networks, AliasLists, RouteLists
<1>. QED BY <1>1 DEF ConfigFits, OneOf, NoConfig

\* One more label that is not mixed says one thing more.
LEMMA CollectedFits ==
    ASSUME NEW config, NEW said, NEW label, ~Mixed(label), ConfigFits(config, said)
    PROVE  ConfigFits(Collected(config, label), said \cup {label})
<1>. DEFINE next == said \cup {label}
            result == Collected(config, label)
<1>1. /\ Sites(next) = (Sites(said) \cup {label.site}) \ {NoSite}
      /\ AliasLists(next) = (AliasLists(said) \cup {label.aliases}) \ {<<>>}
      /\ RouteLists(next) = (RouteLists(said) \cup {ValidRoutes(label)}) \ {<<>>}
  BY DEF Sites, AliasLists, RouteLists
<1>2. /\ NoSite \notin Sites(said) /\ <<>> \notin AliasLists(said)
      /\ <<>> \notin RouteLists(said) /\ None \notin Networks(said)
  BY DEF Sites, AliasLists, RouteLists, Networks
<1>3. CASE HasRoutes(label)
  <2>1. result = [site |-> config.site, network |-> config.network, aliases |-> config.aliases,
                  routes |-> FirstList(config.routes, ValidRoutes(label))]
    BY <1>3 DEF Collected, ConfigFits
  <2>2. label.site = NoSite /\ label.aliases = <<>>
    BY <1>3 DEF Mixed, HasLegacy
  <2>3. Sites(next) = Sites(said) /\ AliasLists(next) = AliasLists(said)
    BY <2>2, <1>1, <1>2
  <2>4. Networks(next) = Networks(said)
    BY <1>3 DEF Networks
  <2>5. OneOf(FirstList(config.routes, ValidRoutes(label)), RouteLists(next), <<>>)
    BY <1>1, <1>2, FirstIsOneOf DEF FirstList, ConfigFits
  <2>. QED BY <2>1, <2>3, <2>4, <2>5 DEF ConfigFits
<1>4. CASE ~HasRoutes(label)
  <2>1. result = [site |-> FirstSite(config.site, label.site),
                  network |-> First(config.network, Network(label)),
                  aliases |-> FirstList(config.aliases, label.aliases),
                  routes |-> config.routes]
    BY <1>4 DEF Collected, ConfigFits
  <2>2. ValidRoutes(label) = <<>>
    BY <1>4 DEF HasRoutes, ValidRoutes
  <2>3. RouteLists(next) = RouteLists(said)
    BY <2>2, <1>1, <1>2
  <2>4. Networks(next) = (Networks(said) \cup {Network(label)}) \ {None}
    BY <1>4 DEF Networks
  <2>5. OneOf(FirstSite(config.site, label.site), Sites(next), NoSite)
    BY <1>1, <1>2, FirstIsOneOf DEF FirstSite, ConfigFits
  <2>6. OneOf(First(config.network, Network(label)), Networks(next), None)
    BY <2>4, <1>2, FirstIsOneOf DEF First, ConfigFits
  <2>7. OneOf(FirstList(config.aliases, label.aliases), AliasLists(next), <<>>)
    BY <1>1, <1>2, FirstIsOneOf DEF FirstList, ConfigFits
  <2>. QED BY <2>1, <2>3, <2>5, <2>6, <2>7 DEF ConfigFits
<1>. QED BY <1>3, <1>4
-----------------------------------------------------------------------------
(* The inductive invariant.                                                *)

\* The labels gone over so far by the first pass, of a service.
Heard(service) ==
    {label \in {labels[instances[k]] : k \in 1 .. pos - 1} :
        Service(label) = service /\ ~Mixed(label)}

AddedEntries == {EntryAt(p) : p \in added}

\* How far the passes have come.
PassInv ==
    /\ pass # "idle" => ToSet(instances) = Relevant
    /\ pass \in {"idle", "collect"} => added = {}
    /\ pass \in {"emit", "rendered", "failed"} => pos > Len(instances)
    /\ pass \in {"rendered", "failed"} => added = AllPlaces

ConfigInv == \A s \in Services \ {None} : ConfigFits(serviceConfigs[s], Heard(s))

VhostsInv == VhostsFit(vhostMap, AddedEntries)

RenderInv ==
    /\ pass = "failed" => Failing
    /\ pass = "rendered" => ~Failing /\ rendered = {block \in Blocks : block.text \notin Blank}

IInv == TypeOK /\ PassInv /\ ConfigInv /\ VhostsInv /\ RenderInv

LEMMA EntryIsEntry ==
    ASSUME NEW i, NEW config, NEW place
    PROVE  IsEntry(Entry(i, config, place))
  BY DEF Entry, IsEntry, Vhost

\* No vhosts for no entries.
LEMMA NoVhosts == ASSUME NEW map, DOMAIN map = {} PROVE VhostsFit(map, {})
  BY DEF VhostsFit, Domains

LEMMA RelevantCardinality == Cardinality(Relevant) \in Nat
<1>1. IsFiniteSet(Relevant)
  BY VhostsAssumption, FS_Subset, Relevant \subseteq Instances DEF Relevant, VhostsAssumption
<1>. QED BY <1>1, FS_CardinalityType

\* A domain gets its place in the order the first time.
LEMMA OrderedOnce ==
    ASSUME TypeOK, NEW domain, NEW next, next = Ordered(domain),
           NEW domains, domains = DOMAIN vhostMap \cup {domain}
    PROVE  /\ next \in Seq(domains)
           /\ ToSet(next) = domains
           /\ \A k, l \in DOMAIN next : next[k] = next[l] => k = l
<1>1. /\ order \in Seq(DOMAIN vhostMap)
      /\ ToSet(order) = DOMAIN vhostMap
      /\ \A k, l \in DOMAIN order : order[k] = order[l] => k = l
  BY DEF TypeOK
<1>2. CASE domain \in DOMAIN vhostMap
  <2>1. next = order /\ domains = DOMAIN vhostMap
    BY <1>2 DEF Ordered
  <2>. QED BY <2>1, <1>1
<1>3. CASE domain \notin DOMAIN vhostMap
  <2>1. next = Append(order, domain)
    BY <1>3 DEF Ordered
  <2>2. order \in Seq(domains)
    BY <1>1
  <2>3. /\ next \in Seq(domains)
        /\ Len(next) = Len(order) + 1
        /\ DOMAIN next = 1 .. Len(order) + 1
        /\ DOMAIN order = 1 .. Len(order)
        /\ next[Len(order) + 1] = domain
        /\ \A k \in 1 .. Len(order) : next[k] = order[k]
    BY <2>1, <2>2
  <2>4. \A k \in 1 .. Len(order) : order[k] \in DOMAIN vhostMap
    BY <1>1
  <2>5. Len(order) \in Nat
    BY <1>1
  <2>6. ToSet(next) = domains
    <3>1. ToSet(next) \subseteq domains
      BY <2>3, <2>4, <2>5 DEF ToSet
    <3>2. ASSUME NEW d \in domains PROVE d \in ToSet(next)
      <4>1. CASE d = domain
        BY <4>1, <2>3, <2>5 DEF ToSet
      <4>2. CASE d \in DOMAIN vhostMap
        <5>1. PICK k \in DOMAIN order : order[k] = d
          BY <4>2, <1>1 DEF ToSet
        <5>. QED BY <5>1, <2>3, <2>5 DEF ToSet
      <4>. QED BY <4>1, <4>2
    <3>. QED BY <3>1, <3>2
  <2>7. ASSUME NEW k \in DOMAIN next, NEW l \in DOMAIN next, next[k] = next[l] PROVE k = l
    <3>1. CASE k \in DOMAIN order /\ l \in DOMAIN order
      BY <3>1, <2>3, <2>7, <1>1
    <3>2. CASE k \notin DOMAIN order /\ l \notin DOMAIN order
      BY <3>2, <2>3, <2>5
    <3>3. CASE k \in DOMAIN order /\ l \notin DOMAIN order
      BY <3>3, <2>3, <2>4, <2>5, <2>7, <1>3
    <3>4. CASE k \notin DOMAIN order /\ l \in DOMAIN order
      BY <3>4, <2>3, <2>4, <2>5, <2>7, <1>3
    <3>. QED BY <3>1, <3>2, <3>3, <3>4
  <2>. QED BY <2>3, <2>6, <2>7
<1>. QED BY <1>2, <1>3
\* The places and entries are those of the labels and of what is collected.
LEMMA SamePlaces ==
    ASSUME UNCHANGED <<labels, instances, serviceConfigs>>
    PROVE  /\ Relevant' = Relevant
           /\ AllPlaces' = AllPlaces
           /\ \A p : EntryAt(p)' = EntryAt(p)
<1>1. Relevant' = Relevant
  BY DEF Relevant
<1>2. AllPlaces' = AllPlaces
  BY DEF AllPlaces, Places, Routes, LegacyRoute, IsLegacy, Config
<1>3. \A p : EntryAt(p)' = EntryAt(p)
  BY DEF EntryAt, Entry, Routes, LegacyRoute, IsLegacy, Config
<1>. QED BY <1>1, <1>2, <1>3

LEMMA InvInit == Init => IInv
<1>. SUFFICES ASSUME Init PROVE IInv
  OBVIOUS
<1>1. TypeOK
  <2>1. /\ instances \in Seq(Relevant) /\ order \in Seq(DOMAIN vhostMap)
        /\ pos \in 1 .. Len(instances) + 1
    BY DEF Init
  <2>2. ToSet(order) = DOMAIN vhostMap
    BY DEF Init, ToSet
  <2>. QED BY <2>1, <2>2 DEF Init, TypeOK
<1>2. PassInv
  BY DEF Init, PassInv
<1>3. ConfigInv
  <2>1. ASSUME NEW s \in Services \ {None} PROVE ConfigFits(serviceConfigs[s], Heard(s))
    <3>1. Heard(s) = {}
      BY DEF Init, Heard
    <3>2. serviceConfigs[s] = NoConfig
      BY DEF Init
    <3>. QED BY <3>1, <3>2, NothingSaid
  <2>. QED BY <2>1 DEF ConfigInv
<1>4. VhostsInv
  <2>1. AddedEntries = {} /\ DOMAIN vhostMap = {}
    BY DEF Init, AddedEntries
  <2>. QED BY <2>1, NoVhosts DEF VhostsInv
<1>5. RenderInv
  BY DEF Init, RenderInv
<1>. QED BY <1>1, <1>2, <1>3, <1>4, <1>5 DEF IInv

LEMMA ReconcileInv == ASSUME IInv, Reconcile PROVE IInv'
<1>1. Relevant' = Relevant
  BY DEF Reconcile, Relevant
<1>2. /\ instances' \in [1 .. Cardinality(Relevant) -> Relevant]
      /\ ToSet(instances') = Relevant
  BY DEF Reconcile, Orders
<1>3. instances' \in Seq(Relevant) /\ Len(instances') \in Nat
  BY <1>2, RelevantCardinality
<1>4. TypeOK'
  <2>1. pos' \in 1 .. Len(instances') + 1
    BY <1>3 DEF Reconcile
  <2>2. DOMAIN vhostMap' = {} /\ order' = <<>>
    BY DEF Reconcile
  <2>3. /\ order' \in Seq(DOMAIN vhostMap')
        /\ ToSet(order') = DOMAIN vhostMap'
        /\ \A k, l \in DOMAIN order' : order'[k] = order'[l] => k = l
    BY <2>2 DEF ToSet
  <2>4. added' \subseteq AllPlaces'
    BY DEF Reconcile
  <2>5. DOMAIN serviceConfigs' = Services \ {None} /\ pass' = "collect"
    BY DEF Reconcile
  <2>6. labels' \in [Instances -> Labels]
    BY DEF Reconcile, IInv, TypeOK
  <2>. QED BY <1>1, <1>3, <2>1, <2>3, <2>4, <2>5, <2>6 DEF TypeOK
<1>5. PassInv'
  BY <1>1, <1>2 DEF Reconcile, PassInv
<1>6. ConfigInv'
  <2>1. ASSUME NEW s \in Services \ {None} PROVE ConfigFits(serviceConfigs'[s], Heard(s)')
    <3>1. Heard(s)' = {}
      BY DEF Reconcile, Heard
    <3>2. serviceConfigs'[s] = NoConfig
      BY DEF Reconcile
    <3>. QED BY <3>1, <3>2, NothingSaid
  <2>. QED BY <2>1 DEF ConfigInv
<1>7. VhostsInv'
  <2>1. AddedEntries' = {} /\ DOMAIN vhostMap' = {}
    BY DEF Reconcile, AddedEntries
  <2>. QED BY <2>1, NoVhosts DEF VhostsInv
<1>8. RenderInv'
  BY DEF Reconcile, RenderInv
<1>. QED BY <1>4, <1>5, <1>6, <1>7, <1>8 DEF IInv

LEMMA CollectInv == ASSUME IInv, Collect PROVE IInv'
<1>. DEFINE label == labels[instances[pos]]
            service == Service(label)
<1>1. /\ pass = "collect" /\ pos <= Len(instances) /\ pos' = pos + 1
      /\ serviceConfigs' = IF service = None \/ Mixed(label) THEN serviceConfigs
             ELSE [serviceConfigs EXCEPT ![service] = Collected(@, label)]
      /\ UNCHANGED <<labels, instances, pass, added, vhostMap, order, rendered>>
  BY DEF Collect
<1>2. /\ instances \in Seq(Relevant) /\ Len(instances) \in Nat
      /\ pos \in 1 .. Len(instances) + 1
      /\ DOMAIN serviceConfigs = Services \ {None}
  BY DEF IInv, TypeOK
<1>3. added = {}
  BY <1>1 DEF IInv, PassInv
<1>4. Relevant' = Relevant
  BY <1>1 DEF Relevant
<1>5. TypeOK'
  <2>1. pos' \in 1 .. Len(instances) + 1
    BY <1>1, <1>2
  <2>2. DOMAIN serviceConfigs' = Services \ {None}
    BY <1>1, <1>2
  <2>3. added' \subseteq AllPlaces'
    BY <1>1, <1>3
  <2>. QED BY <1>1, <1>4, <2>1, <2>2, <2>3 DEF IInv, TypeOK
<1>6. PassInv'
  BY <1>1, <1>4 DEF IInv, PassInv
<1>7. ConfigInv'
  <2>1. ASSUME NEW s \in Services \ {None} PROVE ConfigFits(serviceConfigs'[s], Heard(s)')
    <3>1. ConfigFits(serviceConfigs[s], Heard(s))
      BY DEF IInv, ConfigInv
    <3>2. Heard(s)' = IF service = s /\ ~Mixed(label) THEN Heard(s) \cup {label} ELSE Heard(s)
      <4>1. 1 .. pos' - 1 = (1 .. pos - 1) \cup {pos}
        BY <1>1, <1>2
      <4>2. {labels'[instances'[k]] : k \in 1 .. pos' - 1} =
            {labels[instances[k]] : k \in 1 .. pos - 1} \cup {label}
        BY <4>1, <1>1
      <4>. QED BY <4>2 DEF Heard
    <3>3. CASE service = s /\ ~Mixed(label)
      <4>1. serviceConfigs'[s] = Collected(serviceConfigs[s], label)
        BY <3>3, <1>1, <1>2
      <4>. QED BY <3>1, <3>2, <3>3, <4>1, CollectedFits
    <3>4. CASE ~(service = s /\ ~Mixed(label))
      <4>1. serviceConfigs'[s] = serviceConfigs[s]
        BY <3>4, <1>1, <1>2
      <4>. QED BY <3>1, <3>2, <3>4, <4>1
    <3>. QED BY <3>3, <3>4
  <2>. QED BY <2>1 DEF ConfigInv
<1>8. VhostsInv'
  <2>1. AddedEntries = {} /\ AddedEntries' = {}
    BY <1>1, <1>3 DEF AddedEntries
  <2>. QED BY <1>1, <2>1 DEF IInv, VhostsInv
<1>9. RenderInv'
  BY <1>1 DEF RenderInv
<1>. QED BY <1>5, <1>6, <1>7, <1>8, <1>9 DEF IInv

LEMMA CollectEndInv == ASSUME IInv, CollectEnd PROVE IInv'
<1>1. /\ pass = "collect" /\ pos > Len(instances) /\ pass' = "emit"
      /\ UNCHANGED <<labels, instances, pos, serviceConfigs, added, vhostMap, order, rendered>>
  BY DEF CollectEnd
<1>2. Relevant' = Relevant /\ AllPlaces' = AllPlaces /\ AddedEntries' = AddedEntries
  BY <1>1, SamePlaces DEF AddedEntries
<1>3. TypeOK'
  BY <1>1, <1>2 DEF IInv, TypeOK
<1>4. PassInv'
  BY <1>1, <1>2 DEF IInv, PassInv
<1>5. ConfigInv'
  BY <1>1 DEF IInv, ConfigInv, Heard
<1>6. VhostsInv'
  BY <1>1, <1>2 DEF IInv, VhostsInv
<1>7. RenderInv'
  BY <1>1 DEF RenderInv
<1>. QED BY <1>3, <1>4, <1>5, <1>6, <1>7 DEF IInv

LEMMA EmitInv == ASSUME IInv, Emit PROVE IInv'
<1>1. /\ pass = "emit"
      /\ UNCHANGED <<labels, instances, pass, pos, serviceConfigs, rendered>>
  BY DEF Emit
<1>2. PICK p \in AllPlaces \ added :
         /\ added' = added \cup {p}
         /\ vhostMap' = Add(vhostMap, EntryAt(p))
         /\ order' = Ordered(EntryAt(p).vhost.domain)
  BY DEF Emit
<1>. DEFINE entry == EntryAt(p)
<1>3. Relevant' = Relevant /\ AllPlaces' = AllPlaces
  BY <1>1, SamePlaces
<1>4. \A q : EntryAt(q)' = EntryAt(q)
  BY <1>1, SamePlaces
<1>5. AddedEntries' = AddedEntries \cup {entry}
  BY <1>2, <1>4 DEF AddedEntries
<1>6. IsEntry(entry)
  BY EntryIsEntry DEF EntryAt
<1>7. /\ VhostsFit(vhostMap', AddedEntries')
      /\ DOMAIN vhostMap' = DOMAIN vhostMap \cup {entry.vhost.domain}
  BY <1>2, <1>5, <1>6, AddFits DEF IInv, VhostsInv
<1>8. TypeOK'
  <2>1. added' \subseteq AllPlaces'
    BY <1>2, <1>3 DEF IInv, TypeOK
  <2>2. /\ order' \in Seq(DOMAIN vhostMap')
        /\ ToSet(order') = DOMAIN vhostMap'
        /\ \A k, l \in DOMAIN order' : order'[k] = order'[l] => k = l
    BY <1>2, <1>7, OrderedOnce DEF IInv
  <2>. QED BY <1>1, <1>3, <2>1, <2>2 DEF IInv, TypeOK
<1>9. PassInv'
  BY <1>1, <1>3 DEF IInv, PassInv
<1>10. ConfigInv'
  BY <1>1 DEF IInv, ConfigInv, Heard
<1>11. VhostsInv'
  BY <1>7 DEF VhostsInv
<1>12. RenderInv'
  BY <1>1 DEF RenderInv
<1>. QED BY <1>8, <1>9, <1>10, <1>11, <1>12 DEF IInv

LEMMA RenderStepInv == ASSUME IInv, Render PROVE IInv'
<1>1. /\ pass = "emit" /\ added = AllPlaces
      /\ UNCHANGED <<labels, instances, pos, serviceConfigs, added, vhostMap, order>>
      /\ IF Failing
         THEN pass' = "failed" /\ UNCHANGED rendered
         ELSE pass' = "rendered" /\ rendered' = {block \in Blocks : block.text \notin Blank}
  BY DEF Render, Extracted
<1>2. Relevant' = Relevant /\ AllPlaces' = AllPlaces /\ AddedEntries' = AddedEntries
  BY <1>1, SamePlaces DEF AddedEntries
<1>3. Blocks' = Blocks /\ Failing' = Failing
  BY <1>1 DEF Blocks, Failing
<1>4. TypeOK'
  BY <1>1, <1>2 DEF IInv, TypeOK
<1>5. PassInv'
  BY <1>1, <1>2 DEF IInv, PassInv
<1>6. ConfigInv'
  BY <1>1 DEF IInv, ConfigInv, Heard
<1>7. VhostsInv'
  BY <1>1, <1>2 DEF IInv, VhostsInv
<1>8. RenderInv'
  BY <1>1, <1>3 DEF RenderInv
<1>. QED BY <1>4, <1>5, <1>6, <1>7, <1>8 DEF IInv

LEMMA StutterInv == ASSUME IInv, UNCHANGED vars PROVE IInv'
<1>1. UNCHANGED <<labels, instances, pass, pos, serviceConfigs, added, vhostMap, order, rendered>>
  BY DEF vars
<1>2. Relevant' = Relevant /\ AllPlaces' = AllPlaces /\ AddedEntries' = AddedEntries
  BY <1>1, SamePlaces DEF AddedEntries
<1>3. Blocks' = Blocks /\ Failing' = Failing
  BY <1>1 DEF Blocks, Failing
<1>4. TypeOK' /\ PassInv'
  BY <1>1, <1>2 DEF IInv, TypeOK, PassInv
<1>5. ConfigInv'
  BY <1>1 DEF IInv, ConfigInv, Heard
<1>6. VhostsInv'
  BY <1>1, <1>2 DEF IInv, VhostsInv
<1>7. RenderInv'
  BY <1>1, <1>3 DEF IInv, RenderInv
<1>. QED BY <1>4, <1>5, <1>6, <1>7 DEF IInv

\* The inductive invariant holds in every reachable state.
LEMMA Invariant == Spec => []IInv
<1>1. IInv /\ [Next]_vars => IInv'
  BY ReconcileInv, CollectInv, CollectEndInv, EmitInv, RenderStepInv, StutterInv DEF Next
<1>. QED BY InvInit, <1>1, PTL DEF Spec
-----------------------------------------------------------------------------
(* At the end.                                                             *)

\* When all labels have been gone over and the replicas agree, what is collected
\* for a service is what its replicas share, whoever spoke first.
LEMMA CollectedIsShared ==
    ASSUME IInv, ServicesAgree, pass \in {"emit", "rendered", "failed"}, NEW s \in Services
    PROVE  Config(s) = Shared(s)
<1>1. CASE s = None
  BY <1>1 DEF Config, Shared
<1>2. CASE s # None
  <2>. DEFINE said == Said(s)
              config == serviceConfigs[s]
  <2>1. /\ instances \in Seq(Relevant) /\ pos \in 1 .. Len(instances) + 1
        /\ ToSet(instances) = Relevant /\ pos > Len(instances)
    BY DEF IInv, TypeOK, PassInv
  <2>2. 1 .. pos - 1 = DOMAIN instances
    BY <2>1
  <2>3. Heard(s) = said
    <3>1. {labels[instances[k]] : k \in DOMAIN instances} = {labels[i] : i \in Relevant}
      BY <2>1 DEF ToSet
    <3>. QED BY <2>2, <3>1 DEF Heard, Said
  <2>4. ConfigFits(config, said)
    BY <1>2, <2>3 DEF IInv, ConfigInv
  <2>5. /\ AllEqual(Sites(said)) /\ AllEqual(Networks(said))
        /\ AllEqual(AliasLists(said)) /\ AllEqual(RouteLists(said))
    BY <1>2 DEF ServicesAgree
  <2>6. /\ config.site = TheOne(Sites(said), NoSite)
        /\ config.network = TheOne(Networks(said), None)
        /\ config.aliases = TheOne(AliasLists(said), <<>>)
        /\ config.routes = TheOne(RouteLists(said), <<>>)
    BY <2>4, <2>5, OneIsTheOne DEF ConfigFits
  <2>7. config = Shared(s)
    BY <1>2, <2>4, <2>6 DEF ConfigFits, Shared
  <2>. QED BY <1>2, <2>7 DEF Config
<1>. QED BY <1>1, <1>2

\* Then the entries that have been added are those asked for, in no order.
LEMMA AddedIsAsked ==
    ASSUME IInv, ServicesAgree, pass \in {"emit", "rendered", "failed"}, added = AllPlaces
    PROVE  AddedEntries = Asked
<1>1. /\ instances \in Seq(Relevant) /\ ToSet(instances) = Relevant
      /\ labels \in [Instances -> Labels]
  BY DEF IInv, TypeOK, PassInv
<1>2. ASSUME NEW i \in Relevant PROVE Config(Service(labels[i])) = Shared(Service(labels[i]))
  <2>1. Service(labels[i]) \in Services
    BY <1>1 DEF Relevant, Services
  <2>. QED BY <2>1, CollectedIsShared
<1>3. ASSUME NEW p \in AllPlaces PROVE EntryAt(p) \in Asked
  <2>1. PICK k \in DOMAIN instances :
           p \in {k} \X Places(instances[k], Config(Service(labels[instances[k]])))
    BY DEF AllPlaces
  <2>. DEFINE i == instances[k]
              shared == Shared(Service(labels[i]))
  <2>2. i \in Relevant
    BY <1>1
  <2>3. p[1] = k /\ p[2] \in Places(i, shared)
    BY <1>2, <2>1, <2>2
  <2>4. EntryAt(p) = Entry(i, shared, p[2])
    BY <1>2, <2>2, <2>3 DEF EntryAt
  <2>. QED BY <2>2, <2>3, <2>4 DEF Asked
<1>4. ASSUME NEW entry \in Asked PROVE entry \in AddedEntries
  <2>1. PICK i \in Relevant :
           \E place \in Places(i, Shared(Service(labels[i]))) :
               entry = Entry(i, Shared(Service(labels[i])), place)
    BY DEF Asked
  <2>2. PICK place \in Places(i, Config(Service(labels[i]))) :
           entry = Entry(i, Config(Service(labels[i])), place)
    BY <1>2, <2>1
  <2>3. PICK k \in DOMAIN instances : instances[k] = i
    BY <1>1 DEF ToSet
  <2>4. <<k, place>> \in AllPlaces
    BY <2>2, <2>3 DEF AllPlaces
  <2>5. entry = EntryAt(<<k, place>>)
    BY <2>2, <2>3 DEF EntryAt
  <2>. QED BY <2>4, <2>5 DEF AddedEntries
<1>. QED BY <1>3, <1>4 DEF AddedEntries

\* The variables have their types, and the order of the domains names each of them
\* once, whatever is merged into what.
THEOREM VhostsTypeCorrect == Spec => []TypeOK
<1>1. IInv => TypeOK
  BY DEF IInv
<1>. QED BY Invariant, <1>1, PTL

\* extractVhosts, for any labels and any order of the instances: a site for each
\* domain that an instance or one of its replicas is routed under, with the
\* upstreams of all of them.
THEOREM EveryUpstreamMerged == Spec => []UpstreamsMerged
<1>1. IInv => UpstreamsMerged
  <2>. SUFFICES ASSUME IInv, Extracted, ServicesAgree
                PROVE  /\ DOMAIN vhostMap = Domains(Asked)
                       /\ \A domain \in Domains(Asked) :
                             vhostMap[domain].upstreams = Upstreams(Asked, domain)
    BY DEF UpstreamsMerged
  <2>1. AddedEntries = Asked
    BY AddedIsAsked DEF Extracted
  <2>. QED BY <2>1 DEF IInv, VhostsInv, VhostsFit, VhostFits
<1>. QED BY Invariant, <1>1, PTL

\* addVhost and addRedirVhost, in any order of their calls: an alias redirects
\* exactly when its domain has nothing to serve.
THEOREM AliasesAlwaysYield == Spec => []AliasesYield
<1>1. IInv => AliasesYield
  <2>. SUFFICES ASSUME IInv, Extracted, ServicesAgree, NEW domain \in DOMAIN vhostMap,
                       DomainAgrees(Asked, domain)
                PROVE  vhostMap[domain].redirect = Redirect(Asked, domain)
    BY DEF AliasesYield
  <2>1. AddedEntries = Asked
    BY AddedIsAsked DEF Extracted
  <2>. QED BY <2>1 DEF IInv, VhostsInv, VhostsFit, VhostFits
<1>. QED BY Invariant, <1>1, PTL

\* render, after any order of the merges: every domain has its block, with the
\* template that its labels ask for, or the Caddyfile is not made at all.
THEOREM TemplatesAlwaysApply == Spec => []TemplatesApply
<1>1. IInv => TemplatesApply
  <2>. DEFINE wanted == WantedBlocks(Asked)
  <2>. SUFFICES ASSUME IInv, pass \in {"rendered", "failed"}, ServicesAgree,
                       \A domain \in Domains(Asked) : AllEqual(Templates(Asked, domain))
                PROVE  IF GlobalText \in Fails \/ \E block \in wanted : block.text \in Fails
                       THEN pass = "failed"
                       ELSE /\ pass = "rendered"
                            /\ rendered = {block \in wanted : block.text \notin Blank}
    BY DEF TemplatesApply
  <2>1. AddedEntries = Asked
    BY AddedIsAsked DEF IInv, PassInv
  <2>2. DOMAIN vhostMap = Domains(Asked) /\ ToSet(order) = Domains(Asked)
    BY <2>1 DEF IInv, TypeOK, VhostsInv, VhostsFit
  <2>3. ASSUME NEW domain \in Domains(Asked)
        PROVE  Block(vhostMap[domain]) =
                  [domain |-> domain, text |-> Text(TheOne(Templates(Asked, domain), None))]
    <3>1. VhostFits(vhostMap[domain], domain, Asked)
      BY <2>1, <2>2 DEF IInv, VhostsInv, VhostsFit
    <3>2. vhostMap[domain].template = TheOne(Templates(Asked, domain), None)
      BY <3>1, OneIsTheOne DEF VhostFits
    <3>. QED BY <3>1, <3>2 DEF VhostFits, Block
  <2>4. Blocks = wanted
    BY <2>2, <2>3 DEF Blocks, WantedBlocks
  <2>5. Failing <=> GlobalText \in Fails \/ \E block \in wanted : block.text \in Fails
    BY <2>4 DEF Failing
  <2>. QED BY <2>4, <2>5 DEF IInv, RenderInv
<1>. QED BY Invariant, <1>1, PTL
=============================================================================
