------------------------------ MODULE MCVhosts ------------------------------
(* Vhosts on a small instance: the constants' values.                      *)
EXTENDS Vhosts

Site(domain, redir, upstream, template, network) ==
    [domain |-> domain, redir |-> redir, upstream |-> upstream, template |-> template,
     network |-> network, aliases |-> <<>>]

Label(own, compose, network, site, aliases, routes) ==
    [own |-> own, compose |-> compose, network |-> network, site |-> site,
     aliases |-> aliases, routes |-> routes, other |-> FALSE]

Legacy(service, network, site, aliases) == Label(None, service, network, site, aliases, <<>>)
Structured(service, network, routes) == Label(None, service, network, NoSite, <<>>, routes)

Route(domain, redir, upstream, template, network, aliases) ==
    [domain |-> domain, redir |-> redir, upstream |-> upstream, template |-> template,
     network |-> network, aliases |-> aliases]

Alias(name, template) == [name |-> name, template |-> template]

A == <<"a">>
B == <<"b">>
AB == <<"a", "b">>

\* Only the service, and labels of another target.
OtherLabel == [Label(None, "api", None, NoSite, <<>>, <<>>) EXCEPT !.other = TRUE]

\* The domain label with a redirs flag.
FlaggedSite == [Site(A, "https://c", "1", None, None) EXCEPT !.aliases = <<Alias("c", None)>>]

MixedLabel ==
    Label(None, "api", None, Site(A, None, "1", None, None), <<>>,
          <<Route(B, None, "2", None, None, <<>>)>>)

\* Three instances, the second on two networks, the third without an address.
MCInstances == {"i1", "i2", "i3"}
MCInterfaces ==
    [i \in MCInstances |->
        CASE i = "i1" -> <<[network |-> "lan", address |-> "10.1"]>>
          [] i = "i2" -> <<[network |-> "dmz", address |-> None],
                           [network |-> "lan", address |-> "10.2"],
                           [network |-> "net", address |-> "10.3"]>>
          [] OTHER -> <<>>]

MCLabels ==
    {Label(None, "api", None, NoSite, <<>>, <<>>),
     Label("api", "web", None, NoSite, <<>>, <<>>),
     Label(None, "api", "net", NoSite, <<>>, <<>>),
     Label(None, None, "lan", NoSite, <<>>, <<>>),
     Legacy("api", None, Site(A, None, "1", None, None), <<>>),
     Legacy(None, None, Site(A, None, "1", None, "net"), <<Alias("b", "t.tmpl")>>),
     Legacy("web", None, Site(B, None, None, None, None), <<Alias("a", None), Alias("b", None)>>),
     Legacy(None, None, Site(AB, "https://b", None, "t.tmpl", None), <<Alias("b", None)>>),
     Legacy("api", None, FlaggedSite, <<>>),
     Legacy("api", None, NoSite, <<Alias("b", None)>>),
     Legacy("web", None, Site(<<>>, "https://d", None, None, None), <<Alias("a", None)>>),
     Legacy(None, "lan", Site(B, None, Fixed, "blank.tmpl", None), <<>>),
     Structured("web", "net", <<Route(B, None, "2", None, None, <<>>),
                                Route(<<>>, None, "3", None, None, <<>>),
                                Route(A, None, None, None, "lan", <<Alias("c", "lost.tmpl")>>)>>),
     Structured(None, None, <<Route(A, "https://b", "1", "{{bad", None, <<>>),
                              Route(B, None, "false", None, None, <<Alias("a", None)>>)>>),
     OtherLabel, MixedLabel}

\* One file in both directories, one that is broken in one, one that is nowhere.
MCFiles ==
    <<"templates", "t.tmpl", "">> :> "t" @@ <<".", "t.tmpl", "">> :> "{{bad"
    @@ <<".", "blank.tmpl", "">> :> "blank" @@ <<"templates", "global", ".tmpl">> :> "global"

MCPaths == {"t.tmpl", "blank.tmpl", "lost.tmpl"}
=============================================================================
