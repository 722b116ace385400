------------------------------ MODULE MCReach ------------------------------
(* The settings of hosts and joiners that TLC looks at.                    *)
EXTENDS Reach, TLC

Service  == "service.onion"
LongHost == "a-very-long-name.onion"
LanHost  == "192.168.1.10"

Onions == {Service, LongHost}

Capital  == "SERVICE.ONION"

Desktop(byTor, bind, public, port) ==
    [app |-> "desktop", tor |-> byTor, bind |-> bind, public |-> public, port |-> port]

Cli(bind, public) == [app |-> "cli", bind |-> bind, public |-> public]

Command(addresses) == [app |-> "command", addresses |-> addresses]

Port(p) == Text("word", "", p)

Lan45123 == Pair(LanHost, DefaultPort)

LanMulti == Text("multi", LanHost, DefaultPort)

DirectHosts ==
    {Desktop(FALSE, b, p, DefaultPort) :
        b \in {Empty, Port(DefaultPort), Port(NotAPort), Pair(Loopback, 0),
               Pair(Loopback, DefaultPort), Pair(Loopback6, DefaultPort),
               Pair(Wildcard, DefaultPort), Pair(LanHost, NotAPort), LanMulti,
               Text("word", LanHost, 0)},
        p \in {Empty, Text("word", LanHost, 0), Pair(LanHost, 0), Lan45123, LanMulti,
               Pair(Localhost, DefaultPort), Pair(Loopback, DefaultPort),
               Pair(Loopback6, DefaultPort), Pair(Wildcard, DefaultPort),
               Pair(Capitals, DefaultPort), Pair(Mapped, DefaultPort),
               Pair(Wildcard6, DefaultPort)}}

TorHosts ==
    {Desktop(TRUE, b, Pair(Loopback, DefaultPort), port) :
        b \in {Empty, Pair(Loopback, 0)}, port \in {0, 443, NotAPort}}

CliHosts ==
    {Cli(b, p) : b \in {Pair(Wildcard, DefaultPort), Pair(Localhost, 0)},
                 p \in {{}, {Empty}, {Lan45123}, {LanMulti}}}

Commands ==
    {Command(a) : a \in
        {<<>>, <<Text("half", LanHost, 0)>>, <<Text("multi", Loopback, DefaultPort)>>,
         <<Text("multi", Service, 443)>>, <<Pair(Service, NotAPort)>>,
         <<Pair(Service, 443)>>, <<Pair(Capital, 443)>>, <<Text("onion", LongHost, 443)>>,
         <<Text("onion", LanHost, 443)>>, <<Lan45123, Pair(Service, 443)>>}}

Makers == DirectHosts \cup TorHosts \cup CliHosts \cup Commands

Joiners ==
    {[app |-> "desktop", tor |-> t, here |-> h] : t, h \in BOOLEAN}
    \cup {[app |-> "cli", tor |-> FALSE, here |-> h] : h \in BOOLEAN}

Segments == {1, 5, 30}
============================================================================
