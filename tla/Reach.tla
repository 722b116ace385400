------------------------------- MODULE Reach -------------------------------
(***************************************************************************)
(* From the settings of a host to the socket of a joiner: what the host    *)
(* binds and publishes, which address its invite carries, and where that   *)
(* address leads the one who joins with it, on the same computer or on     *)
(* another one, directly or through Tor (Socks).                           *)
(*                                                                         *)
(* An invite comes from the desktop app, from `fauna host` or from `fauna  *)
(* invite`, which takes any addresses; it is read by the desktop app or by *)
(* `fauna join`.  The network between the computers works: a direct        *)
(* connection fails only if nobody listens there.                          *)
(***************************************************************************)
EXTENDS Addresses, Socks

CONSTANTS
    HostSettings,   \* the ways to make an invite that are looked at
    JoinSettings,   \* the ways to join
    Lan,            \* the address of the host's computer in the local network
    Name,           \* the name Tor gives to the host's service
    OtherNames,     \* other names that no computer here has: ".ONION" ones too
    FreePort        \* the port the system chooses for a bind to port 0

\* Names that a computer has for itself; there are more of each kind.
LocalNames == {Localhost, Capitals}

OwnNames == {Loopback, Loopback6, Mapped, Wildcard, Wildcard6} \cup LocalNames

Hosts == OwnNames \cup Onion \cup OtherNames \cup {Lan, ""}

Texts == [form : {"empty", "word", "pair", "onion", "multi", "half"},
          host : Hosts, port : Nat]

\* The settings of a window, the arguments of `fauna host`, whose public
\* address may be left out, and those of `fauna invite`.
HostTypes ==
    [app : {"desktop"}, tor : BOOLEAN, bind : Texts, public : Texts, port : Nat]
    \cup [app : {"cli"}, bind : Texts, public : SUBSET Texts]
    \cup [app : {"command"}, addresses : Seq(Texts)]

JoinTypes == [app : {"desktop", "cli"}, tor : BOOLEAN, here : BOOLEAN]

ASSUME ReachAssumption ==
    /\ HostSettings \subseteq HostTypes /\ JoinSettings \subseteq JoinTypes
    /\ \A s \in HostSettings : s.app = "cli" => \A t, u \in s.public : t = u
    /\ Name \in Onion /\ Lan \notin Onion \cup OtherNames \cup OwnNames
    /\ OtherNames \cap (Onion \cup OwnNames) = {}
    /\ FreePort \in 1..MaxPort

VARIABLES
    by,         \* how the host makes the invite: one of HostSettings
    hosting,    \* where the host is
    local,      \* the address that its listener is bound to
    service,    \* the onion service, as Tor has it: {} or one record
    link,       \* the invite that the host shows: {} or one link
    from,       \* how the joiner joins: one of JoinSettings
    pasted,     \* the text that the joiner uses: {} or one link
    tor,        \* tor_enabled of the joiner
    prepared,   \* prepare_tor_config has given him a SOCKS address
    joining,    \* where the joiner is
    dialed,     \* the addresses given to TcpStream::connect
    met         \* who answered

hostVars == <<by, hosting, local, service, link>>
joinVars == <<from, pasted, tor, prepared, joining, dialed, met>>
vars     == <<hostVars, joinVars, socks>>

Init ==
    /\ by \in HostSettings
    /\ hosting = "start"
    /\ local = Empty
    /\ service = {}
    /\ link = {}
    /\ from \in JoinSettings
    /\ pasted = {}
    /\ tor = from.tor
    /\ prepared = FALSE
    /\ joining = "start"
    /\ dialed = {}
    /\ met = "nobody"
    /\ SocksInit

----------------------------------------------------------------------------
(* The host: start_host and host_network, or the commands of the CLI.      *)

Direct(settings) == settings.app = "desktop" /\ ~ settings.tor

\* What start_host does not accept (Tor has been started by then, if need be).
FieldIsEmpty ==
    /\ by.app = "desktop"
    /\ IF by.tor THEN by.bind = Empty ELSE by.public = Empty

HostRefuses ==
    /\ hosting = "start"
    /\ FieldIsEmpty
    /\ hosting' = "failed"
    /\ UNCHANGED <<by, local, service, link, joinVars, socks>>

BindAddress == IF Direct(by) THEN NormalizeDirectBindAddr(by.bind) ELSE by.bind

\* An address of the computer and a port.
Bindable(text) == text.form = "pair" /\ text.host \in OwnNames \cup {Lan} /\ Parses(text.port)

\* The listener's port is known when the bind returns.
BindListener ==
    /\ hosting = "start"
    /\ by.app # "command" /\ ~ FieldIsEmpty
    /\ Bindable(BindAddress)
    /\ local' = Pair(IF BindAddress.host \in LocalNames THEN Loopback ELSE BindAddress.host,
                     IF BindAddress.port = 0 THEN FreePort ELSE BindAddress.port)
    /\ hosting' = "bound"
    /\ UNCHANGED <<by, service, link, joinVars, socks>>

BindFails ==
    /\ hosting = "start"
    /\ by.app # "command" /\ ~ FieldIsEmpty
    /\ ~ Bindable(BindAddress)
    /\ hosting' = "failed"
    /\ UNCHANGED <<by, local, service, link, joinVars, socks>>

\* Tor forwards the virtual port to the listener; it takes no port 0.
PublishOnion ==
    /\ hosting = "bound"
    /\ by.app = "desktop" /\ by.tor
    /\ ServicePort(by.port) # 0
    /\ service' = {[virtual |-> ServicePort(by.port), forward |-> local]}
    /\ hosting' = "published"
    /\ UNCHANGED <<by, local, link, joinVars, socks>>

PublishFails ==
    /\ hosting = "bound"
    /\ by.app = "desktop" /\ by.tor
    /\ hosting' = "failed"
    /\ UNCHANGED <<by, local, service, link, joinVars, socks>>

\* Mutant: the text of the setting goes into the invite.
AdvertisedSetting ==
    CASE by.app = "desktop" /\ by.tor   -> Text("onion", Name, by.port)
      [] by.app = "desktop" /\ ~ by.tor -> NormalizeDirectPublicAddr(by.public, local)
      [] by.app = "cli"                 -> IF by.public = {} THEN by.bind
                                           ELSE CHOOSE text \in by.public : TRUE

\* The CLI shares its public address as it is, an empty one too, or else the
\* text it binds.
Advertised ==
    CASE by.app = "desktop" /\ by.tor   -> Text("onion", Name, ServicePort(by.port))
      [] by.app = "desktop" /\ ~ by.tor -> NormalizeDirectPublicAddr(by.public, local)
      [] by.app = "cli"                 -> IF by.public = {} THEN by.bind
                                           ELSE CHOOSE text \in by.public : TRUE

CreateInvite ==
    /\ IF by.app = "desktop" /\ by.tor THEN hosting = "published" ELSE hosting = "bound"
    /\ hosting' = "listening"
    /\ link' = {Encode(WithAddress(NewInvite, Advertised))}
    /\ UNCHANGED <<by, local, service, joinVars, socks>>

\* `fauna invite --addr ..`: nobody listens on behalf of this invite.
InviteCommand ==
    /\ hosting = "start"
    /\ by.app = "command"
    /\ hosting' = "over"
    /\ link' = {Encode([NewInvite EXCEPT !.addresses = by.addresses])}
    /\ UNCHANGED <<by, local, service, joinVars, socks>>

----------------------------------------------------------------------------
(* The joiner: start_join and join_network, or `fauna join`.               *)

\* The user pastes what was passed on, or a spoiled copy of it.
Copies == link \cup {[l EXCEPT !.intact = FALSE] : l \in link}

\* An onion invite switches Tor on, before Tor is prepared.
StartJoin ==
    /\ joining = "start"
    /\ from.app = "desktop"
    /\ \E l \in Copies :
          /\ pasted' = {l}
          /\ tor' = (tor \/ InviteContainsOnion(l))
          /\ joining' = IF tor' THEN "prepare" ELSE "read"
    /\ UNCHANGED <<hostVars, from, prepared, dialed, met, socks>>

\* prepare_tor_config: a Tor that has to be started may fail to, or leave the
\* window waiting for ever (see the module ManagedTor).
PrepareTor ==
    /\ joining = "prepare"
    /\ \/ prepared' = TRUE /\ joining' = "read"
       \/ UNCHANGED prepared /\ joining' = "failed"
    /\ UNCHANGED <<hostVars, from, pasted, tor, dialed, met, socks>>

CliJoin ==
    /\ joining = "start"
    /\ from.app = "cli"
    /\ \E l \in Copies : pasted' = {l}
    /\ joining' = "read"
    /\ UNCHANGED <<hostVars, from, tor, prepared, dialed, met, socks>>

\* Invite::decode, and the first of its addresses.
Address == {i.addresses[1] : i \in {i \in UNION {Decode(l) : l \in pasted} :
                                       i.addresses # <<>>}}

ReadInvite ==
    /\ joining = "read"
    /\ joining' = IF Address = {} THEN "failed" ELSE "connect"
    /\ UNCHANGED <<hostVars, from, pasted, tor, prepared, dialed, met, socks>>

ByTor(text) == from.app = "desktop" /\ NamesOnion(text)

\* connect_to_invite_address of an onion address.
ConnectByTor ==
    /\ joining = "connect"
    /\ \E text \in Address :
          /\ ByTor(text)
          /\ \/ \E t \in OnionTarget(text) : DialOnion(t) /\ joining' = "tor"
             \/ OnionTarget(text) = {} /\ joining' = "failed" /\ UNCHANGED socks
    /\ UNCHANGED <<hostVars, from, pasted, tor, prepared, dialed, met>>

\* The desktop app looks at the normalized address, the CLI at none.
Refuses(text) == from.app = "desktop" /\ (\E t \in NormalizeAddress(text) : OnlyThisComputer(t))

RefuseAddress ==
    /\ joining = "connect"
    /\ \E text \in Address :
          ~ ByTor(text) /\ (Refuses(text) \/ NormalizeAddress(text) = {})
    /\ joining' = "failed"
    /\ UNCHANGED <<hostVars, from, pasted, tor, prepared, dialed, met, socks>>

\* Whom a connect() finds: the inviter's listener, or some other program of
\* the joiner's own computer.
Listens(l, text) ==
    /\ text.form = "pair"
    /\ l.port = text.port
    /\ \/ l.host = text.host
       \/ l.host = Wildcard /\ text.host \notin {Loopback6, Wildcard6}
       \/ l.host = Wildcard6
       \/ l.host \in {Loopback, Mapped}
             /\ text.host \in {Loopback, Mapped, Wildcard} \cup LocalNames
       \/ l.host = Loopback6 /\ text.host \in {Wildcard6} \cup LocalNames

AtInviter(text) == IF from.here THEN text.host \in OwnNames \cup {Lan} ELSE text.host = Lan

Found(text) ==
    {who \in {"inviter", "itself"} :
        IF who = "inviter"
        THEN hosting = "listening" /\ AtInviter(text) /\ Listens(local, text)
        ELSE ~ from.here /\ text.form = "pair" /\ text.host \in OwnNames /\ Parses(text.port)}

\* If connect() finds several it is the listener's choice; if none, it fails.
ConnectDirectly ==
    /\ joining = "connect"
    /\ \E text \in Address : \E t \in NormalizeAddress(text) :
          /\ ~ ByTor(text) /\ ~ Refuses(text)
          /\ dialed' = {t}
          /\ \/ \E who \in Found(t) : met' = who /\ joining' = "connected"
             \/ "inviter" \notin Found(t) /\ joining' = "failed" /\ UNCHANGED met
    /\ UNCHANGED <<hostVars, from, pasted, tor, prepared, socks>>

\* Tor opens a stream for a service it knows, at the port it is published on.
Offered == hosting = "listening" /\ target.host = Name
           /\ \E s \in service : s.virtual = target.port

\* A step of the dialing thread, of the proxy or of time.
ByTorStep(Step) ==
    /\ joining = "tor"
    /\ Step
    /\ dial' \in Reading /\ ~ Offered => ~ Opens(reply')
    /\ \/ /\ dial' \notin {"open", "failed"}
          /\ UNCHANGED <<joining, met>>
       \/ dial' = "open" /\ joining' = "connected" /\ met' = "inviter"
       \/ dial' = "failed" /\ joining' = "failed" /\ UNCHANGED met
    /\ UNCHANGED <<hostVars, from, pasted, tor, prepared, dialed>>

----------------------------------------------------------------------------
Host ==
    \/ HostRefuses \/ BindListener \/ BindFails
    \/ PublishOnion \/ PublishFails \/ CreateInvite \/ InviteCommand

JoinThread ==
    \/ ReadInvite \/ ConnectByTor \/ RefuseAddress \/ ConnectDirectly
    \/ ByTorStep(Dialing)

Next ==
    \/ Host
    \/ StartJoin \/ CliJoin \/ PrepareTor \/ JoinThread
    \/ ByTorStep(Tick) \/ ByTorStep(Proxy)

\* The joiner's thread runs and time passes; the proxy need not answer, and the
\* Tor that is prepared need not come up.
Fairness == WF_vars(JoinThread) /\ WF_vars(ByTorStep(Tick))

Spec == Init /\ [][Next]_vars

FairSpec == Spec /\ Fairness

\* Where the joiner's thread can go on, and where it is the time that has to:
\* their guards, for the proofs, which cannot expand ENABLED.
JoinCanStep ==
    \/ joining = "read"
    \/ joining = "connect" /\ Address # {}
    \/ /\ joining = "tor"
       /\ \/ dial = "retry"
          \/ dial = "sleep" /\ clock >= wake
          \/ dial \in Reading /\ (HasBytes \/ shut)

TickCanStep == joining = "tor" /\ dial = "sleep" /\ clock < wake

JoinGuardEnables == JoinCanStep => ENABLED <<JoinThread>>_vars

TickGuardEnables == TickCanStep => ENABLED <<ByTorStep(Tick)>>_vars

GuardsEnable == JoinGuardEnables /\ TickGuardEnables

----------------------------------------------------------------------------
(* Properties.                                                             *)

Links == [intact : BOOLEAN, payload : [addresses : Seq(Texts)]]

\* Every variable has its type.
TypeOK ==
    /\ by \in HostSettings /\ from \in JoinSettings
    /\ hosting \in {"start", "bound", "published", "listening", "over", "failed"}
    /\ local \in Texts
    /\ service \in SUBSET [virtual : 1..MaxPort, forward : {local}]
    /\ link \in SUBSET Links /\ pasted \in SUBSET Links
    /\ tor \in BOOLEAN /\ prepared \in BOOLEAN
    /\ joining \in {"start", "prepare", "read", "connect", "tor", "connected", "failed"}
    /\ dialed \in SUBSET Texts
    /\ met \in {"nobody", "inviter", "itself"}
    /\ target.host \in Onion \cup {""} /\ target.port \in 0..MaxPort
    /\ SocksTypeOK

Intact == \E l \in pasted : l.intact

\* Two functions look for onion addresses, start_join at all of an invite and
\* join_network at the first: nothing is sent to a SOCKS address before Tor
\* has been prepared for it.
PreparedBeforeTor == joining = "tor" => tor /\ prepared

\* Whatever is in the field for the onion port, an invite made with Tor can be
\* read, and asks Tor for the service and port that lead to the listener.
OnionLeadsHome ==
    by.app = "desktop" /\ by.tor /\ from.app = "desktop" /\ Intact =>
        /\ joining = "tor" =>
              target.host = Name /\ \E s \in service :
                  s.virtual = target.port /\ s.forward = local
        /\ joining = "failed" => dial = "failed" \/ ~ prepared

\* The recipe of README.md for a LAN: a listener at 0.0.0.0:45123 and an
\* invite with the LAN address of its computer.
LanRecipe ==
    /\ Direct(by)
    /\ by.bind = Pair(Wildcard, DefaultPort)
    /\ by.public = Pair(Lan, DefaultPort)

\* With it a joiner's connect() finds the inviter, from any computer.
LanRecipeWorks ==
    LanRecipe /\ Intact =>
        /\ joining = "failed" => tor /\ ~ prepared
        /\ joining = "connected" => met = "inviter"

\* A join ends with a connection or an error, Tor's retries included, unless
\* the Tor that is started for it is for ever in coming up, or the proxy keeps a
\* connection open and for ever says no more.
JoinEnds ==
    joining # "start" ~>
        joining \in {"connected", "failed"} \/ [](joining = "prepare") \/ []AwaitsProxy

----------------------------------------------------------------------------
(* What the program's own text says, and it does not do.                   *)

\* The button "Bu Bilgisayarda Test Ayarla" fills in both addresses; "this
\* invite is only for a test on the same computer" (main.rs).
TestSetup ==
    /\ Direct(by)
    /\ by.bind = Pair(Loopback, DefaultPort) /\ by.public = by.bind

TestSetupWorks ==
    TestSetup /\ from.app = "desktop" /\ from.here /\ ~ from.tor /\ Intact
        => joining # "failed"
=============================================================================
