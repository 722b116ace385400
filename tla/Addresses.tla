----------------------------- MODULE Addresses -----------------------------
(***************************************************************************)
(* The texts that Fauna takes for addresses, and what it makes of them.    *)
(* The functions of the code look for a prefix, a colon, ".onion" or ":0"; *)
(* a text is its form, the host and the port that it names:                *)
(*   empty   ""                        word   "45123", or a bare host      *)
(*   pair    "host:port"               onion  "onion://host:port"          *)
(*   multi   "/ip4/host/tcp/port"      half   "/ip4/host"                  *)
(* A port above MaxPort stands for any text that does not parse as a u16.  *)
(***************************************************************************)
EXTENDS Naturals, Sequences

CONSTANT Onion      \* the host names that contain ".onion", in small letters

MaxPort == 65535

NotAPort == MaxPort + 1

DefaultPort == 45123

Loopback  == "127.0.0.1"
Loopback6 == "[::1]"
Mapped    == "[::ffff:127.0.0.1]"
Localhost == "localhost"
Capitals  == "LOCALHOST"
Wildcard  == "0.0.0.0"
Wildcard6 == "[::]"

Text(form, host, port) == [form |-> form, host |-> host, port |-> port]

Empty == Text("empty", "", 0)

Pair(host, port) == Text("pair", host, port)

Parses(port) == port <= MaxPort

HasColon(text) == text.form \in {"pair", "onion"}

\* Where Rust returns a Result or an Option: a set, empty without a value.
NormalizeAddress(text) ==
    IF text.form = "multi" THEN {Pair(text.host, text.port)}
    ELSE IF HasColon(text) THEN {text} ELSE {}

\* What has no colon is taken for a port, be it one or not.
NormalizeDirectBindAddr(text) ==
    IF text = Empty THEN Pair(Loopback, DefaultPort)
    ELSE IF HasColon(text) THEN text
    ELSE Pair(Loopback, IF text.form = "word" /\ text.host = "" THEN text.port ELSE NotAPort)

\* Mutant: the address the listener is bound to is always the better one.
PublicIsLocal(text, local) == local

\* An address that ends with ":0" has no port to share.
NormalizeDirectPublicAddr(text, local) ==
    IF text = Empty \/ (HasColon(text) /\ text.port = 0) THEN local ELSE text

\* contains(".onion"), which ".ONION" does not: such a name is one like others.
NamesOnion(text) == text.host \in Onion

\* parse_onion_address of a text that contains ".onion".
OnionTarget(text) ==
    IF HasColon(text) /\ Parses(text.port)
    THEN {[host |-> text.host, port |-> text.port]} ELSE {}

\* What connect_to_invite_address refuses, after normalize_address.
OnlyThisComputer(text) == text.form = "pair" /\ text.host \in {Loopback, Localhost}

\* Mutant: any number will do.
ServicePortUnchecked(port) == port

\* tor_service_port.trim().parse().unwrap_or(45123)
ServicePort(port) == IF Parses(port) THEN port ELSE DefaultPort

----------------------------------------------------------------------------
(* Invites.  The link is the invite in JSON and base64: nothing of it can  *)
(* be found in the text, and only an intact link can be decoded.           *)

NewInvite == [addresses |-> <<>>]

WithAddress(invite, text) == [invite EXCEPT !.addresses = Append(@, text)]

Encode(invite) == [intact |-> TRUE, payload |-> invite]

Decode(link) == IF link.intact THEN {link.payload} ELSE {}

\* Mutant: only an address that begins with onion:// is noticed.
InviteShowsOnion(link) == \E invite \in Decode(link) :
    \E i \in 1..Len(invite.addresses) : invite.addresses[i].form = "onion"

\* invite_contains_onion_address: any address of it, not only the first.
InviteContainsOnion(link) == \E invite \in Decode(link) :
    \E i \in 1..Len(invite.addresses) : NamesOnion(invite.addresses[i])
=============================================================================
