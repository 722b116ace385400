# A verification project for Fauna

Fauna is a peer-to-peer encrypted chat in Rust: `fauna-core` (keys, invites,
encryption), `fauna-cli` (a chat on standard input and output) and
`fauna-desktop` (a native window). This directory holds TLA+ models of what runs
concurrently in it, TLC configurations that check them, and TLAPS proofs.
Paths below are relative to the repository; "main.rs" is
`crates/fauna-desktop/src/main.rs` and "p2p.rs" is `crates/fauna-cli/src/p2p.rs`.

## The system

| Component | State | Operations | Talks to |
|---|---|---|---|
| Desktop UI (`FaunaApp`, main.rs 35-282) | one optional `ConnectionHandle`, status line, peer name, invite on the screen, messages | `start_host`, `start_join`, `send_message`, `drain_network_events` (every frame, at least every 100 ms) | network threads, by two channels each; managed Tor, by calls |
| Network thread (`host_network`, `join_network`, 713-779) | listener or stream, a fresh identity | bind, publish, invite, accept once; decode, dial | UI, kernel, Tor |
| Session (`run_session`, `receive_loop`, 781-908) | two handles of one socket, session key, the ends of the channels | hello, verify, encrypt and write; read, decrypt, report | the session at the other end, the UI |
| CLI chat (p2p.rs) | the same, with standard input in place of the channel | hello, verify, send loop, receive loop, join of the receive thread | the other process, the user or a pipe |
| Crypto and identity (`fauna-core`) | none | sign, verify, derive, encrypt, decrypt | called by both sessions |
| Invites and addresses (`invite.rs`, main.rs 964-1069) | none | encode, decode, normalize, parse | host and join threads |
| Managed Tor (`tor.rs` 22-74, 275-393; main.rs 172-205) | a child process, two ports, a data directory | spawn, wait for ports, wait for bootstrap, drop | UI thread (it blocks it) |
| Tor control (`tor.rs` 76-98, 182-273) | one control connection per use | AUTHENTICATE, AUTHCHALLENGE, ADD_ONION, GETINFO | Tor |
| SOCKS dialing (`tor.rs` 100-180) | one attempt after another, a deadline | greeting, request, reply; retry every 2 s for 180 s | Tor, join threads |

Nothing is stored on disk and no message is acknowledged. Nobody ever calls
`shutdown` on a socket, joins a desktop thread, or cancels one: everything ends by
something being dropped, by an end of stream, or with the process. That is where
the hard behaviours are:

- two threads at each end, four channels and one socket carry one conversation;
- a chat is left by replacing the `ConnectionHandle`. That drops the UI's ends of
  the channels; the session thread ends, the receive thread does not, and the
  socket stays open because its other handle does;
- a host or join thread that has been replaced goes on listening or dialing, holds
  its address, and may meet somebody;
- invites are passed on by hand, may be pasted late, and outlive what made them;
- the handshake is one-sided: the host accepts any identity and may be "connected"
  to a joiner that has just rejected it;
- a process may be killed at any point, and a closing socket answers with an end
  of stream or with a reset that destroys what is still under way;
- a CLI process that has reached the end of its input waits for its peer;
- Tor's two ports are chosen by binding and releasing them, and everything on the way to
  a working Tor returns early on an error, with the child process running;
- no read from Tor, at its control or its SOCKS port, has a time limit, and
  `command()` has no limit on the lines of a reply.

What makes each component correct:

- session: messages are shown in order, once and without a gap; only a host that
  owns the invite's key sees or shows any; both ends hold one key; a sent message is
  shown or the chat is visibly broken; sockets are freed;
- app: a joiner meets the inviter or nobody; one guest per host; the screen names
  the peer that the composer writes to; every click ends in something;
- CLI: the session's promises, and termination as far as the code gives it;
- addresses: an invite made by the README's recipes leads to the inviter, whatever port
  was typed into its field; whoever is sent to Tor has had his Tor prepared;
- managed Tor: besides what failed starts leave, one Tor per app and none left behind by
  an app that is closed; nobody's data directory removed under it; the addresses in the
  settings lead to the app's own Tor while it is up; an answer to every click;
- Tor control: a cookie is proved to a server that knows it only, replies are not
  confused, and Tor is asked for something after it has let us in;
- SOCKS: the session gets the stream at the peer's first byte, attempts end.

## The modules

| Module | What it is | Source |
|---|---|---|
| `Tcp` | one connection: bytes in flight as frames, handles, closing, resets. External, as the sessions use it | kernel; main.rs 789-792, 910-926 |
| `Hello` | symbolic keys, signatures, hello and chat frames | main.rs 831-889, `fauna-core` |
| `Relay` | the abstract specification of a chat: phases, counters, what is shown | - |
| `Session` (extends `Tcp`, `Hello`) | both ends of one desktop chat | main.rs 207-275, 662-685, 781-953 |
| `Lobby` | the apps, their clicks and the threads they spawn | main.rs 35-275, 662-829, 995-1034 |
| `CliSession` (extends `Tcp`, `Hello`) | both processes of one CLI chat | p2p.rs 63-195 |
| `Addresses` | the forms of an address and the functions that take one apart, the encoded invite | main.rs 706-711, 964-1069; `invite.rs` |
| `Socks` | SOCKS dialing byte by byte, with its retry loop and clock | tor.rs 100-180; main.rs 1009-1023 |
| `Reach` (extends `Addresses`, `Socks`) | from a host's settings to a joiner's socket: bind, publish, invite, paste, dial | main.rs 81-187, 713-768, 995-1034; p2p.rs 27-60; `fauna-cli/src/main.rs` 56-70 |
| `TorControl` | one control connection of `publish_onion_service` or `wait_for_bootstrap` | tor.rs 76-98, 182-290, 395-475 |
| `ManagedTor` | the Tor processes of several apps: ports, directories, spawn, waits, adoption, Drop | tor.rs 22-74, 275-393; main.rs 81-107, 172-205 |
| `MCSession`, `MCLobby`, `MCCliSession`, `MCReach`, `MCTorControl`, `MCManagedTor` | instances for TLC | |
| `SessionInv` | the inductive invariant of `Session` | |
| `SessionProofs`, `SessionDeliveryProofs`, `SessionPromiseProofs` | theorems about `Session` | |
| `LobbyProofs`, `CliSessionProofs`, `ReachProofs`, `TorControlProofs`, `ManagedTorProofs` | theorems about the module of that name | |

`Session` and `CliSession` both implement `Relay`: each instantiates it (`Promise`)
with its own `phase` and counters, and `KeepsPromise == Promise!Spec` is checked as a
property of the run. `Lobby` begins where the user clicks and goes as far as a chat
being up; what is inside of it is `Session`. `Lobby` takes the outcome of a dial and of
Tor's start as a choice; `Reach` has what decides the first and `ManagedTor` what decides
the second. `ManagedTor` in turn takes what one control connection comes to as a choice
(the bootstrap is over or not, or the read waits for ever); `TorControl` has the
connection.

### How `Session` corresponds to the code

`thread[e]` is the control point of `run_session` ("hello" before
`write_json_line(&hello)`, "await" at `read_hello_frame`, "chat" in the loop over
`outbound`, "ended" after `Ok(())`, "failed" after an error, which the thread's closure
reports as `Error`). `receiver[e]` is the thread that runs `receive_loop`. `open[e]` is
the set of handles of e's socket: `try_clone` made the writer's, the `BufReader` has
the other; the socket closes with the last. `outbound` and `events` are the two
`mpsc` channels. `handle[e]` says whether the UI still has its ends of them; a send to
a channel whose receiver is gone is dropped, as `.ok()` does. `status`, `named`, `sent`
and `shown` are the status line, `peer_name.is_some()`, and the messages on the screen.

- `Fail` is every `?` of `run_session`: locals and channel are dropped, the error is
  reported. The error's report and the drops are one step: nothing else of that thread
  lies between them.
- A frame is a line. A write that fails in the middle leaves a line that does not
  parse, which ends the reader's loop as an end of stream does; so a frame is on the
  wire as a whole or not at all.
- `Drain` handles one event a step, `drain_network_events` all that are queued. The
  queue is filled by another thread, so the same sequences of events are handled.
- `Exit` is the window being closed or the process being killed.
- The body of a message is its number. Texts, nonces and display names are left out.
- The random keys are symbols. The exchange key of an end is the end itself, the
  session key the set of the two halves; a signature names its signer.

### How `Lobby` corresponds to the code

A thread is the number of the click that spawned it. It stands for its fresh identity
and for its invite as well. `step[t]` is the control point of `host_network` (bind,
publish, listen = `accept`, greet = the handshake, chat, over) or of `join_network`
(dial, greet, chat, over). `line[h]` is the backlog of h's listener: `connect` completes
before anybody accepts. `connection[a]` is the thread behind `FaunaApp::connection`,
`peer[a]` and `current[a]` are `peer_name` and `current_invite`. Status texts that only
tell what the app is busy with are one value, "other".

Settings are those of the README of the repository: a host without Tor uses one address,
which it shares with every other host thread of its app; a host with Tor binds port 0.
`BindFails` may happen whatever the address, as another program may have it or the text
may be none; that `Bind` succeeds takes an address that no other thread of the app holds.
`GreetFails` is every error of the handshake, at either end: a wrong identity, a peer that
is not Fauna, a reset that has destroyed the hello. A host with Tor may wait for ever in
`publish` (`AwaitsTor`) and a joiner in `dial` (`AwaitsProxy`). `DialFails` may happen
whatever the address: the text may be no invite, a loopback address is refused, a network
may be down, Tor may not find the service. `TorFails` is `prepare_tor_config` failing
before a thread is spawned.

### How `CliSession` corresponds to the code

`main[e]` is the control point of `run_session` of p2p.rs: hello, await, send
(`send_loop`), join (`receive_thread.join()`), exited. Standard input is a queue with
an end (`input`, `ended`); a blank line is `Blank` and is skipped. `outcome` tells how the
process ended: `failed` in the handshake, `finished` after the join, `killed` by Ctrl+C.
`StdinFails` is the read error of p2p.rs 153 (text that is not UTF-8, above all): it ends
`send_loop` on a working connection, and what the user types afterwards is not read any
more. `unreadable` remembers it; the process then waits for its peer, as one that has
come to the end of its input does, and reports the error when the peer has gone.

### How `Addresses` and `Reach` correspond to the code

The code tells addresses apart by prefixes, colons, ".onion" and ":0". `Text` is a text
by what those tests find: its form, its host and its port, a port above 65535 standing
for one that `parse::<u16>` rejects. Each function of main.rs 964-1034 is the operator of
its name; a `Result` or an `Option` is a set with one element or none. An encoded invite
(`Encode`) is a record whose payload only `Decode` looks into, because base64 hides it
from every `contains`.

`by` is how the invite is made: the fields of the window, the arguments of `fauna host`,
or those of `fauna invite`, which takes any number of addresses of any form. `hosting` is
the control point of `start_host` and `host_network` (start, bound, published, listening).
`from` is who joins: with the desktop app or the CLI, with Tor enabled or not, on the
host's computer or on another one. `joining` is the control point of `start_join` and
`join_network` (prepare = `prepare_tor_config`, read = `decode` and the first address,
connect, tor = inside `connect_via_socks5_with_retry`). A user may paste a spoiled copy of
the link. `dialed` is what `TcpStream::connect` was given, `met` who answered. `Found` is
external: which listener a `connect` to a name finds, on which computer.

The desktop app and the CLI read the same invites with different code: the CLI neither
refuses loopback addresses nor looks for onion names, and hands both to `connect`.

The desktop app's checks compare texts, and the model has names on both sides of each. The search for
".onion" minds capitals: `Onion` are the names it finds, `OtherNames` holds one that it does
not, which is dialed as an address of the network. The test for loopback addresses knows
"127." and "localhost" as beginnings: `OwnNames` are the names by which a computer reaches
itself, those among them (`Loopback`, `Localhost`) and five others (`[::1]`, `[::]`, `0.0.0.0`,
a loopback address mapped into IPv6, "LOCALHOST"), which are dialed and lead the joiner to his
own computer. So no property says that onion names stay within Tor, or that nobody meets
himself: the code does not see to it. `--public-addr ""` shares the empty text, and a bind
field with no port that parses gives `127.0.0.1:` and that text, which binds nothing
(`NotAPort`).

`Socks` counts bytes. `want` is what the `read_exact` under way asks for, `arrived` what
the proxy has sent, in pieces of any size in `Pieces`; the peer's own bytes follow the
proxy's last one. `reply` is the proxy's answer: method, code, address kind, length byte.
`clock` counts seconds from `started`; the deadline is looked at before an attempt, as in
the loop, and an attempt may take any time. `AttemptFails` is `on_retry` with the sleep
that follows. `Timeout` is the code's 180 s and `Pause` its 2 s.

### How `TorControl` corresponds to the code

`step` is the control point: `connect`, the reads of the four commands (`anonymous` =
AUTHENTICATE without a secret, `challenge`, `proof`, `answer` = ADD_ONION or GETINFO), and
the points between. `asked` and `lines` are the command whose reply `command()` collects
and the lines it has, as a set: the code only searches them. A line keeps how it begins
(the code with the space or the dash), what it answers (for `AnswersMatch` only: no
definition of the client reads it), the server's hash in it, and whether it has a service
id or PROGRESS=100. `FirstFile` is the search of `read_control_cookie`. Nonces are fresh
and thus left out, hexadecimal digits too: an HMAC names its side and its key. Servers are
external: a Tor of three kinds, or another program that sends lines of its own, as many as
it likes (`Chat`), of which `Window` are under way at once. A program that passes the
client's commands on to a Tor, and the Tor's replies back, is not among them: it could
show the hash of a cookie that it does not know. `later` is a bootstrap that is not over:
the caller sleeps and connects anew, which is a new behaviour of the module.

### How `ManagedTor` corresponds to the code

`ui[a]` is where the UI thread of app a is: idle, or in one of the three waits of
`start_managed_tor` (the whole window waits), or gone. `ports[a]` are the two ports of
`reserve_local_port`, which the settings keep after a success. `tor` is the list of the
Tor processes: whose child, at which ports, in which state, whether its data directory is
still the one it was given (`home`), and whether its start has failed (`left`). `runtime[a]`
is the one that a's `TorRuntime` owns.

- An app is its process id, so `DirOf` is the app. `Homeless(a)` is `remove_dir_all`: it
  takes the home of every process whose directory has that name, whoever started it. It
  runs in `Start`, in a start that fails before the spawn (`StartFails`), and in the Drop.
- `Start` is everything up to the spawn; `Fail` is a `?` behind it, which drops the `Child`
  without `kill`; `Adopt` is `Ok`, and `Close` the Drop. `Kill` is the end of an app without
  Drop.
- The third wait ends in four ways. `Succeed` and `ForeignAnswers`: whoever has the control
  port says that the bootstrap is over. `BootstrapRefused`: nobody has the port, so `connect`
  fails. `BootstrapFails`: somebody has it and refuses, or 90 s of other answers are over.
  Only the third has to come: the limit is looked at between two connections, and a read
  of one has none.
- A Tor binds its two ports or ends; it may end at any time. The onion services that were
  added to it end with it. How many there are has no bound, and no property depends on it:
  publishing is in `Lobby`, `Reach` and `TorControl`.

## The runs

| Run | Bounds | Properties | What it shows |
|---|---|---|---|
| `session_safety` | 3 identities, 3 messages a side, 2 frames a socket | `TypeOK`, `ShowsWhatWasSent`, `TalksToInviter`, `ReadsEveryFrame`, `KeepsPromise` | order, no loss in the middle, no duplicate; nothing for or from a host without the invite's key; one key; refinement of `Relay` |
| `session_liveness` | 2 messages a side, 1 frame a socket | `SentIsShown`, `ExitNoticed`, `SocketFreed` | delivery unless somebody leaves or a thread fails; the quit of a peer is noticed; an abandoned socket is freed once the peer quits |
| `session_closed_chat` | 1 message, 1 frame | `ClosedChatRefusesMessages` | a violation: see below |
| `lobby_safety` | 2 apps, 4 threads | `TypeOK`, `MeetsInviter`, `OneGuest`, `HeaderIsPartner` | who may meet whom with orphaned threads and old invites |
| `lobby_liveness` | 2 apps, 3 threads | `InviteOrError`, `JoinSettles` | every click ends in something |
| `lobby_shown_invite` | 2 apps, 3 threads | `ShownInviteIsServed` | a violation: see below |
| `cli_safety` | 3 identities, 2 lines a side, 2 frames | `TypeOK`, `PrintsNoStranger`, `SomebodyMustInterrupt`, `KeepsPromise` | refinement of `Relay`; two finished inputs do not end a chat |
| `cli_liveness` | 1 line a side, 1 frame | `TypedIsPrinted`, `FollowsPeer` | piped input arrives; a finished process follows its peer |
| `reach` | 144 ways to make an invite, 6 to join; `Timeout` 5, `Pause` 2, pieces of 1, 5 or 30 bytes, `HelloSize` 2 | `TypeOK`, `StreamAtHello`, `AttemptsBounded`, `PreparedBeforeTor`, `OnionLeadsHome`, `LanRecipeWorks`, `JoinEnds` | where every kind of invite leads every kind of joiner; the stream is handed over at the right byte; joins end |
| `reach_test_setup` | as `reach` | `TestSetupWorks` | a violation: see below |
| `tor_control` | 2 cookies at 2 places, 4 kinds of servers, 2 lines of another program under way | `TypeOK`, `ProofOnlyToKnower`, `AsksTrusted`, `AnswersMatch`, `ControlEnds` | cookies, trust and replies of one control connection |
| `managed_tor` | 2 apps, 2 Tor processes, 3 ports, one of them squatted | `TypeOK`, `CleanExit`, `OneTor`, `DirKept`, `OwnTorAnswers`, `ReadyAtSuccess`, `ClickReturns` | what is left behind, whose directory is removed, who uses which Tor, and that a click comes back |

Why the bounds are enough. Three identities are the host, the joiner and the inviter that
is neither. Two frames let a reset take one of two, let messages queue in the channel, the
socket and the events at once, and with three messages the channel waits for the socket;
one frame makes the hello itself fill the socket, so that every later write waits, and
with two messages at each end both writers wait at once. Four threads are two host threads
of one app at one address (old and new) and two joiners with either's invite; with three
there is a replaced host, its successor and one joiner. The 144 hosts are every form of
the bind field (empty, a port, one that is too large or 0, an address of either kind with
a port, one with a bad port, a bare host, one with several colons) with every form of the
public one, names of the own computer that the joiner's test sees and does not see among
them; both onion ports that are special (0 and a text that is no port) and an ordinary
one; `fauna host` with a public address, an empty one and none; and one invite of `fauna
invite` for every branch of the joiner's code: no address, one that does not normalize, an
onion name without and with its scheme, in capitals, with a bad port, too long for SOCKS,
behind `/ip4/`, and as a second address. With a limit of 5 and a pause of 2 the last
attempt may begin right before the deadline. Pieces of one byte cut the stream anywhere,
pieces of 30 bring the whole reply together with the peer's first bytes. Two cookies are
ours and another Tor's. Two lines of another program under way are one more than the
client needs to go on, so that a reply may already be there before its command; how many
it sends in all has no bound. With two Tor processes, two apps have one each or one has
two, and three ports let two Tors share one, or lose one to another program.

The bounds are `MaxSend`, `MaxLines`, `MaxThreads`, `SocketCap`, `Window` and `MaxTor`; of
these, `SocketCap` and `Window` are capacities that the system has as well, and `Timeout`
and `Pause` are limits of the code. Deadlock is not checked: when everybody has quit, both
CLI processes wait for each other, or a join or a connection is over, the system really
stops.

Symmetry is used in the safety runs only: identities (or apps) are interchangeable
there, and no definition chooses one of them.

Fairness. In `Session`, `Lobby` and `CliSession` every thread that can take a step takes
one in the end: the operating system schedules them, the UI repaints every 100 ms
(`request_repaint_after`), and the network delivers resets. No user action (typing,
clicking, leaving, quitting, Ctrl+C) is fair. Tor is fair nowhere, nor are a proxy, a
server and other programs: the control and SOCKS connections have no read timeout, so
whoever is silent blocks them for ever. In `Lobby` fairness is that of `HostRuns` and
`JoinRuns`, the steps of a thread that does not wait for Tor; in `Reach` the joiner's
thread runs once its Tor is up, and time passes; in `TorControl` the client runs; in
`ManagedTor` the UI thread runs and its limits pass. What this leaves open is named in the
properties as the exceptions:

| Property | Unless |
|---|---|
| `InviteOrError` | Tor leaves the publication unanswered for ever |
| `JoinSettles` | the joiner stands for ever behind the guest of that host, or the proxy never answers |
| `JoinEnds` | the Tor that is started for the join is for ever in coming up, or the proxy is for ever silent |
| `ControlEnds` | the server is for ever silent, or is no Tor and for ever sends lines that end no reply |
| `ClickReturns` | somebody holds the control port for ever and does not say what would end the wait |
| `TypedIsPrinted` | a process is gone, or its input could not be read up to that line |

Where one says "for ever", who is kept waiting for a while only is served afterwards.

One step has strong fairness, `BootstrapRefused`. Whoever has held the control port and has
left it has ended the connection, so the UI thread, which was in a read or is about to
connect, does notice, even if somebody else listens there by then.

### What the program says and does not do

- `session_closed_chat`: main.rs 227 has an error for a message that cannot be sent
  because the connection is closed. After "Baglanti kapandi" the session thread still
  holds the channel, so the message is taken and shown as sent.
- `lobby_shown_invite`: README.md line 52 has the user share the invite on the screen.
  `start_join` does not clear it, so it may lead to an orphaned thread: who joins with it
  is told he is connected, and talks to nobody.
- `reach_test_setup`: a button of main.rs 399-405 sets up a test on one computer, and main.rs
  246 calls such an invite good for a test on the same computer. The join there refuses
  every address that begins with 127. or localhost, on this computer too.

## The proofs

### How liveness is proved

The provers do not reason about ENABLED, and have no induction over temporal formulas.
What can be proved about liveness is proved in one of two ways.

Where an actor goes through a fixed number of places (a start, a join, a click), each place
leads to the next one by the rule for weak (once, strong) fairness, and the leads-to are chained:
`StartsAreAnswered`, `JoinersAreAnswered` and `ClicksReturn` prove `InviteOrError`,
`JoinSettles` and `ClickReturns` as the runs check them.

Where the number of steps depends on the constants (messages, lines, bytes, attempts),
a natural number `Work` says how much there is left to do, and four theorems say: every
step that is not a stutter lessens it (`[][Work' < Work]_vars`; in `TorControl`, every step
but `Chat`); at first it has a bound in the constants
(there, if a Tor listens); whenever something is owed, some fair thread can take a step or an
outsider is waited for; and, under fairness, `Work = k` leads to `Work < k` or to what
is promised, for every k. What is missing is the induction on k. The first three take
no premise and no fairness: they say that nothing in the system goes on for ever, and
that nobody waits for somebody who waits for him.

Every leads-to takes a premise, `[]GuardsEnable`: where the guard of a thread holds as
`Session` and the other modules write it down (`SessionCanStep`, `HostCanStep`,
`JoinCanStep` ...), the thread's action is ENABLED. It is a state predicate, and an
assumption of these theorems; no run of this project checks it. The runs check the
liveness properties themselves.

### The desktop session

For every set of identities, every message bound and every socket capacity (from
`SocketCapAssumption` and `MaxSendAssumption` alone), TLAPS proves:

- `TypeCorrect`: `Spec => []TypeOK`;
- `EveryFrameIsRead`: `Spec => []ReadsEveryFrame`;
- `Delivery`: `Spec => []ShowsWhatWasSent`;
- `TalksToInviterAlways`: `Spec => []TalksToInviter`;
- `KeepsPromiseAlways`: `Spec => KeepsPromise`, the refinement of `Relay`.

`ReadsEveryFrame` is not inductive: that a frame decrypts depends on how the sender came
by its key. `Handshake` (in `SessionInv`) adds who holds the handles of a socket
(`Ownership`: the reader's goes with the receive thread, the writer's with the session
thread), that a reset only comes from a socket that is closed (`ResetAfterClose`), that
a key is always the set of both ends (`SharedKey`), that a hello is on the wire only as
its first frame and only while its reader still waits (`WireFrames`), and what a
joiner that is past the handshake has verified (`Invited`). It is preserved by every
step: `HandshakeHolds`.

`ShowsWhatWasSent` needs more: a message is on its way through an outbound channel, a
socket and an event channel, and any of them may be cut. `Pipeline(e)` puts the three
in a row behind what is shown at e's peer, and `Carries` says that what is in the row
counts on from there without a gap; `Numbered(e)` is that, as long as the chain to the
reader is whole. A reset cuts the socket from its end, and then the rest can never be
read, as the sender's thread cannot write any more. `Delivery` follows.

`TalksToInviter` speaks of what the screens show, which comes last in the pipeline.
`Visible` carries the handshake along it: an end that has a `Connected` event, a name or
chat frames on the wire has a key, and an `Incoming` event or a message that is shown, at
either end, took the joiner's key; `Invited` says when the joiner has one.

For `KeepsPromise` the initial states are compared, and then each disjunct of `Next`. The
threads, the socket and `SendMessage` leave the phases alone by their definitions; leaving
the chat and `Exit` finish it. What needs an invariant is `Drain`: that `Connected` finds
the phase "opening", that a message comes only while it is "open", and that it is the next
one. The last is `Numbered` again. The other two are `EventOrder`: of the two threads that
report events, the session thread reports `Connected` before it spawns the receive thread
and can report nothing but an `Error` afterwards, and the receive thread reports messages
and then one `Disconnected`. An `Error` may come at any place among them (a write fails
while messages still come in), which is why the phase depends on the header and not on
the status line alone: after it, messages are still shown.



Of what fairness is for, this is proved:

- `IdleIsSettled`: whenever no thread of either app can go on and no reset is under way
  (`Idle`), everything sent is shown unless the chat was broken, who stays has been told
  that the other one quit, and no socket is left of a chat both have left (`Settled`). It
  is the absence of deadlock of two ends that block on each other's full sockets, and it
  needs to know how a chat comes apart. `Stops` says that a session thread ends only when
  its UI has let go of the channel and after it has emptied it, a receive thread only
  when the app exits or the other end has closed, and that a hello that is awaited is on
  the wire; `Told` says that the end of a thread whose UI is still there is on the screen
  or in its event channel. Both are in `IInv`. `Numbered` had to be strengthened for it:
  not only a running session thread has lost nothing, but also one that has ended while
  its receive thread keeps the socket open (`Intact`).
- `ChatWorkFalls` and `ChatIsBounded`: every step lessens `Work`, which is 24 + 8 * `MaxSend`
  at most. A message costs four steps (taken, written, received, shown).
- `ChatGoesOn`: `Work = k ~> Work < k \/ Settled`, from fairness and `GuardsEnable`.
- `SettlingSuffices`: a chat with `[]<>Settled` satisfies `SentIsShown`, `ExitNoticed` and
  `SocketFreed`, as no message, exit or departure is ever taken back.

Between the last two is the induction on `k`, no more.

### The apps (`LobbyProofs`)

For any set of apps and any number of clicks (`LobbyAssumption`): `TypeCorrect`,
`JoinersMeetTheInviter`, `HostsHaveOneGuest` and `HeadersNamePartners`. `MeetsInviter`
alone is not inductive: that a host is in one chat only depends on who stands in which
line. `Net` says what a thread that has not been spawned looks like (`Unborn`), who has
a partner at which step (`Roles`), that who is in a backlog waits for that host and
stands in no other line (`Waiting`, `OnceInLine`), and that partners name each other
(`Mutual`). For the header, `EventsTrue` says of the event queue of every thread that a
`Connected` in it names the app at the other end; the header is then right whenever it
is written.

`StartsAreAnswered` proves `InviteOrError` under `FairSpec`. The host thread goes through
`bind` and `publish`, where it stays for ever or not, and what it reports is handled
first: `Calm` says that a thread has reported nothing before it listens, and that a
connection is a thread of the app that has it, so no other thread's event comes between.

`JoinersAreAnswered` proves `JoinSettles`. A joiner dials, or waits for its proxy for ever;
it stands in the line of the host it has reached, and is accepted, dropped, or stays behind
the guest of that host for ever. The last is `[]Behind`, and takes that a host with a guest
accepts nobody else and that its line loses nobody but with the listener. `Public`
says that an invite that is about has been published, so that nobody stands in the line of a
host that waits for Tor.
Which host that is is open until it dials, so the argument takes the fairness of every
thread at every moment: its premise is `[]Fairness`. WF is a property of the suffixes
of a behaviour, so that `Fairness` and `[]Fairness` say the same; the provers do not move
[] over the quantifiers of `Fairness`.

### The CLI (`CliSessionProofs`)

For any set of identities, number of lines and socket capacity: `TypeCorrect`,
`StrangersStaySilent`, `ProcessesWaitForEachOther` and `KeepsPromiseAlways`. `Secrets`
follows the one key: a key takes a hello of the other end (`Keys`), the joiner has one
only if the host owns the invite's identity (`Invited`), a chat frame is of the key of
both (`Frames`), so what is printed took the joiner's key (`PrintedByInvited`). `Calm`
describes a chat that nobody has interrupted and in which no handshake has failed: every
reader has its handle, no reset is under way, the hello is the first frame or read. In
it a receive thread cannot end, and so no `join` returns.

The refinement of `Relay` takes `Good`: the lines of an input count on from one to the next,
blank ones aside (`InputCounts`), a thread holds its handle of the socket until it ends
(`Holds`), and `Flow`: as long as the other end prints, the frames on the wire go on where
its print stops and the input goes on where the wire stops. A reset takes frames from the
end of the wire, and only of a writer that is gone, so no line is ever missing in between.

`IdleIsSettled`, `ChatWorkFalls`, `ChatIsBounded` (18 + 10 * `MaxLines`), `ChatGoesOn` and
`SettlingSuffices` do for `TypedIsPrinted` and `FollowsPeer` what they do for the desktop
session. A line that the process has not read when its input fails counts as settled. The
invariant behind them, `EndsInv`, adds `Tidy` (who has exited holds nothing, who sends has
a receive thread) and `Written` (who waits for its receive thread has written all of its
input, and all of it is on the wire or printed).

### From settings to socket (`ReachProofs`)

For any set of settings whose addresses are texts, any names, time limits, piece sizes and
invites with any number of addresses (`ReachAssumption`, `SocksAssumption`):
`TypeCorrect`, `HelloComesNext`, `FewAttempts`, `TorIsPrepared`, `OnionInvitesLeadHome`
and `LanInvitesLeadHome`. The invariant has three parts. `SocksInv` ties the bytes taken
to the place in the dialog (`Position`) and the number of attempts to the clock
(`Paused`). `HostInv` says what has been published once the invite is shown and that the
invite shown is the one of the settings (`Published`, `Shown`). `JoinInv` carries the
invite to the joiner: what is pasted is a copy (`Copied`), an onion address in it was
noticed (`Noticed`: all addresses were searched, so the first was), and Tor is asked for
what the invite says (`Aimed`).

A join is finite, and how it is takes the clock: an attempt that fails starts all over,
and time is what it pays with. `Work` is the rest of the current attempt, and the price of
a whole attempt (`AttemptCost`, which counts every byte of the proxy) for each second that
`Timeout` and `Pause` leave. An attempt that fails has spent the pause after it (`Spent`),
so the next one costs less than that (`PauseCosts`). `JoinWorkFalls` and `JoinIsBounded`
say so for every time limit, pause and size of the pieces; `OnlyTorIsWaitedFor` says that
a join under way can go on, or time can, or it waits for the Tor that it starts, or for
bytes from a proxy that keeps the connection open; `JoinGoesOn` is the step of `JoinEnds`.
They take one invariant more, `Going`: the proxy's bytes fit what it may send, a pause is
not over before its time, and the dialing thread is at work exactly while the join is.

### Tor (`TorControlProofs`, `ManagedTorProofs`)

`TorControl`, for any cookies (of which "guess" is none), files and `Window`:
`ProofOnlyToKnower`, `AsksTrusted` and `AnswersMatch`, by way of `OneCookie` (the client
keeps one cookie), `ProofsSafe` (whoever has shown its hash knows it, and the step after
it keeps that), and, with a Tor, `OneAtATime` (at most one of command, handled reply and
collected lines is under way) and `YesMeansTrust` (a line that says yes to AUTHENTICATE
is there only if Tor trusts). From the same invariant, `SuccessIsNotInvented`: what
`publish_onion_service` and `wait_for_bootstrap` report as done, a Tor has accepted an
authentication for and has handled. No run checks this one.

`WorkFalls` says that every step but `Chat` lessens `Work`, and `WorkIsBounded` that `Work` is
a natural number, and 41 at most with a Tor of whatever kind: no refusal and no reply starts
anything over. A step of the client writes one command, which is worth three lines of a Tor,
and those are what it reads before the next. What another program sends is not bounded, and
`ControlEnds` excepts a program that never stops; accordingly `WorkGoesOn` takes the premise
that it stops at some time. `OnlyTheServerIsWaitedFor` has no premise.

`ManagedTor`, for any number of apps, ports and processes: type correctness, `CleanExit`,
`OneTor`, `DirKept`, `OwnTorAnswers` and `ReadyAtSuccess`. The invariant has four parts besides
the types. `Owned`: an app has a runtime only while its window is there and waits for nothing,
and that Tor's start has not failed. `OneMine`: of the processes whose start has not failed an
app has one at most, none while it has neither a runtime nor a start under way, and none
alive once it is closed. `Housed`: the Tor of a start under way and of a runtime has its
directory and the ports of the settings. `Apart`: no port has two listeners. `DirKept` needs
all of them: a directory is removed by a click that finds no runtime and by the Drop, and
`OneMine` says that nobody who counts lives in it then. `OwnTorAnswers` and `ReadyAtSuccess` are
about ports that were free for anybody for a while: if a Tor is up, it has bound the ports
of the settings itself, and then `Apart` says that whoever answers there is that Tor.

`ClicksReturn` proves `ClickReturns` under `FairSpec`: a start waits for one port, then for
the other, and each wait ends; the third one ends or somebody holds the control port for ever.

### What stays with TLC

Of liveness, the induction on `Work` in `SentIsShown`, `ExitNoticed`, `SocketFreed`,
`TypedIsPrinted`, `FollowsPeer`, `JoinEnds` and `ControlEnds` (each step of it is proved),
and for all ten liveness properties the premise `GuardsEnable`, as the provers do not
handle ENABLED. The runs check the properties whole, on their instances. What a recursive
function computes for every input would need an induction that the installed provers
cannot instantiate; no module here declares a RECURSIVE operator.

## The plan

1. Done: `Session` with its proofs, `Lobby`, `CliSession`.
2. Done: `Addresses`, `Socks` and `Reach`; `TorControl`; `ManagedTor`; the proofs about all of
   them and about `Lobby` and `CliSession`.
3. Done: the proofs about liveness, as far as the provers go.
4. Left: `Lobby` as an abstraction of `Reach` and `ManagedTor` by refinement, in place of
   the choices that now stand between them.

## Not modelled

- Rendering and layout (no state), system messages and the status lines of progress,
  among them the warning that main.rs 242 looks for in an encoded invite and never finds.
- `fauna identity` and `fauna decode-invite`, which print one value and end; export and
  import of keys, which no chat uses; packaging and workflows.
- The primitives of the crypto crates: symbols stand for them.
- The texts of errors. A module keeps that a step failed.
- A panic inside a thread: `preview` can panic on a line that no Fauna peer sends.
- What resolvers do with an onion name that the CLI hands to `connect`: the model says that
  it is handed over, and finds nobody.
- Another program that stops listening at a port it has taken from a managed Tor.
- Two apps of one process id, the second started after the first was killed: the directory of
  the first one's Tor would be the second's.
- A program at the control address that relays between the client and a Tor.
