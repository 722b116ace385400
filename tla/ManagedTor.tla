----------------------------- MODULE ManagedTor -----------------------------
(***************************************************************************)
(* The Tor processes that the running desktop apps start for themselves:   *)
(* ensure_managed_tor and start_managed_tor on the UI thread, which waits  *)
(* for the ports and the bootstrap inside the click, the TorRuntime that a *)
(* successful start leaves in the app, its Drop, and what is left behind   *)
(* by a start that fails or an app that is killed.                         *)
(*                                                                         *)
(* The two ports are chosen by binding and releasing them, so anybody may  *)
(* have taken them when Tor wants them: the wait for a port is content     *)
(* with any listener, and the Tor asked for its bootstrap may be that of   *)
(* another app.  Tor and the system are external; what a control           *)
(* connection may come to is in TorControl, and what is done with a Tor    *)
(* that has been started is in Reach and in Lobby.                         *)
(***************************************************************************)
EXTENDS Naturals, Sequences

CONSTANTS
    App,        \* the running apps; also their process ids
    Port,       \* the ports the system has to offer
    Squatted,   \* those at which other programs may come to listen
    MaxTor      \* bound on the Tor processes that are spawned

ASSUME ManagedAssumption == MaxTor \in Nat /\ 0 \notin Port /\ Squatted \subseteq Port

VARIABLES
    ui,         \* where the UI thread of the app is
    ports,      \* ports[a]: SOCKS and control port of a start, and then of
                \* the settings
    tor,        \* the Tor processes spawned so far
    runtime,    \* runtime[a]: tor_runtime, a number of `tor`
    foreign     \* the ports at which other programs listen

vars == <<ui, ports, tor, runtime, foreign>>

NoTor == 0

Ports == [socks : Port, control : Port]

NoPorts == [socks |-> 0, control |-> 0]

Starting == {"socks", "control", "bootstrap"}

\* Mutant: the directory is named without the process id.
SharedDir(a) == CHOOSE b \in App : TRUE

\* fauna-tor-{pid}
DirOf(a) == a

\* A Tor process that has been spawned: whose child it is, its ports, whether
\* its data directory is still the one it was given (home), and whether its
\* start has failed and left it alone (left).
Tor(a, p) == [app |-> a, socks |-> p.socks, control |-> p.control,
              state |-> "starting", home |-> TRUE, left |-> FALSE]

\* A process that has ended listens nowhere and needs no directory.
Ended(x) == [x EXCEPT !.state = "dead", !.socks = 0, !.control = 0, !.home = FALSE]

Init ==
    /\ ui = [a \in App |-> "idle"]
    /\ ports = [a \in App |-> NoPorts]
    /\ tor = <<>>
    /\ runtime = [a \in App |-> NoTor]
    /\ foreign = {}

Process == 1..Len(tor)

Up(t) == tor[t].state \in {"up", "ready"}

\* The Tor that listens at port p, if there is one.
At(p) == {t \in Process : Up(t) /\ p \in {tor[t].socks, tor[t].control}}

Taken(p) == At(p) # {} \/ p \in foreign

----------------------------------------------------------------------------
(* The UI thread: ensure_managed_tor and start_managed_tor.                *)

Goes(a, next) == ui' = [ui EXCEPT ![a] = next]

\* Mutant: every click starts a Tor.
EnsureAlways(a) == ui[a] = "idle"

\* The early return: a Tor that has been started is taken to be running.
Needed(a) == ui[a] = "idle" /\ runtime[a] = NoTor

\* remove_dir_all: the directory of that name is gone, whoever lives in it.
Homeless(a) == [t \in Process |->
    IF DirOf(tor[t].app) = DirOf(a) THEN [tor[t] EXCEPT !.home = FALSE] ELSE tor[t]]

\* reserve_local_port, twice: the listener is dropped at once, so the second
\* port may be the first one again.  The directory is removed, and made again
\* for the Tor that is spawned.
Start(a) ==
    /\ Needed(a)
    /\ Len(tor) < MaxTor
    /\ \E p \in Ports :
          /\ ~ Taken(p.socks) /\ ~ Taken(p.control)
          /\ ports' = [ports EXCEPT ![a] = p]
          /\ tor' = Append(Homeless(a), Tor(a, p))
    /\ Goes(a, "socks")
    /\ UNCHANGED <<runtime, foreign>>

\* There is no port; or the directory has been removed, and none can be made
\* or no Tor is found to run in it.
StartFails(a) ==
    /\ Needed(a)
    /\ tor' \in {tor, Homeless(a)}
    /\ UNCHANGED <<ui, ports, runtime, foreign>>

\* Mutant: the runtime is given the Tor that was spawned last, by anybody.
LastChild(a) == {Len(tor)}

\* The Child of start_managed_tor: earlier ones are left, or there would be no
\* start.
Child(a) == {t \in Process : tor[t].app = a /\ ~ tor[t].left}

\* `?` after the spawn: the Child is dropped, which neither ends the process
\* nor waits for it, and its directory stays.
Fail(a) ==
    /\ Goes(a, "idle")
    /\ ports' = [ports EXCEPT ![a] = NoPorts]
    /\ tor' = [t \in Process |->
                 IF t \in Child(a) THEN [tor[t] EXCEPT !.left = TRUE] ELSE tor[t]]
    /\ UNCHANGED <<runtime, foreign>>

SocksUp(a) ==
    /\ ui[a] = "socks"
    /\ Taken(ports[a].socks)
    /\ Goes(a, "control")
    /\ UNCHANGED <<ports, tor, runtime, foreign>>

\* Mutant: the wait for the port has no time limit.
NeverLate(a) == FALSE

SocksLate(a) == ui[a] = "socks" /\ ~ Taken(ports[a].socks) /\ Fail(a)

ControlUp(a) ==
    /\ ui[a] = "control"
    /\ Taken(ports[a].control)
    /\ Goes(a, "bootstrap")
    /\ UNCHANGED <<ports, tor, runtime, foreign>>

ControlLate(a) == ui[a] = "control" /\ ~ Taken(ports[a].control) /\ Fail(a)

\* Whoever answers at the control port says how far the bootstrap is.
Answers(a, states) == \E t \in At(ports[a].control) :
    tor[t].control = ports[a].control /\ tor[t].state \in states

\* Mutant: the two addresses are swapped in the settings.
AdoptSwapped(a) ==
    /\ \E t \in Child(a) : runtime' = [runtime EXCEPT ![a] = t]
    /\ ports' = [ports EXCEPT ![a] = [socks |-> @.control, control |-> @.socks]]
    /\ Goes(a, "idle")
    /\ UNCHANGED <<tor, foreign>>

\* The addresses go into the settings, and the TorRuntime into the app.
Adopt(a) ==
    /\ \E t \in Child(a) : runtime' = [runtime EXCEPT ![a] = t]
    /\ Goes(a, "idle")
    /\ UNCHANGED <<ports, tor, foreign>>

\* Mutant: any answer to GETINFO will do.
SucceedEarly(a) == ui[a] = "bootstrap" /\ Answers(a, {"up", "ready"}) /\ Adopt(a)

Succeed(a) == ui[a] = "bootstrap" /\ Answers(a, {"ready"}) /\ Adopt(a)

\* Another program may say anything.
ForeignAnswers(a) == ui[a] = "bootstrap" /\ ports[a].control \in foreign /\ Adopt(a)

\* Nobody listens there, or any more: connect fails, and so does the read of a
\* connection whose other end is gone.
BootstrapRefused(a) == ui[a] = "bootstrap" /\ ~ Taken(ports[a].control) /\ Fail(a)

\* Whoever listens there refuses the command or closes the connection, or its
\* answers are not the one that is wanted for 90 s.  Nothing of this has to
\* come: the time limit is looked at between two connections, and a read of
\* one has none.
BootstrapFails(a) == ui[a] = "bootstrap" /\ Taken(ports[a].control) /\ Fail(a)

----------------------------------------------------------------------------
(* The end of an app.                                                      *)

\* Mutant: the process is not killed.
CloseLeaving(a) ==
    /\ ui[a] = "idle"
    /\ Goes(a, "closed")
    /\ runtime' = [runtime EXCEPT ![a] = NoTor]
    /\ tor' = IF runtime[a] = NoTor THEN tor ELSE Homeless(a)
    /\ ports' = [ports EXCEPT ![a] = NoPorts]
    /\ UNCHANGED foreign

\* The window is closed: FaunaApp is dropped, and its TorRuntime with it, if
\* it has one.
Close(a) ==
    /\ ui[a] = "idle"
    /\ Goes(a, "closed")
    /\ runtime' = [runtime EXCEPT ![a] = NoTor]
    /\ tor' = IF runtime[a] = NoTor THEN tor
               ELSE [Homeless(a) EXCEPT ![runtime[a]] = Ended(@)]
    /\ ports' = [ports EXCEPT ![a] = NoPorts]
    /\ UNCHANGED foreign

\* The app is killed, or crashes: no Drop runs.
Kill(a) ==
    /\ ui[a] \notin {"closed", "killed"}
    /\ Goes(a, "killed")
    /\ runtime' = [runtime EXCEPT ![a] = NoTor]
    /\ ports' = [ports EXCEPT ![a] = NoPorts]
    /\ UNCHANGED <<tor, foreign>>

----------------------------------------------------------------------------
(* Tor processes and other programs.                                       *)

Becomes(t, state) ==
    /\ tor' = [tor EXCEPT ![t].state = state]
    /\ UNCHANGED <<ui, ports, runtime, foreign>>

\* Tor binds its two ports, or ends if it cannot.
CanBind(t) ==
    /\ tor[t].socks # tor[t].control
    /\ ~ Taken(tor[t].socks) /\ ~ Taken(tor[t].control)

TorBinds(t) == tor[t].state = "starting" /\ CanBind(t) /\ Becomes(t, "up")

TorIsReady(t) == tor[t].state = "up" /\ Becomes(t, "ready")

\* It cannot bind, fails, or is ended by somebody.
TorDies(t) ==
    /\ tor[t].state # "dead"
    /\ tor' = [tor EXCEPT ![t] = Ended(@)]
    /\ UNCHANGED <<ui, ports, runtime, foreign>>

ForeignListens(p) ==
    /\ ~ Taken(p)
    /\ foreign' = foreign \cup {p}
    /\ UNCHANGED <<ui, ports, tor, runtime>>

----------------------------------------------------------------------------
\* What the UI thread does by itself.
UiThread(a) == SocksUp(a) \/ SocksLate(a) \/ ControlUp(a) \/ ControlLate(a)

AppStep(a) ==
    \/ Start(a) \/ StartFails(a) \/ UiThread(a) \/ BootstrapRefused(a)
    \/ Succeed(a) \/ ForeignAnswers(a) \/ BootstrapFails(a)
    \/ Close(a) \/ Kill(a)

TorStep(t) == TorBinds(t) \/ TorIsReady(t) \/ TorDies(t)

Next ==
    \/ \E a \in App : AppStep(a)
    \/ \E t \in Process : TorStep(t)
    \/ \E p \in Squatted : ForeignListens(p)

Spec == Init /\ [][Next]_vars

\* The UI thread runs, and the time limits of its two waits for a port pass.
\* Nobody has to click, and neither a Tor nor another program has to do or to
\* say anything.  Strong fairness where nobody listens at the control port:
\* whoever has left it has taken his end of the connection with him, so the
\* thread notices, even if somebody else listens there by then.
Fairness(a) == WF_vars(UiThread(a)) /\ SF_vars(BootstrapRefused(a))

FairSpec == Spec /\ \A a \in App : Fairness(a)

\* Where the thread waits for a port, and where nobody listens at the control
\* port.  The proof of liveness takes it that nothing else keeps the steps
\* from being taken.
AtPort(a) == ui[a] \in {"socks", "control"}

Refused(a) == ui[a] = "bootstrap" /\ ~ Taken(ports[a].control)

UiGuardEnables(a) ==
    /\ AtPort(a) => ENABLED <<UiThread(a)>>_vars
    /\ Refused(a) => ENABLED <<BootstrapRefused(a)>>_vars

GuardsEnable == \A a \in App : UiGuardEnables(a)

----------------------------------------------------------------------------
(* Properties.                                                             *)

Alive(t) == tor[t].state # "dead"

Tors == [app : App, socks : Port, control : Port, home : BOOLEAN, left : BOOLEAN,
         state : {"starting", "up", "ready"}]
    \cup [app : App, socks : {0}, control : {0}, home : {FALSE}, left : BOOLEAN,
          state : {"dead"}]

\* Every variable has its type, and an app owns the Tor it has started.
TypeOK ==
    /\ ui \in [App -> Starting \cup {"idle", "closed", "killed"}]
    /\ ports \in [App -> Ports \cup {NoPorts}]
    /\ tor \in Seq(Tors) /\ Len(tor) <= MaxTor
    /\ runtime \in [App -> 0..MaxTor]
    /\ \A a \in App : runtime[a] # NoTor =>
          runtime[a] \in Process /\ tor[runtime[a]].app = a
    /\ foreign \subseteq Port

\* An app whose window is closed leaves no Tor process behind but those whose
\* starts have failed: the Drop of TorRuntime ends the one that succeeded,
\* whatever became of the starts before it and after an app's Tor has died.
CleanExit == \A a \in App : ui[a] = "closed" =>
    \A t \in Process : tor[t].app = a /\ Alive(t) => tor[t].left

\* However often the user clicks, whether his starts fail or not, an app has
\* one Tor besides those that failed starts have left.
OneTor == \A a \in App : \A s, t \in Process :
    tor[s].app = a /\ tor[t].app = a /\ Alive(s) /\ Alive(t) /\ s # t =>
        tor[s].left \/ tor[t].left

\* The Tor that an app uses or waits for lives in the data directory it was
\* given: neither a later click of the app, nor one that fails, nor another
\* app that starts or closes has removed it.
DirKept == \A a \in App : runtime[a] # NoTor \/ ui[a] \in Starting =>
    \A t \in Process : tor[t].app = a /\ Alive(t) /\ ~ tor[t].left => tor[t].home

\* While the Tor that an app has started is up, the addresses in the settings
\* lead to it and to nobody else, though the ports were free for anybody
\* between their choice and their use.
OwnTorAnswers == \A a \in App :
    LET t == runtime[a]
        p == ports[a]
    IN  t # NoTor /\ Up(t) =>
            /\ tor[t].socks = p.socks /\ At(p.socks) = {t}
            /\ tor[t].control = p.control /\ At(p.control) = {t}
            /\ {p.socks, p.control} \cap foreign = {}

\* When a start succeeds and its own Tor is up, that Tor is connected to the
\* network: the answer of another Tor, or of another program, is taken for its
\* own only when its own has no ports.
ReadyAtSuccess == [][\A a \in App :
    LET t == runtime'[a]
    IN  runtime[a] = NoTor /\ t # NoTor /\ Up(t) => tor[t].state = "ready"]_vars

\* A click comes back to the user (the whole window waits for it), unless
\* somebody (his own Tor, that of another app or another program) holds the
\* control port for ever and does not say what would end the wait.
ClickReturns == \A a \in App :
    ui[a] \in Starting ~>
        ui[a] \notin Starting \/ [](ui[a] = "bootstrap" /\ Taken(ports[a].control))
=============================================================================
