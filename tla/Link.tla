-------------------------------- MODULE Link --------------------------------
(***************************************************************************)
(* The link between the gateway and its machines: who gets in, which       *)
(* connection serves a name, how either end notices that the other is gone *)
(* and dials again, and what the Owner is told about it.                   *)
(*                                                                         *)
(* A connection is one task at the gateway (`on_socket`) and one loop at   *)
(* the machine (`connect_once`).  The gateway's tasks run on a pool of     *)
(* threads: what a task does between two awaits or two locks is one        *)
(* action.  The network may swallow a connection without a word.           *)
(***************************************************************************)
EXTENDS Naturals, Sequences

CONSTANTS
    Machines,  \* names of machines
    Conns,     \* sockets; one is used again when both its ends are gone
    NoConn,    \* nobody serves a name; a machine is not connected
    MaxNews,   \* bound: events forwarded and moves of the notice channel
    MaxQueue,  \* bound: frames waiting for one socket when a button is pressed
    Moves      \* which of the environment's moves this instance makes

AllMoves == {"cut", "exit", "click", "misconfigure"}

ASSUME ConnAssumption == NoConn \notin Conns
ASSUME BoundAssumption == MaxNews \in Nat /\ MaxQueue \in Nat

VARIABLES
  \* the gateway
    book,    \* LinkServer: the connection serving each name
    who,     \* the name a connection came under
    task,    \* how far the task of a connection is
    out,     \* what its channel holds for the socket
    pinged,  \* its IdleWatch: a Ping went out and nothing came back
    seen,    \* Presence: what the Owner believes of each name
    home,    \* access.json's notice channel, numbered as it changes
    draft,   \* the notice channel a Ready about to be sent was built with
    casting, \* set-homes saved and not yet pushed to the machines
    sent,    \* events forwarded so far, numbered in that order
  \* the network
    net,     \* whether a connection carries anything
  \* the machines
    at,      \* the connection a machine's loop reads
    mpinged, \* that loop's IdleWatch
    config,  \* what the machine presents in the upgrade
    tried,   \* this process has tried to update itself after a refusal
    greeted, \* the loop has taken this connection's Ready
    started, \* this process has got its first Ready and is working
    mhome,   \* the notice channel it writes to
    got,     \* events it took up, in order
  \* history
    settled  \* no set-home was under way since a machine's upgrade

gwVars == <<book, who, task, out, pinged, seen, home, draft, casting, sent>>
machineVars == <<at, mpinged, config, tried, greeted, started, mhome, got>>
vars == <<book, who, task, out, pinged, seen, home, draft, casting, sent, net,
          at, mpinged, config, tried, greeted, started, mhome, got, settled>>

Configs == [speaks : BOOLEAN, key : BOOLEAN, path : {"name", "probe", "bad"}]
Good == [speaks |-> TRUE, key |-> TRUE, path |-> "name"]
Phases == {"none", "accepted", "new", "joined", "greeting", "serving", "closing", "left"}

Ready(h) == [kind |-> "ready", home |-> h]
Home(h) == [kind |-> "home", home |-> h]
Event(e) == [kind |-> "event", event |-> e]
Action == [kind |-> "action"]

(* The order is the rule: the language, the key, and only then the name. *)
Admit(c) == IF ~c.speaks THEN "WrongVersion"
            ELSE IF ~c.key THEN "Unauthorized"
            ELSE IF c.path = "probe" THEN "Probe"
            ELSE IF c.path = "name" THEN "Ok" ELSE "BadPath"

Admissions == {"WrongVersion", "Unauthorized", "Probe", "Ok", "BadPath"}

Init ==
    /\ book = [m \in Machines |-> NoConn]
    /\ who \in [Conns -> Machines]
    /\ task = [c \in Conns |-> "none"]
    /\ out = [c \in Conns |-> <<>>]
    /\ pinged = [c \in Conns |-> FALSE]
    /\ seen = [m \in Machines |-> [up |-> FALSE, due |-> FALSE]]
    /\ home = 0
    /\ draft = [c \in Conns |-> 0]
    /\ casting = {}
    /\ sent = 0
    /\ net = [c \in Conns |-> "up"]
    /\ at = [m \in Machines |-> NoConn]
    /\ mpinged = [m \in Machines |-> FALSE]
    /\ config \in [Machines -> IF "misconfigure" \in Moves
                               THEN {k \in Configs : k.path = "name" /\ (k.speaks \/ k.key)}
                               ELSE {Good}]
    /\ tried = [m \in Machines |-> FALSE]
    /\ greeted = [m \in Machines |-> FALSE]
    /\ started = [m \in Machines |-> FALSE]
    /\ mhome = [m \in Machines |-> 0]
    /\ got = [m \in Machines |-> <<>>]
    /\ settled = [m \in Machines |-> FALSE]

-----------------------------------------------------------------------------
\* Ends of a connection

Reads(m, c) == c \in Conns /\ at[m] = c     \* the machine's end is open
MachineEnd(c) == \E m \in Machines : at[m] = c
GatewayEnd(c) == task[c] # "none"
Free(c) == ~MachineEnd(c) /\ ~GatewayEnd(c)

\* The channel's receiver lives as long as the task's function.
Open(c) == c \in Conns /\ GatewayEnd(c)

(* LinkServer::send_to: whether a frame goes into the channel of the link  *)
(* that serves the name now.                                               *)
CanSend(m) == Open(book[m])
Push(m, frame) == out' = [out EXCEPT ![book[m]] = Append(@, frame)]

-----------------------------------------------------------------------------
\* The machine dials

DialUnlessTried(m, c) ==  \* mutant: a refused process gives up
    /\ at[m] = NoConn /\ Free(c) /\ Admit(config[m]) = "Ok" /\ ~tried[m]
    /\ at' = [at EXCEPT ![m] = c]
    /\ who' = [who EXCEPT ![c] = m]
    /\ task' = [task EXCEPT ![c] = "accepted"]
    /\ net' = [net EXCEPT ![c] = "up"]
    /\ settled' = [settled EXCEPT ![m] = (casting = {})]
    /\ UNCHANGED <<book, out, pinged, seen, home, draft, casting, sent, mpinged, config,
                   tried, greeted, started, mhome, got>>

(* The upgrade of a dial that gets through: the handshake is over for the  *)
(* machine as soon as the gateway has decided, before its task runs.       *)
Dial(m, c) ==
    /\ at[m] = NoConn /\ Free(c) /\ Admit(config[m]) = "Ok"
    /\ at' = [at EXCEPT ![m] = c]
    /\ who' = [who EXCEPT ![c] = m]
    /\ task' = [task EXCEPT ![c] = "accepted"]
    /\ net' = [net EXCEPT ![c] = "up"]
    /\ settled' = [settled EXCEPT ![m] = (casting = {})]
    /\ UNCHANGED <<book, out, pinged, seen, home, draft, casting, sent, mpinged, config,
                   tried, greeted, started, mhome, got>>

(* A refusal.  The process stays and dials again after a while; refused as *)
(* too old, it looks for a newer release, once, and steps down for it.     *)
Refused(m) ==
    /\ at[m] = NoConn /\ Admit(config[m]) = "WrongVersion" /\ ~tried[m]
    /\ \/ /\ tried' = [tried EXCEPT ![m] = TRUE]
          /\ UNCHANGED <<config, started>>
       \/ /\ tried' = [tried EXCEPT ![m] = FALSE]
          /\ config' = [config EXCEPT ![m] = [speaks |-> TRUE, key |-> @.key, path |-> @.path]]
          /\ started' = [started EXCEPT ![m] = FALSE]
    /\ UNCHANGED <<gwVars, net, at, mpinged, greeted, mhome, got, settled>>

-----------------------------------------------------------------------------
\* The gateway's task: attach

Step(c, from, to) == task[c] = from /\ task' = [task EXCEPT ![c] = to]

(* LinkServer::register: the newest registration wins. The displaced       *)
(* connection's sender is dropped here, but its own task holds another,    *)
(* so that task goes on reading and writing its socket.                    *)
Register(c) ==
    /\ Step(c, "accepted", IF book[who[c]] = NoConn THEN "new" ELSE "joined")
    /\ book' = [book EXCEPT ![who[c]] = c]
    /\ UNCHANGED <<who, draft, out, pinged, seen, home, casting, sent, net, machineVars, settled>>

(* Presence::on_connect, for a name nobody served. *)
OnConnect(c) ==
    /\ Step(c, "new", "joined")
    /\ seen' = [seen EXCEPT ![who[c]] = [up |-> TRUE, due |-> FALSE]]
    /\ UNCHANGED <<book, who, draft, out, pinged, home, casting, sent, net, machineVars, settled>>

(* Ready is built (the notice channel is read from disk), then sent. *)
ReadHome(c) ==
    /\ Step(c, "joined", "greeting")
    /\ draft' = [draft EXCEPT ![c] = home]
    /\ UNCHANGED <<book, who, out, pinged, seen, home, casting, sent, net,
                   machineVars, settled>>

Greet(c) ==
    /\ Step(c, "greeting", "serving")
    /\ out' = [out EXCEPT ![c] = Append(@, Ready(draft[c]))]
    /\ draft' = [draft EXCEPT ![c] = 0]
    /\ UNCHANGED <<book, who, pinged, seen, home, casting, sent, net,
                   machineVars, settled>>

-----------------------------------------------------------------------------
\* The gateway's task: the loop over channel and socket

Serving(c) == task[c] = "serving"
Heard(c) == net[c] = "up"            \* what one end does reaches the other

TakeFirstHome(m, f) ==  \* mutant: a later Ready does not move home
    /\ started' = [started EXCEPT ![m] = @ \/ f.kind = "ready"]
    /\ greeted' = [greeted EXCEPT ![m] = @ \/ f.kind = "ready"]
    /\ mhome' = IF (f.kind = "ready") # started[m] /\ f.kind \in {"ready", "home"}
                THEN [mhome EXCEPT ![m] = f.home] ELSE mhome
    /\ got' = IF f.kind = "event" /\ started[m]
              THEN [got EXCEPT ![m] = Append(@, f.event)] ELSE got

(* What the machine's loop and the Bridge behind it do with a frame.       *)
(* Before the first Ready of a process everything else is dropped.         *)
Take(m, f) ==
    /\ started' = [started EXCEPT ![m] = @ \/ f.kind = "ready"]
    /\ greeted' = [greeted EXCEPT ![m] = @ \/ f.kind = "ready"]
    /\ mhome' = IF f.kind = "ready" \/ (f.kind = "home" /\ started[m])
                THEN [mhome EXCEPT ![m] = f.home] ELSE mhome
    /\ got' = IF f.kind = "event" /\ started[m]
              THEN [got EXCEPT ![m] = Append(@, f.event)] ELSE got

(* The next frame goes into the socket.  Writing counts as life.  A socket *)
(* the machine has closed refuses it; one that carries nothing takes it.   *)
Pump(c) ==
    /\ Serving(c) /\ out[c] # <<>>
    /\ out' = [out EXCEPT ![c] = Tail(@)]
    /\ pinged' = [pinged EXCEPT ![c] = FALSE]
    /\ IF Heard(c) /\ MachineEnd(c)
       THEN /\ Take(who[c], Head(out[c]))
            /\ mpinged' = [mpinged EXCEPT ![who[c]] = FALSE]
            /\ task' = task
       ELSE /\ task' = IF Heard(c) THEN [task EXCEPT ![c] = "closing"] ELSE task
            /\ UNCHANGED <<started, greeted, mhome, got, mpinged>>
    /\ UNCHANGED <<book, who, draft, seen, home, casting, sent, net, at, config,
                   tried, settled>>

(* The machine closed its end and the gateway is told. *)
SeeClose(c) ==
    /\ Serving(c) /\ Heard(c) /\ ~MachineEnd(c)
    /\ task' = [task EXCEPT ![c] = "closing"]
    /\ UNCHANGED <<book, who, draft, out, pinged, seen, home, casting, sent, net,
                   machineVars, settled>>

(* A window without traffic: the first one sends a Ping, the second gives  *)
(* the link up.  Over a network that carries, the Pong is back before the  *)
(* second window closes, and resets the watch.                             *)
Idle(c) ==
    /\ Serving(c) /\ out[c] = <<>> /\ ~Heard(c)
    /\ IF pinged[c] THEN /\ task' = [task EXCEPT ![c] = "closing"]
                         /\ pinged' = pinged
                    ELSE /\ pinged' = [pinged EXCEPT ![c] = TRUE]
                         /\ task' = task
    /\ UNCHANGED <<book, who, draft, out, seen, home, casting, sent, net,
                   machineVars, settled>>

-----------------------------------------------------------------------------
\* The gateway's task: detach

UnregisterByName(c) ==  \* mutant: whoever closes takes the name out
    /\ Step(c, "closing", "left")
    /\ book' = [book EXCEPT ![who[c]] = NoConn]
    /\ out' = [out EXCEPT ![c] = <<>>]
    /\ pinged' = [pinged EXCEPT ![c] = FALSE]
    /\ UNCHANGED <<who, draft, seen, home, casting, sent, net, machineVars, settled>>

UnregisterHandsOver(c) ==  \* mutant: what was queued goes to the newer link
    /\ Step(c, "closing", IF book[who[c]] = c THEN "left" ELSE "none")
    /\ book' = IF book[who[c]] = c THEN [book EXCEPT ![who[c]] = NoConn] ELSE book
    /\ out' = [k \in Conns |-> IF k = c THEN <<>>
                               ELSE IF k = book[who[c]] THEN out[k] \o out[c] ELSE out[k]]
    /\ pinged' = [pinged EXCEPT ![c] = FALSE]
    /\ UNCHANGED <<who, draft, seen, home, casting, sent, net, machineVars, settled>>

(* LinkServer::unregister: only the connection that still serves the name  *)
(* takes it out of the book.  With the task go its channel and its watch.  *)
Unregister(c) ==
    /\ Step(c, "closing", IF book[who[c]] = c THEN "left" ELSE "none")
    /\ book' = IF book[who[c]] = c THEN [book EXCEPT ![who[c]] = NoConn] ELSE book
    /\ out' = [out EXCEPT ![c] = <<>>]
    /\ pinged' = [pinged EXCEPT ![c] = FALSE]
    /\ UNCHANGED <<who, draft, seen, home, casting, sent, net, machineVars, settled>>

(* Presence::on_disconnect: the grace period starts. *)
OnDisconnect(c) ==
    /\ Step(c, "left", "none")
    /\ seen' = [seen EXCEPT ![who[c]] = [up |-> @.up, due |-> @.due \/ @.up]]
    /\ UNCHANGED <<book, who, draft, out, pinged, home, casting, sent, net,
                   machineVars, settled>>

(* Presence::due: the grace period of a name is over and home is told that *)
(* the connection is lost.                                                 *)
TellLost(m) ==
    /\ seen[m].due
    /\ seen' = [seen EXCEPT ![m] = [up |-> FALSE, due |-> FALSE]]
    /\ UNCHANGED <<book, who, task, draft, out, pinged, home, casting, sent, net,
                   machineVars, settled>>

-----------------------------------------------------------------------------
\* What is sent down a link

(* An event for a machine.  Without a link the person is told it could not *)
(* be delivered.                                                           *)
Forward(m) ==
    /\ sent + home < MaxNews /\ CanSend(m)
    /\ sent' = sent + 1
    /\ Push(m, Event(sent + 1))
    /\ UNCHANGED <<book, who, task, draft, pinged, seen, home, casting, net,
                   machineVars, settled>>

(* A button pressed in a channel of the machine. *)
Click(m) ==
    /\ "click" \in Moves /\ CanSend(m) /\ Len(out[book[m]]) < MaxQueue
    /\ Push(m, Action)
    /\ UNCHANGED <<book, who, task, draft, pinged, seen, home, casting, sent, net,
                   machineVars, settled>>

(* set-home: saved here first ... *)
SetHome ==
    /\ sent + home < MaxNews
    /\ home' = home + 1
    /\ casting' = casting \cup {home + 1}
    /\ settled' = [m \in Machines |-> FALSE]
    /\ UNCHANGED <<book, who, task, draft, out, pinged, seen, sent, net, machineVars>>

(* ... then pushed to every machine connected by now. *)
Broadcast(h) ==
    /\ casting' = casting \ {h}
    /\ out' = [c \in Conns |-> IF Open(c) /\ book[who[c]] = c
                               THEN Append(out[c], Home(h)) ELSE out[c]]
    /\ UNCHANGED <<book, who, task, draft, pinged, seen, home, sent, net,
                   machineVars, settled>>

-----------------------------------------------------------------------------
\* The machine's loop, its process and the network

(* The loop is left: the socket closes, and agents are not touched. *)
Drop(m) == /\ at' = [at EXCEPT ![m] = NoConn]
           /\ mpinged' = [mpinged EXCEPT ![m] = FALSE]
           /\ greeted' = [greeted EXCEPT ![m] = FALSE]
           /\ settled' = [settled EXCEPT ![m] = FALSE]

(* The gateway's end is gone.  The close comes late over a network that    *)
(* carries nothing for a while, or a reset answers the next Ping.          *)
MachineSeesClose(m) ==
    /\ \E c \in Conns : Reads(m, c) /\ ~GatewayEnd(c)
    /\ Drop(m)
    /\ UNCHANGED <<gwVars, net, config, tried, started, mhome, got>>

MachineIdle(m) ==
    /\ \E c \in Conns : Reads(m, c) /\ ~Heard(c)
    /\ \/ mpinged[m] /\ Drop(m)
       \/ /\ ~mpinged[m]
          /\ mpinged' = [mpinged EXCEPT ![m] = TRUE]
          /\ UNCHANGED <<at, greeted, settled>>
    /\ UNCHANGED <<gwVars, net, config, tried, started, mhome, got>>

(* The machine's process ends and its service manager starts another. *)
Exit(m) ==
    /\ "exit" \in Moves
    /\ Drop(m)
    /\ started' = [started EXCEPT ![m] = FALSE]
    /\ tried' = [tried EXCEPT ![m] = FALSE]
    /\ UNCHANGED <<gwVars, net, config, mhome, got>>

(* From now on nothing gets through on this connection, either way. *)
Cut(c) ==
    /\ "cut" \in Moves /\ Heard(c) /\ ~Free(c)
    /\ net' = [net EXCEPT ![c] = "cut"]
    /\ UNCHANGED <<gwVars, machineVars, settled>>

(* A person puts a machine's configuration right. *)
Fix(m) ==
    /\ config[m] # Good
    /\ config' = [config EXCEPT ![m] = Good]
    /\ UNCHANGED <<gwVars, net, at, mpinged, tried, greeted, started, mhome, got,
                   settled>>

-----------------------------------------------------------------------------
Attach(c) == Register(c) \/ OnConnect(c) \/ ReadHome(c) \/ Greet(c)
Serve(c) == Pump(c) \/ SeeClose(c) \/ Idle(c)
Detach(c) == Unregister(c) \/ OnDisconnect(c)
MachineLoop(m) == (\E c \in Conns : Dial(m, c)) \/ MachineSeesClose(m) \/ MachineIdle(m)

Next ==
    \/ \E c \in Conns : Attach(c) \/ Serve(c) \/ Detach(c) \/ Cut(c)
    \/ \E m \in Machines : \/ MachineLoop(m) \/ Refused(m) \/ Fix(m) \/ Exit(m)
                           \/ Forward(m) \/ Click(m) \/ TellLost(m)
    \/ SetHome
    \/ \E h \in casting : Broadcast(h)

Spec == Init /\ [][Next]_vars

(* Tasks, loops and the one-second tick go on as long as they have work; a *)
(* dial is tried again for ever.  The network and the Owner owe nothing.   *)
Fairness ==
    /\ \A c \in Conns : WF_vars(Attach(c)) /\ WF_vars(Serve(c)) /\ WF_vars(Detach(c))
    /\ \A m \in Machines : WF_vars(MachineLoop(m)) /\ WF_vars(TellLost(m))
    /\ WF_vars(\E h \in casting : Broadcast(h))

FairSpec == Spec /\ Fairness
-----------------------------------------------------------------------------
\* Properties

Frames == [kind : {"ready", "home"}, home : 0..MaxNews]
          \cup [kind : {"event"}, event : 1..MaxNews] \cup {Action}

(* Every variable has its type, and a socket nobody uses holds nothing     *)
(* that its next user could receive (`on_socket` owns channel and watch).  *)
TypeOK ==
    /\ book \in [Machines -> Conns \cup {NoConn}]
    /\ who \in [Conns -> Machines]
    /\ task \in [Conns -> Phases]
    /\ out \in [Conns -> Seq(Frames)]
    /\ pinged \in [Conns -> BOOLEAN]
    /\ seen \in [Machines -> [up : BOOLEAN, due : BOOLEAN]]
    /\ home \in 0..MaxNews
    /\ draft \in [Conns -> 0..MaxNews]
    /\ casting \subseteq 1..MaxNews
    /\ sent \in 0..MaxNews
    /\ net \in [Conns -> {"up", "cut"}]
    /\ at \in [Machines -> Conns \cup {NoConn}]
    /\ mpinged \in [Machines -> BOOLEAN]
    /\ config \in [Machines -> Configs]
    /\ tried \in [Machines -> BOOLEAN]
    /\ greeted \in [Machines -> BOOLEAN]
    /\ started \in [Machines -> BOOLEAN]
    /\ mhome \in [Machines -> 0..MaxNews]
    /\ got \in [Machines -> Seq(1..MaxNews)]
    /\ settled \in [Machines -> BOOLEAN]
    /\ \A c \in Conns : task[c] \in {"none", "left"} => out[c] = <<>> /\ ~pinged[c]

(* The connection book keeps the promise of Names: the newest registration *)
(* serves a name, and the end of an older connection, whenever it is       *)
(* noticed, never takes the newer one out (gateway.rs `register`,          *)
(* `unregister`).                                                          *)
Registered(c) == task[c] \in {"new", "joined", "greeting", "serving", "closing"}
Book == INSTANCE Names WITH
            holder <- book,
            claims <- {<<who[c], c>> : c \in {k \in Conns : Registered(k)}}
KeepsNames == Book!Spec

(* The machine takes up events in the order they were forwarded and none   *)
(* twice, over any number of reconnects and over both ends of a replaced   *)
(* connection (some may be lost with a connection).                        *)
EventsInOrder ==
    \A m \in Machines : \A i, j \in DOMAIN got[m] : i < j => got[m][i] < got[m][j]

(* What `TypeOK` says of dead sockets is why order survives a reconnect:   *)
(* nothing queued for one connection is left for the next.                 *)
OrderSurvives == TypeOK /\ EventsInOrder

(* A machine that was away when the notice channel was moved has the right *)
(* one from its next handshake on (`set_home`, the Ready frame).           *)
HomeCatchesUp ==
    \A m \in Machines : greeted[m] /\ settled[m] => mhome[m] = home

(* A connection whose machine is gone is found out and let go of, though   *)
(* no close ever arrives, once nothing is sent down it any more            *)
(* (`IdleWatch`).                                                          *)
Dead(c) == GatewayEnd(c) /\ ~MachineEnd(c)
NoMoreClicks == <>[][\A m \in Machines : ~Click(m)]_vars
GhostsLeave == NoMoreClicks => \A c \in Conns : Dead(c) ~> ~Dead(c)

(* A machine dials for as long as it takes: whatever broke its links and   *)
(* however often it was refused, once its configuration is good it is      *)
(* linked again and again (`RelayLink::run` never gives up).               *)
DialsForEver ==
    \A m \in Machines : <>[](config[m] = Good) => []<>(at[m] # NoConn)

(* Both: a link comes back, and what is left of an old one goes.           *)
LinksRenewed == DialsForEver /\ GhostsLeave
=============================================================================
