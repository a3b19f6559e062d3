----------------------------- MODULE LinkProofs -----------------------------
(***************************************************************************)
(* Theorems about Link for every set of machines and sockets, every bound  *)
(* and every choice of the environment's moves; and about Move, for every  *)
(* set of machines, every length of a conversation and every bound.        *)
(***************************************************************************)
EXTENDS Link, Move, SequenceTheorems, FiniteSetTheorems, WellFoundedInduction, TLAPS

USE ConnAssumption, BoundAssumption

-----------------------------------------------------------------------------
(* What the frames and the queues are made of.                             *)

LEMMA FrameFacts ==
  /\ \A h \in 0..MaxNews : Ready(h) \in Frames /\ Home(h) \in Frames
  /\ \A e \in 1..MaxNews : Event(e) \in Frames
  /\ Action \in Frames
  /\ \A f \in Frames : /\ f.kind \in {"ready", "home"} => f.home \in 0..MaxNews
                       /\ f.kind = "event" => f.event \in 1..MaxNews
  BY DEF Frames, Ready, Home, Event, Action

LEMMA PushType ==
  ASSUME NEW m \in Machines, NEW f \in Frames, TypeOK, CanSend(m), Push(m, f)
  PROVE  /\ book[m] \in Conns /\ task[book[m]] # "none"
         /\ out' \in [Conns -> Seq(Frames)]
         /\ \A c \in Conns : out'[c] = IF c = book[m] THEN Append(out[c], f) ELSE out[c]
  <1>1. book[m] \in Conns /\ task[book[m]] # "none"
    BY DEF CanSend, Open, GatewayEnd
  <1>2. Append(out[book[m]], f) \in Seq(Frames)
    BY <1>1 DEF TypeOK
  <1> QED BY <1>1, <1>2 DEF Push, TypeOK

LEMMA TakeType ==
  ASSUME NEW m \in Machines, NEW f \in Frames, TypeOK, Take(m, f)
  PROVE  /\ started' \in [Machines -> BOOLEAN]
         /\ greeted' \in [Machines -> BOOLEAN]
         /\ mhome' \in [Machines -> 0..MaxNews]
         /\ got' \in [Machines -> Seq(1..MaxNews)]
  <1>1. started' \in [Machines -> BOOLEAN] /\ greeted' \in [Machines -> BOOLEAN]
    BY DEF Take, TypeOK
  <1>2. mhome' \in [Machines -> 0..MaxNews]
    <2>1. f.kind \in {"ready", "home"} => f.home \in 0..MaxNews
      BY FrameFacts
    <2> QED BY <2>1 DEF Take, TypeOK
  <1>3. got' \in [Machines -> Seq(1..MaxNews)]
    <2>1. f.kind = "event" => Append(got[m], f.event) \in Seq(1..MaxNews)
      BY FrameFacts DEF TypeOK
    <2> QED BY <2>1 DEF Take, TypeOK
  <1> QED BY <1>1, <1>2, <1>3

-----------------------------------------------------------------------------
(* Types, and what they need: a connection that serves a name has a task   *)
(* that runs for that name.                                                *)

Served == \A m \in Machines :
            book[m] # NoConn => Registered(book[m]) /\ who[book[m]] = m

Inv == TypeOK /\ Served

LEMMA InitInv == Init => Inv
  <1> SUFFICES ASSUME Init PROVE Inv
    OBVIOUS
  <1>1. Good \in Configs
    BY DEF Good, Configs
  <1>2. config \in [Machines -> Configs]
    BY <1>1 DEF Init
  <1>3. out \in [Conns -> Seq(Frames)] /\ got \in [Machines -> Seq(1..MaxNews)]
    BY EmptySeq DEF Init
  <1> QED BY <1>2, <1>3 DEF Init, Inv, TypeOK, Served, Phases

LEMMA AttachInv ==
  ASSUME Inv, NEW c \in Conns, Attach(c)
  PROVE  Inv'
  <1>1. CASE Register(c)
    BY <1>1 DEF Inv, TypeOK, Served, Registered, Register, Step, Phases, machineVars
  <1>2. CASE OnConnect(c)
    BY <1>2 DEF Inv, TypeOK, Served, Registered, OnConnect, Step, Phases, machineVars
  <1>3. CASE ReadHome(c)
    BY <1>3 DEF Inv, TypeOK, Served, Registered, ReadHome, Step, Phases, machineVars
  <1>4. CASE Greet(c)
    <2>1. Append(out[c], Ready(draft[c])) \in Seq(Frames)
      BY FrameFacts DEF Inv, TypeOK
    <2> QED BY <1>4, <2>1 DEF Inv, TypeOK, Served, Registered, Greet, Step, Phases, machineVars
  <1> QED BY <1>1, <1>2, <1>3, <1>4 DEF Attach

LEMMA ServeInv ==
  ASSUME Inv, NEW c \in Conns, Serve(c)
  PROVE  Inv'
  <1>1. CASE Pump(c)
    <2>1. Head(out[c]) \in Frames /\ Tail(out[c]) \in Seq(Frames)
      BY <1>1, HeadTailProperties DEF Pump, Inv, TypeOK
    <2>2. out' \in [Conns -> Seq(Frames)]
      BY <1>1, <2>1 DEF Pump, Inv, TypeOK
    <2>3. task' \in [Conns -> Phases]
      BY <1>1 DEF Pump, Inv, TypeOK, Phases
    <2>4. /\ started' \in [Machines -> BOOLEAN]
          /\ greeted' \in [Machines -> BOOLEAN]
          /\ mhome' \in [Machines -> 0..MaxNews]
          /\ got' \in [Machines -> Seq(1..MaxNews)]
          /\ mpinged' \in [Machines -> BOOLEAN]
      <3>1. who[c] \in Machines
        BY DEF Inv, TypeOK
      <3>2. CASE Heard(c) /\ MachineEnd(c)
        BY <1>1, <2>1, <3>1, <3>2, TakeType DEF Pump, Inv, TypeOK
      <3>3. CASE ~(Heard(c) /\ MachineEnd(c))
        BY <1>1, <3>3 DEF Pump, Inv, TypeOK
      <3> QED BY <3>2, <3>3
    <2>5. /\ \A k \in Conns : task'[k] \in {"none", "left"} => out'[k] = <<>> /\ ~pinged'[k]
          /\ pinged' \in [Conns -> BOOLEAN]
      BY <1>1 DEF Pump, Serving, Inv, TypeOK
    <2>6. Served'
      BY <1>1 DEF Pump, Serving, Inv, TypeOK, Served, Registered
    <2>7. UNCHANGED <<book, who, draft, seen, home, casting, sent, net, at, config, tried, settled>>
      BY <1>1 DEF Pump
    <2> QED BY <2>2, <2>3, <2>4, <2>5, <2>6, <2>7 DEF Inv, TypeOK
  <1>2. CASE SeeClose(c)
    BY <1>2 DEF Inv, TypeOK, Served, Registered, SeeClose, Serving, Phases, machineVars
  <1>3. CASE Idle(c)
    <2>1. /\ pinged' \in [Conns -> BOOLEAN] /\ task' \in [Conns -> Phases]
          /\ \A k \in Conns : task'[k] \in {"none", "left"} => out[k] = <<>> /\ ~pinged'[k]
      <3>1. CASE pinged[c]
        BY <1>3, <3>1 DEF Inv, TypeOK, Idle, Serving, Phases
      <3>2. CASE ~pinged[c]
        BY <1>3, <3>2 DEF Inv, TypeOK, Idle, Serving, Phases
      <3> QED BY <3>1, <3>2
    <2>2. Served'
      <3>1. book' = book /\ who' = who /\ (task' = task \/ task' = [task EXCEPT ![c] = "closing"])
        BY <1>3 DEF Idle
      <3> QED BY <3>1 DEF Inv, TypeOK, Served, Registered
    <2>3. UNCHANGED <<book, who, draft, out, seen, home, casting, sent, net, machineVars, settled>>
      BY <1>3 DEF Idle
    <2> QED BY <2>1, <2>2, <2>3 DEF Inv, TypeOK, machineVars
  <1> QED BY <1>1, <1>2, <1>3 DEF Serve

LEMMA DetachInv ==
  ASSUME Inv, NEW c \in Conns, Detach(c)
  PROVE  Inv'
  <1>1. CASE Unregister(c)
    BY <1>1, EmptySeq DEF Inv, TypeOK, Served, Registered, Unregister, Step, Phases, machineVars
  <1>2. CASE OnDisconnect(c)
    BY <1>2 DEF Inv, TypeOK, Served, Registered, OnDisconnect, Step, Phases, machineVars
  <1> QED BY <1>1, <1>2 DEF Detach

LEMMA SendInv ==
  ASSUME Inv, NEW m \in Machines, Forward(m) \/ Click(m)
  PROVE  Inv'
  <1>1. CASE Forward(m)
    <2>1. sent' \in 0..MaxNews /\ sent' \in 1..MaxNews /\ Event(sent') \in Frames
      BY <1>1, FrameFacts DEF Forward, Inv, TypeOK
    <2>2. Push(m, Event(sent')) /\ CanSend(m)
      BY <1>1 DEF Forward
    <2>3. /\ book[m] \in Conns /\ task[book[m]] # "none" /\ out' \in [Conns -> Seq(Frames)]
          /\ \A c \in Conns : c # book[m] => out'[c] = out[c]
      BY <2>1, <2>2, PushType DEF Inv
    <2>4. task[book[m]] # "left"
      BY <2>3 DEF Inv, Served, Registered
    <2> QED BY <1>1, <2>1, <2>3, <2>4
            DEF Forward, Inv, TypeOK, Served, Registered, machineVars
  <1>2. CASE Click(m)
    <2>1. Push(m, Action) /\ CanSend(m)
      BY <1>2 DEF Click
    <2>2. /\ book[m] \in Conns /\ task[book[m]] # "none" /\ out' \in [Conns -> Seq(Frames)]
          /\ \A c \in Conns : c # book[m] => out'[c] = out[c]
      BY <2>1, FrameFacts, PushType DEF Inv
    <2>3. task[book[m]] # "left"
      BY <2>2 DEF Inv, Served, Registered
    <2> QED BY <1>2, <2>2, <2>3
            DEF Click, Inv, TypeOK, Served, Registered, machineVars
  <1> QED BY <1>1, <1>2

LEMMA BroadcastInv ==
  ASSUME Inv, NEW h \in casting, Broadcast(h)
  PROVE  Inv'
  <1>1. h \in 0..MaxNews /\ Home(h) \in Frames
    BY FrameFacts DEF Inv, TypeOK
  <1>2. \A c \in Conns : Append(out[c], Home(h)) \in Seq(Frames)
    BY <1>1 DEF Inv, TypeOK
  <1>3. out' \in [Conns -> Seq(Frames)]
    BY <1>2 DEF Broadcast, Inv, TypeOK
  <1>4. ASSUME NEW c \in Conns, task[c] \in {"none", "left"} PROVE out'[c] = <<>>
    <2>1. book[who[c]] # c
      BY <1>4, ZenonT(40) DEF Inv, TypeOK, Served, Registered
    <2>2. out'[c] = out[c]
      BY <2>1 DEF Broadcast
    <2> QED BY <1>4, <2>2 DEF Inv, TypeOK
  <1>5. casting' \subseteq 1..MaxNews
    BY DEF Broadcast, Inv, TypeOK
  <1>6. UNCHANGED <<book, who, task, draft, pinged, seen, home, sent, net, machineVars, settled>>
    BY DEF Broadcast
  <1> QED BY <1>3, <1>4, <1>5, <1>6 DEF Inv, TypeOK, Served, Registered, machineVars

LEMMA MachineInv ==
  ASSUME Inv, NEW m \in Machines,
         \/ \E c \in Conns : Dial(m, c)
         \/ MachineSeesClose(m) \/ MachineIdle(m) \/ Refused(m) \/ Fix(m) \/ Exit(m)
  PROVE  Inv'
  <1>1. ASSUME NEW c \in Conns, Dial(m, c) PROVE Inv'
    <2>1. \A n \in Machines : book[n] # c
      BY <1>1 DEF Dial, Free, GatewayEnd, Inv, TypeOK, Served, Registered
    <2> QED BY <1>1, <2>1
            DEF Dial, Free, GatewayEnd, Inv, TypeOK, Served, Registered, Phases
  <1>2. CASE MachineSeesClose(m)
    BY <1>2 DEF MachineSeesClose, Drop, Inv, TypeOK, Served, Registered, gwVars
  <1>3. CASE MachineIdle(m)
    BY <1>3, ZenonT(40) DEF MachineIdle, Drop, Inv, TypeOK, Served, Registered, gwVars
  <1>4. CASE Refused(m)
    <2>1. [speaks |-> TRUE, key |-> config[m].key, path |-> config[m].path] \in Configs
      BY DEF Inv, TypeOK, Configs
    <2>2. config' \in [Machines -> Configs]
      BY <1>4, <2>1 DEF Refused, Inv, TypeOK
    <2>3. tried' \in [Machines -> BOOLEAN] /\ started' \in [Machines -> BOOLEAN]
      BY <1>4 DEF Refused, Inv, TypeOK
    <2> QED BY <1>4, <2>2, <2>3 DEF Refused, Inv, TypeOK, Served, Registered, gwVars
  <1>5. CASE Fix(m)
    BY <1>5 DEF Fix, Good, Configs, Inv, TypeOK, Served, Registered, gwVars
  <1>6. CASE Exit(m)
    BY <1>6 DEF Exit, Drop, Inv, TypeOK, Served, Registered, gwVars
  <1> QED BY <1>1, <1>2, <1>3, <1>4, <1>5, <1>6

LEMMA StepInv == Inv /\ [Next]_vars => Inv'
  <1> SUFFICES ASSUME Inv, [Next]_vars PROVE Inv'
    OBVIOUS
  <1>1. ASSUME NEW c \in Conns, Attach(c) \/ Serve(c) \/ Detach(c) PROVE Inv'
    BY <1>1, AttachInv, ServeInv, DetachInv
  <1>2. ASSUME NEW c \in Conns, Cut(c) PROVE Inv'
    BY <1>2 DEF Cut, gwVars, machineVars, Inv, TypeOK, Served, Registered
  <1>3. ASSUME NEW m \in Machines, MachineLoop(m) \/ Refused(m) \/ Fix(m) \/ Exit(m) PROVE Inv'
    BY <1>3, MachineInv DEF MachineLoop
  <1>4. ASSUME NEW m \in Machines, Forward(m) \/ Click(m) PROVE Inv'
    BY <1>4, SendInv
  <1>5. ASSUME NEW m \in Machines, TellLost(m) PROVE Inv'
    BY <1>5 DEF TellLost, machineVars, Inv, TypeOK, Served, Registered
  <1>6. CASE SetHome
    BY <1>6 DEF SetHome, machineVars, Inv, TypeOK, Served, Registered
  <1>7. ASSUME NEW h \in casting, Broadcast(h) PROVE Inv'
    BY <1>7, BroadcastInv
  <1>8. CASE UNCHANGED vars
    BY <1>8 DEF vars, Inv, TypeOK, Served, Registered
  <1> QED BY <1>1, <1>2, <1>3, <1>4, <1>5, <1>6, <1>7, <1>8 DEF Next

(* Every variable of Link has its type, and a socket nobody uses holds     *)
(* nothing for its next user, under every move of network and people.      *)
THEOREM TypeCorrect == Spec => []TypeOK
  <1>1. Inv => TypeOK
    BY DEF Inv
  <1> QED BY InitInv, StepInv, <1>1, PTL DEF Spec

-----------------------------------------------------------------------------
(* Link implements Names: registration is a claim, the end of a connection *)
(* is its retirement, and everything else leaves the names alone.          *)

LEMMA NamesInit == Init => Book!Init
  BY DEF Init, Book!Init, Registered

LEMMA NamesKept ==
  ASSUME UNCHANGED <<book, who>>, \A c \in Conns : Registered(c)' <=> Registered(c)
  PROVE  UNCHANGED <<book, {<<who[c], c>> : c \in {k \in Conns : Registered(k)}}>>
  OBVIOUS

LEMMA NamesStep == Inv /\ [Next]_vars =>
    [Book!Next]_<<book, {<<who[c], c>> : c \in {k \in Conns : Registered(k)}}>>
  <1> DEFINE claims == {<<who[c], c>> : c \in {k \in Conns : Registered(k)}}
  <1> SUFFICES ASSUME Inv, [Next]_vars
               PROVE  Book!Next \/ UNCHANGED <<book, claims>>
    OBVIOUS
  <1>1. ASSUME NEW c \in Conns, Register(c) PROVE Book!Next
    <2>1. who[c] \in Machines /\ task[c] = "accepted" /\ task'[c] \in {"new", "joined"}
          /\ who' = who /\ book' = [book EXCEPT ![who[c]] = c]
          /\ \A k \in Conns : k # c => task'[k] = task[k]
      BY <1>1 DEF Register, Step, Inv, TypeOK
    <2>2. \A n \in Machines : <<n, c>> \notin claims
      BY <2>1 DEF Registered
    <2>3. claims' = claims \cup {<<who[c], c>>}
      BY <2>1 DEF Registered
    <2>4. Book!Claim(who[c], c)
      BY <2>1, <2>2, <2>3 DEF Book!Claim
    <2> QED BY <2>1, <2>4 DEF Book!Next
  <1>2. ASSUME NEW c \in Conns, Unregister(c) PROVE Book!Next
    <2>1. who[c] \in Machines /\ task[c] = "closing" /\ task'[c] \in {"left", "none"}
          /\ who' = who /\ \A k \in Conns : k # c => task'[k] = task[k]
      BY <1>2 DEF Unregister, Step, Inv, TypeOK
    <2>2. <<who[c], c>> \in claims
      BY <2>1 DEF Registered
    <2>3. claims' = claims \ {<<who[c], c>>}
      BY <2>1 DEF Registered
    <2>4. book' = IF book[who[c]] = c THEN [book EXCEPT ![who[c]] = NoConn] ELSE book
      BY <1>2 DEF Unregister
    <2>5. Book!Retire(who[c], c)
      BY <2>2, <2>3, <2>4 DEF Book!Retire
    <2> QED BY <2>1, <2>5 DEF Book!Next
  <1>3. ASSUME NEW c \in Conns, OnConnect(c) \/ ReadHome(c) \/ Greet(c) \/ OnDisconnect(c)
        PROVE  UNCHANGED <<book, claims>>
    <2>1. \A k \in Conns : Registered(k)' <=> Registered(k)
      BY <1>3 DEF OnConnect, ReadHome, Greet, OnDisconnect, Step, Registered, Inv, TypeOK
    <2>2. UNCHANGED <<book, who>>
      BY <1>3 DEF OnConnect, ReadHome, Greet, OnDisconnect
    <2> QED BY <2>1, <2>2, NamesKept
  <1>4. ASSUME NEW c \in Conns, Serve(c)
        PROVE  UNCHANGED <<book, claims>>
    <2>1. /\ UNCHANGED <<book, who>> /\ task[c] = "serving"
          /\ task' = task \/ task' = [task EXCEPT ![c] = "closing"]
      BY <1>4 DEF Serve, Pump, SeeClose, Idle, Serving
    <2>2. \A k \in Conns : Registered(k)' <=> Registered(k)
      BY <2>1 DEF Registered, Inv, TypeOK
    <2> QED BY <2>1, <2>2, NamesKept
  <1>5. ASSUME NEW m \in Machines, NEW c \in Conns, Dial(m, c)
        PROVE  UNCHANGED <<book, claims>>
    <2>1. /\ book' = book /\ task[c] = "none" /\ task'[c] = "accepted"
          /\ \A k \in Conns : k # c => task'[k] = task[k] /\ who'[k] = who[k]
      BY <1>5 DEF Dial, Free, GatewayEnd, Inv, TypeOK
    <2>2. claims' = claims
      BY <2>1 DEF Registered
    <2> QED BY <2>1, <2>2
  <1>6. CASE \/ UNCHANGED <<book, who, task>>
    <2>1. \A k \in Conns : Registered(k)' <=> Registered(k)
      BY <1>6 DEF Registered
    <2> QED BY <1>6, <2>1, NamesKept
  <1>7. ASSUME NEW m \in Machines,
               \/ MachineSeesClose(m) \/ MachineIdle(m) \/ Refused(m) \/ Fix(m) \/ Exit(m)
               \/ Forward(m) \/ Click(m) \/ TellLost(m)
        PROVE  UNCHANGED <<book, who, task>>
    BY <1>7 DEF MachineSeesClose, MachineIdle, Refused, Fix, Exit, Forward, Click, TellLost, gwVars
  <1>8. ASSUME SetHome \/ (\E h \in casting : Broadcast(h)) \/ (\E c \in Conns : Cut(c))
               \/ UNCHANGED vars
        PROVE  UNCHANGED <<book, who, task>>
    BY <1>8 DEF SetHome, Broadcast, Cut, gwVars, vars
  <1> QED BY <1>1, <1>2, <1>3, <1>4, <1>5, <1>6, <1>7, <1>8
          DEF Next, Attach, Detach, MachineLoop

(* The connection book of Link keeps the promise of Names: whatever the    *)
(* order in which connections close, a name stays with the connection that *)
(* claimed it last (`LinkServer::register`, `unregister`).                 *)
THEOREM ImplementsNames == Spec => KeepsNames
  <1>1. Inv /\ [Next]_vars => Inv'
    BY StepInv
  <1> QED BY InitInv, <1>1, NamesInit, NamesStep, PTL DEF Spec, KeepsNames, Book!Spec

-----------------------------------------------------------------------------
(* Events in order.  What a machine has taken up is sorted, what its       *)
(* connection still holds is sorted too and later than all of that, and    *)
(* neither runs ahead of the gateway's count.  A new connection starts     *)
(* with an empty channel, so a machine never hears of older events again.  *)

Sorted(s) == \A i, j \in 1..Len(s) : i < j => s[i] < s[j]
EventsSorted(q) == \A i, j \in 1..Len(q) :
    i < j /\ q[i].kind = "event" /\ q[j].kind = "event" => q[i].event < q[j].event
After(s, q) == \A i \in 1..Len(s), j \in 1..Len(q) :
    q[j].kind = "event" => s[i] < q[j].event
NoLater(q, n) == \A j \in 1..Len(q) : q[j].kind = "event" => q[j].event <= n

Chain(s, q, n) ==
    /\ Sorted(s) /\ \A i \in 1..Len(s) : s[i] <= n
    /\ EventsSorted(q) /\ After(s, q) /\ NoLater(q, n)

InOrder == \A m \in Machines :
    /\ at[m] # NoConn => who[at[m]] = m /\ Chain(got[m], out[at[m]], sent)
    /\ Chain(got[m], <<>>, sent)

LEMMA ChainEmpty ==
  ASSUME NEW s \in Seq(1..MaxNews), NEW q \in Seq(Frames), NEW n \in 0..MaxNews, Chain(s, q, n)
  PROVE  Chain(s, <<>>, n)
  BY EmptySeq DEF Chain, EventsSorted, After, NoLater

LEMMA ChainMore ==
  ASSUME NEW s \in Seq(1..MaxNews), NEW q \in Seq(Frames), NEW n \in 0..MaxNews,
         n + 1 \in 0..MaxNews, Chain(s, q, n)
  PROVE  Chain(s, q, n + 1)
  <1>1. \A i \in 1..Len(s) : s[i] \in 1..MaxNews
    BY ElementOfSeq
  <1>2. \A j \in 1..Len(q) : q[j].kind = "event" => q[j].event \in 1..MaxNews
    BY ElementOfSeq, FrameFacts
  <1> QED BY <1>1, <1>2 DEF Chain, NoLater

\* A frame at the end of the channel: a new event, or no event at all
LEMMA ChainAppend ==
  ASSUME NEW s \in Seq(1..MaxNews), NEW q \in Seq(Frames), NEW n \in 0..MaxNews,
         NEW f \in Frames,
         f.kind = "event" => f.event = n /\ Chain(s, q, n - 1) /\ n # 0,
         Chain(s, q, n)
  PROVE  Chain(s, Append(q, f), n)
  <1>1. /\ Len(q) \in Nat /\ Len(Append(q, f)) = Len(q) + 1
        /\ \A i \in 1..Len(q) : Append(q, f)[i] = q[i]
        /\ Append(q, f)[Len(q) + 1] = f
    OBVIOUS
  <1>2. \A i \in 1..Len(s) : s[i] \in 1..MaxNews
    BY ElementOfSeq
  <1>3. \A j \in 1..Len(q) : q[j].kind = "event" => q[j].event \in 1..MaxNews
    BY ElementOfSeq, FrameFacts
  <1>4. NoLater(Append(q, f), n)
    BY <1>1, <1>3 DEF Chain, NoLater
  <1>5. After(s, Append(q, f))
    <2>1. ASSUME NEW i \in 1..Len(s), NEW j \in 1..Len(q) + 1, Append(q, f)[j].kind = "event"
          PROVE  s[i] < Append(q, f)[j].event
      <3>1. CASE j \in 1..Len(q)
        BY <1>1, <2>1, <3>1 DEF Chain, After
      <3>2. CASE j = Len(q) + 1
        BY <1>1, <1>2, <2>1, <3>2 DEF Chain
      <3> QED BY <1>1, <3>1, <3>2
    <2> QED BY <1>1, <2>1 DEF After
  <1>6. EventsSorted(Append(q, f))
    BY <1>1, <1>3 DEF Chain, EventsSorted, NoLater
  <1> QED BY <1>4, <1>5, <1>6 DEF Chain

\* The head of the channel goes to the machine, which may or may not take it up
LEMMA ChainTake ==
  ASSUME NEW s \in Seq(1..MaxNews), NEW q \in Seq(Frames), q # <<>>,
         NEW n \in 0..MaxNews, Chain(s, q, n)
  PROVE  /\ Chain(s, Tail(q), n)
         /\ Head(q).kind = "event" => Chain(Append(s, Head(q).event), Tail(q), n)
  <1>1. /\ Len(q) \in Nat \ {0} /\ Len(Tail(q)) = Len(q) - 1
        /\ \A i \in 1..Len(Tail(q)) : Tail(q)[i] = q[i + 1]
    BY HeadTailProperties, EmptySeq
  <1>2. Head(q) = q[1]
    OBVIOUS
  <1>3. \A i \in 1..Len(s) : s[i] \in 1..MaxNews
    BY ElementOfSeq
  <1>4. \A j \in 1..Len(q) : q[j].kind = "event" => q[j].event \in 1..MaxNews
    BY ElementOfSeq, FrameFacts
  <1>5. EventsSorted(Tail(q)) /\ After(s, Tail(q)) /\ NoLater(Tail(q), n)
    <2>1. EventsSorted(q) /\ After(s, q) /\ NoLater(q, n)
      BY DEF Chain
    <2>2. \A j \in 1..Len(Tail(q)) : j + 1 \in 1..Len(q) /\ Tail(q)[j] = q[j + 1]
      BY <1>1
    <2>3. After(s, Tail(q)) /\ NoLater(Tail(q), n)
      BY <2>1, <2>2 DEF After, NoLater
    <2>4. EventsSorted(Tail(q))
      <3>1. SUFFICES ASSUME NEW i \in 1..Len(Tail(q)), NEW j \in 1..Len(Tail(q)), i < j,
                            Tail(q)[i].kind = "event", Tail(q)[j].kind = "event"
                     PROVE  Tail(q)[i].event < Tail(q)[j].event
        BY DEF EventsSorted
      <3>2. i + 1 < j + 1
        BY <3>1
      <3> QED BY <2>1, <2>2, <3>1, <3>2 DEF EventsSorted
    <2> QED BY <2>3, <2>4
  <1>6. ASSUME Head(q).kind = "event"
        PROVE  Chain(Append(s, Head(q).event), Tail(q), n)
    <2> DEFINE e == Head(q).event
               t == Append(s, e)
    <2>1. e \in 1..MaxNews /\ e <= n /\ \A i \in 1..Len(s) : s[i] < e
      BY <1>1, <1>2, <1>3, <1>4, <1>6 DEF Chain, After, NoLater
    <2>2. /\ Len(s) \in Nat /\ Len(t) = Len(s) + 1
          /\ \A i \in 1..Len(s) : t[i] = s[i]
          /\ t[Len(s) + 1] = e
      BY <2>1
    <2>3. \A i \in 1..Len(t) : t[i] <= n
      BY <2>1, <2>2 DEF Chain
    <2>4. Sorted(t)
      BY <2>1, <2>2, <1>3, SMTT(20) DEF Chain, Sorted
    <2>5. \A j \in 1..Len(Tail(q)) : Tail(q)[j].kind = "event" => e < Tail(q)[j].event
      BY <1>1, <1>2, <1>6 DEF Chain, EventsSorted
    <2>6. After(t, Tail(q))
      BY <1>5, <2>2, <2>5 DEF After
    <2> QED BY <1>5, <2>3, <2>4, <2>6 DEF Chain
  <1> QED BY <1>5, <1>6 DEF Chain

LEMMA InOrderInit == Init => InOrder
  <1> SUFFICES ASSUME Init PROVE InOrder
    OBVIOUS
  <1>1. Chain(<<>>, <<>>, 0)
    BY EmptySeq DEF Chain, Sorted, EventsSorted, After, NoLater
  <1> QED BY <1>1 DEF Init, InOrder

\* Steps that leave what the machines took up, the count and the names alone,
\* and put at most one frame that is no event at the end of a channel
LEMMA InOrderQuiet ==
  ASSUME Inv, InOrder, UNCHANGED <<got, sent, who>>,
         \A m \in Machines : at'[m] = at[m] \/ at'[m] = NoConn,
         \A c \in Conns : \/ out'[c] = out[c] \/ out'[c] = <<>>
                          \/ \E f \in Frames : f.kind # "event" /\ out'[c] = Append(out[c], f)
  PROVE  InOrder'
  <1>1. ASSUME NEW m \in Machines, at'[m] # NoConn
        PROVE  who'[at'[m]] = m /\ Chain(got'[m], out'[at'[m]], sent')
    <2>1. at'[m] = at[m] /\ at[m] \in Conns /\ who[at[m]] = m /\ Chain(got[m], out[at[m]], sent)
      BY <1>1 DEF Inv, TypeOK, InOrder
    <2>2. got[m] \in Seq(1..MaxNews) /\ out[at[m]] \in Seq(Frames) /\ sent \in 0..MaxNews
      BY <2>1 DEF Inv, TypeOK
    <2>3. CASE out'[at[m]] = out[at[m]]
      BY <2>1, <2>3
    <2>4. CASE out'[at[m]] = <<>>
      BY <2>1, <2>2, <2>4, ChainEmpty
    <2>5. ASSUME NEW f \in Frames, f.kind # "event", out'[at[m]] = Append(out[at[m]], f)
          PROVE  Chain(got[m], out'[at[m]], sent)
      BY <2>1, <2>2, <2>5, ChainAppend
    <2> QED BY <2>1, <2>3, <2>4, <2>5
  <1> QED BY <1>1 DEF InOrder

LEMMA InOrderDial ==
  ASSUME Inv, InOrder, NEW m \in Machines, NEW c \in Conns, Dial(m, c)
  PROVE  InOrder'
  <1>1. out[c] = <<>> /\ \A n \in Machines : at[n] # c
    BY DEF Dial, Free, GatewayEnd, MachineEnd, Inv, TypeOK
  <1>2. /\ at' = [at EXCEPT ![m] = c] /\ who' = [who EXCEPT ![c] = m]
        /\ UNCHANGED <<out, got, sent>>
    BY DEF Dial
  <1>3. ASSUME NEW n \in Machines, at'[n] # NoConn
        PROVE  who'[at'[n]] = n /\ Chain(got'[n], out'[at'[n]], sent')
    <2>1. CASE n = m
      BY <1>1, <1>2, <2>1 DEF InOrder, Inv, TypeOK
    <2>2. CASE n # m
      <3>1. at'[n] = at[n] /\ at[n] \in Conns /\ at[n] # c
        BY <1>1, <1>2, <1>3, <2>2 DEF Inv, TypeOK
      <3> QED BY <1>2, <1>3, <3>1 DEF InOrder, Inv, TypeOK
    <2> QED BY <2>1, <2>2
  <1> QED BY <1>2, <1>3 DEF InOrder

LEMMA InOrderPump ==
  ASSUME Inv, InOrder, NEW c \in Conns, Pump(c)
  PROVE  InOrder'
  <1>1. /\ out[c] \in Seq(Frames) /\ out[c] # <<>> /\ out' = [out EXCEPT ![c] = Tail(@)]
        /\ UNCHANGED <<at, who, sent>> /\ sent \in 0..MaxNews
        /\ Head(out[c]) \in Frames /\ Tail(out[c]) \in Seq(Frames)
    BY HeadTailProperties DEF Pump, Inv, TypeOK
  <1>2. ASSUME NEW m \in Machines
        PROVE  \/ got'[m] = got[m]
               \/ /\ at[m] = c /\ Head(out[c]).kind = "event"
                  /\ got'[m] = Append(got[m], Head(out[c]).event)
    <2>1. CASE Heard(c) /\ MachineEnd(c)
      <3>1. PICK n \in Machines : at[n] = c
        BY <2>1 DEF MachineEnd
      <3>2. who[c] = n
        BY <3>1 DEF InOrder
      <3>3. Take(n, Head(out[c]))
        BY <2>1, <3>2 DEF Pump
      <3> QED BY <3>1, <3>3 DEF Take, Inv, TypeOK
    <2>2. CASE ~(Heard(c) /\ MachineEnd(c))
      BY <2>2 DEF Pump
    <2> QED BY <2>1, <2>2
  <1>3. ASSUME NEW m \in Machines
        PROVE  /\ at'[m] # NoConn => who'[at'[m]] = m /\ Chain(got'[m], out'[at'[m]], sent')
               /\ Chain(got'[m], <<>>, sent')
    <2>1. got[m] \in Seq(1..MaxNews) /\ got'[m] \in Seq(1..MaxNews)
      BY ServeInv DEF Serve, Inv, TypeOK
    <2>2. CASE at[m] = c
      <3>1. who[c] = m /\ Chain(got[m], out[c], sent)
        BY <2>2 DEF InOrder
      <3>2. Chain(got'[m], Tail(out[c]), sent)
        <4>1. /\ Chain(got[m], Tail(out[c]), sent)
              /\ Head(out[c]).kind = "event" => Chain(Append(got[m], Head(out[c]).event), Tail(out[c]), sent)
          BY <1>1, <2>1, <3>1, ChainTake
        <4> QED BY <1>2, <4>1
      <3>3. out'[c] = Tail(out[c])
        BY <1>1 DEF Inv, TypeOK
      <3> QED BY <1>1, <2>1, <2>2, <3>1, <3>2, <3>3, ChainEmpty
    <2>3. CASE at[m] # c
      BY <1>1, <1>2, <2>3 DEF InOrder, Inv, TypeOK
    <2> QED BY <2>2, <2>3
  <1> QED BY <1>3 DEF InOrder

LEMMA InOrderForward ==
  ASSUME Inv, InOrder, NEW m \in Machines, Forward(m)
  PROVE  InOrder'
  <1>1. /\ sent \in 0..MaxNews /\ sent' = sent + 1 /\ sent' \in 1..MaxNews
        /\ Event(sent') \in Frames /\ UNCHANGED <<at, who, got>>
    BY FrameFacts DEF Forward, machineVars, Inv, TypeOK
  <1>2. /\ book[m] \in Conns
        /\ \A c \in Conns : out'[c] = IF c = book[m] THEN Append(out[c], Event(sent')) ELSE out[c]
    BY <1>1, PushType DEF Forward, Inv
  <1>3. ASSUME NEW n \in Machines
        PROVE  /\ at'[n] # NoConn => who'[at'[n]] = n /\ Chain(got'[n], out'[at'[n]], sent')
               /\ Chain(got'[n], <<>>, sent')
    <2>1. got[n] \in Seq(1..MaxNews) /\ Chain(got[n], <<>>, sent)
      BY DEF Inv, TypeOK, InOrder
    <2> DEFINE next == sent + 1
    <2>a. next \in 0..MaxNews /\ next = sent' /\ <<>> \in Seq(Frames)
      BY <1>1, EmptySeq
    <2>2. Chain(got[n], <<>>, next)
      BY <1>1, <2>1, <2>a, ChainMore
    <2>3. ASSUME at[n] # NoConn
          PROVE  who[at[n]] = n /\ Chain(got[n], out'[at[n]], next)
      <3>1. /\ at[n] \in Conns /\ out[at[n]] \in Seq(Frames) /\ who[at[n]] = n
            /\ Chain(got[n], out[at[n]], sent)
        BY <2>3 DEF Inv, TypeOK, InOrder
      <3>2. Chain(got[n], out[at[n]], next)
        BY <1>1, <2>1, <2>a, <3>1, ChainMore
      <3>3. Event(next) \in Frames /\ Event(next).event = next /\ next - 1 = sent /\ next # 0
        BY <1>1, <2>a DEF Event
      <3>4. Chain(got[n], out[at[n]], next - 1)
        BY <3>1, <3>3
      <3> HIDE DEF next
      <3>5. Chain(got[n], Append(out[at[n]], Event(next)), next)
        BY <2>1, <2>a, <3>1, <3>2, <3>3, <3>4, ChainAppend
      <3> QED BY <1>2, <2>a, <3>1, <3>2, <3>5
    <2> QED BY <1>1, <2>a, <2>2, <2>3
  <1> QED BY <1>3 DEF InOrder

LEMMA InOrderStep == Inv /\ InOrder /\ [Next]_vars => InOrder'
  <1> SUFFICES ASSUME Inv, InOrder, [Next]_vars PROVE InOrder'
    OBVIOUS
  <1>1. ASSUME NEW c \in Conns, \/ Register(c) \/ OnConnect(c) \/ ReadHome(c)
                                \/ SeeClose(c) \/ Idle(c) \/ OnDisconnect(c) \/ Cut(c)
        PROVE  InOrder'
    BY <1>1, InOrderQuiet
       DEF Register, OnConnect, ReadHome, SeeClose, Idle, OnDisconnect, Cut, machineVars, gwVars
  <1>2. ASSUME NEW c \in Conns, Greet(c) PROVE InOrder'
    <2>1. Ready(draft[c]) \in Frames /\ Ready(draft[c]).kind # "event"
      BY FrameFacts DEF Inv, TypeOK, Ready
    <2>2. UNCHANGED <<got, sent, who, at>> /\ out' = [out EXCEPT ![c] = Append(@, Ready(draft[c]))]
      BY <1>2 DEF Greet, machineVars
    <2>3. \A k \in Conns : out'[k] = out[k] \/ out'[k] = Append(out[k], Ready(draft[c]))
      BY <2>2 DEF Inv, TypeOK
    <2> QED BY <2>1, <2>2, <2>3, InOrderQuiet
  <1>3. ASSUME NEW c \in Conns, Unregister(c) PROVE InOrder'
    <2>1. UNCHANGED <<got, sent, who, at>> /\ out' = [out EXCEPT ![c] = <<>>]
      BY <1>3 DEF Unregister, machineVars
    <2>2. \A k \in Conns : out'[k] = out[k] \/ out'[k] = <<>>
      BY <2>1 DEF Inv, TypeOK
    <2> QED BY <2>1, <2>2, InOrderQuiet
  <1>4. ASSUME NEW m \in Machines,
               \/ MachineSeesClose(m) \/ MachineIdle(m) \/ Refused(m) \/ Fix(m) \/ Exit(m)
               \/ TellLost(m)
        PROVE  InOrder'
    <2>1. UNCHANGED <<got, sent, who, out>>
      BY <1>4 DEF MachineSeesClose, MachineIdle, Refused, Fix, Exit, TellLost, gwVars, machineVars
    <2>2. \A n \in Machines : at'[n] = at[n] \/ at'[n] = NoConn
      BY <1>4 DEF MachineSeesClose, MachineIdle, Refused, Fix, Exit, TellLost, Drop, gwVars,
                  machineVars, Inv, TypeOK
    <2> QED BY <2>1, <2>2, InOrderQuiet
  <1>5. ASSUME NEW m \in Machines, Click(m) PROVE InOrder'
    <2>1. UNCHANGED <<got, sent, who, at>> /\ Push(m, Action) /\ CanSend(m)
      BY <1>5 DEF Click, machineVars
    <2>2. Action \in Frames /\ Action.kind # "event"
      BY FrameFacts DEF Action
    <2>3. TypeOK
      BY DEF Inv
    <2>4. \A k \in Conns : out'[k] = out[k] \/ out'[k] = Append(out[k], Action)
      <3>1. \A k \in Conns : out'[k] = IF k = book[m] THEN Append(out[k], Action) ELSE out[k]
        BY <2>1, <2>2, <2>3, PushType, ZenonT(30)
      <3> QED BY <3>1
    <2> QED BY <2>1, <2>2, <2>4, InOrderQuiet
  <1>6. ASSUME NEW h \in casting, Broadcast(h) PROVE InOrder'
    <2>1. UNCHANGED <<got, sent, who, at>>
          /\ \A k \in Conns : out'[k] = out[k] \/ out'[k] = Append(out[k], Home(h))
      BY <1>6 DEF Broadcast, machineVars
    <2>2. Home(h) \in Frames /\ Home(h).kind # "event"
      BY FrameFacts DEF Inv, TypeOK, Home
    <2> QED BY <2>1, <2>2, InOrderQuiet
  <1>7. CASE SetHome \/ UNCHANGED vars
    BY <1>7, InOrderQuiet DEF SetHome, vars, machineVars
  <1> QED BY <1>1, <1>2, <1>3, <1>4, <1>5, <1>6, <1>7, InOrderDial, InOrderPump, InOrderForward
          DEF Next, Attach, Serve, Detach, MachineLoop

(* A machine takes up events in the order they were forwarded and none     *)
(* twice, over any number of connections, cuts and restarts.               *)
THEOREM AlwaysInOrder == Spec => []EventsInOrder
  <1>1. Inv /\ InOrder => EventsInOrder
    <2> SUFFICES ASSUME Inv, InOrder, NEW m \in Machines,
                        NEW i \in DOMAIN got[m], NEW j \in DOMAIN got[m], i < j
                 PROVE  got[m][i] < got[m][j]
      BY DEF EventsInOrder
    <2>1. DOMAIN got[m] = 1..Len(got[m])
      BY LenProperties DEF Inv, TypeOK
    <2> QED BY <2>1 DEF InOrder, Chain, Sorted
  <1> QED BY InitInv, StepInv, InOrderInit, InOrderStep, <1>1, PTL DEF Spec

(* Order is kept with every type, those of dead sockets included.          *)
THEOREM OrderAlwaysSurvives == Spec => []OrderSurvives
  <1>1. TypeOK /\ EventsInOrder => OrderSurvives
    BY DEF OrderSurvives
  <1> QED BY <1>1, TypeCorrect, AlwaysInOrder, PTL
-----------------------------------------------------------------------------
(* HomeCatchesUp.  While a machine is settled nothing is being pushed, so  *)
(* its connection holds no other home than the gateway's: the Ready it was *)
(* or will be greeted with was built from it.                              *)

Tells(q, h) == \A i \in 1..Len(q) : /\ q[i].kind # "home"
                                    /\ q[i].kind = "ready" => q[i].home = h

HomeKept == \A m \in Machines :
    /\ at[m] = NoConn => ~greeted[m]
    /\ settled[m] =>
         /\ casting = {} /\ at[m] # NoConn
         /\ task[at[m]] = "greeting" => draft[at[m]] = home
         /\ Tells(out[at[m]], home)
         /\ greeted[m] => mhome[m] = home

LEMMA TellsEmpty == \A h : Tells(<<>>, h)
  BY EmptySeq DEF Tells

LEMMA TellsAppend ==
  ASSUME NEW q \in Seq(Frames), NEW h, NEW f \in Frames, Tells(q, h),
         f.kind # "home", f.kind = "ready" => f.home = h
  PROVE  Tells(Append(q, f), h)
  <1>1. /\ Len(q) \in Nat /\ Len(Append(q, f)) = Len(q) + 1
        /\ \A i \in 1..Len(q) : Append(q, f)[i] = q[i]
        /\ Append(q, f)[Len(q) + 1] = f
    OBVIOUS
  <1> QED BY <1>1 DEF Tells

LEMMA TellsTail ==
  ASSUME NEW q \in Seq(Frames), NEW h, q # <<>>, Tells(q, h)
  PROVE  /\ Tells(Tail(q), h) /\ Head(q).kind # "home"
         /\ Head(q).kind = "ready" => Head(q).home = h
  <1>1. /\ Len(q) \in Nat \ {0} /\ Len(Tail(q)) = Len(q) - 1 /\ Head(q) = q[1]
        /\ \A i \in 1..Len(Tail(q)) : Tail(q)[i] = q[i + 1]
    BY HeadTailProperties, EmptySeq
  <1> QED BY <1>1 DEF Tells

LEMMA HomeInit == Init => HomeKept
  BY DEF Init, HomeKept

\* Steps that move no home: connections open no further than they were or with the
\* home there is, and channels get no frame about it
LEMMA HomeQuiet ==
  ASSUME Inv, HomeKept, UNCHANGED <<home, casting, mhome>>,
         \A m \in Machines : /\ settled'[m] => settled[m] /\ at'[m] = at[m]
                             /\ greeted'[m] => greeted[m] /\ at'[m] = at[m],
         \A c \in Conns : /\ task'[c] = "greeting" => \/ task[c] = "greeting" /\ draft'[c] = draft[c]
                                                      \/ draft'[c] = home
                          /\ \/ out'[c] = out[c] \/ out'[c] = <<>>
                             \/ \E f \in Frames : f.kind \notin {"ready", "home"} /\ out'[c] = Append(out[c], f)
  PROVE  HomeKept'
  <1>1. ASSUME NEW m \in Machines, settled'[m]
        PROVE  /\ task'[at[m]] = "greeting" => draft'[at[m]] = home
               /\ Tells(out'[at[m]], home)
    <2>1. settled[m] /\ at[m] \in Conns /\ out[at[m]] \in Seq(Frames) /\ Tells(out[at[m]], home)
      BY <1>1 DEF HomeKept, Inv, TypeOK
    <2>2. task'[at[m]] = "greeting" => draft'[at[m]] = home
      BY <2>1 DEF HomeKept
    <2>3. ASSUME NEW f \in Frames, f.kind \notin {"ready", "home"}, out'[at[m]] = Append(out[at[m]], f)
          PROVE  Tells(out'[at[m]], home)
      BY <2>1, <2>3, TellsAppend
    <2> QED BY <2>1, <2>2, <2>3, TellsEmpty
  <1>2. ASSUME NEW m \in Machines
        PROVE  /\ at'[m] = NoConn => ~greeted'[m]
               /\ settled'[m] => /\ casting' = {} /\ at'[m] # NoConn /\ at'[m] = at[m]
                                 /\ greeted'[m] => mhome'[m] = home'
    BY DEF HomeKept
  <1> QED BY <1>1, <1>2 DEF HomeKept

LEMMA HomeDial ==
  ASSUME Inv, HomeKept, NEW m \in Machines, NEW c \in Conns, Dial(m, c)
  PROVE  HomeKept'
  <1>1. out[c] = <<>> /\ \A n \in Machines : at[n] # c
    BY DEF Dial, Free, GatewayEnd, MachineEnd, Inv, TypeOK
  <1>2. /\ at' = [at EXCEPT ![m] = c] /\ task' = [task EXCEPT ![c] = "accepted"]
        /\ settled' = [settled EXCEPT ![m] = (casting = {})] /\ at[m] = NoConn
        /\ UNCHANGED <<out, home, casting, draft, greeted, mhome>>
    BY DEF Dial
  <1>3. ~greeted[m] /\ c # NoConn
    BY <1>2 DEF HomeKept
  <1>4. /\ at'[m] = c /\ task'[c] = "accepted" /\ (settled'[m] => casting = {})
        /\ \A n \in Machines : n # m => at'[n] = at[n] /\ settled'[n] = settled[n]
        /\ \A k \in Conns : k # c => task'[k] = task[k]
    BY <1>2 DEF Inv, TypeOK
  <1>5. ASSUME NEW n \in Machines
        PROVE  /\ at'[n] = NoConn => ~greeted[n]
               /\ settled'[n] =>
                    /\ casting = {} /\ at'[n] # NoConn
                    /\ task'[at'[n]] = "greeting" => draft[at'[n]] = home
                    /\ Tells(out[at'[n]], home)
                    /\ greeted[n] => mhome[n] = home
    <2>1. CASE n = m
      BY <1>1, <1>3, <1>4, <2>1, TellsEmpty
    <2>2. CASE n # m
      <3>1. at'[n] = at[n] /\ settled'[n] = settled[n] /\ at[n] # c /\ at[n] \in Conns \cup {NoConn}
        BY <1>1, <1>4, <2>2 DEF Inv, TypeOK
      <3> QED BY <1>4, <3>1 DEF HomeKept
    <2> QED BY <2>1, <2>2
  <1> QED BY <1>2, <1>5 DEF HomeKept

LEMMA HomeGreet ==
  ASSUME Inv, HomeKept, NEW c \in Conns, Greet(c)
  PROVE  HomeKept'
  <1>1. /\ task[c] = "greeting" /\ task' = [task EXCEPT ![c] = "serving"]
        /\ out' = [out EXCEPT ![c] = Append(@, Ready(draft[c]))]
        /\ draft' = [draft EXCEPT ![c] = 0]
        /\ UNCHANGED <<home, casting, at, greeted, mhome, settled>>
    BY DEF Greet, Step, machineVars
  <1>2. ASSUME NEW m \in Machines, settled[m]
        PROVE  /\ task'[at[m]] = "greeting" => draft'[at[m]] = home
               /\ Tells(out'[at[m]], home)
    <2>1. at[m] \in Conns /\ out[at[m]] \in Seq(Frames) /\ Tells(out[at[m]], home)
      BY <1>2 DEF HomeKept, Inv, TypeOK
    <2>2. CASE at[m] = c
      <3>1. draft[c] = home /\ Ready(home) \in Frames /\ Ready(home).kind = "ready" /\ Ready(home).home = home
        BY <1>1, <1>2, <2>2, FrameFacts DEF HomeKept, Inv, TypeOK, Ready
      <3>2. out'[c] = Append(out[c], Ready(home)) /\ task'[c] = "serving"
        BY <1>1, <3>1 DEF Inv, TypeOK
      <3>3. Tells(Append(out[c], Ready(home)), home)
        BY <2>1, <2>2, <3>1, TellsAppend
      <3> QED BY <2>2, <3>2, <3>3
    <2>3. CASE at[m] # c
      BY <1>1, <1>2, <2>1, <2>3 DEF HomeKept, Inv, TypeOK
    <2> QED BY <2>2, <2>3
  <1> QED BY <1>1, <1>2 DEF HomeKept

LEMMA HomePump ==
  ASSUME Inv, InOrder, HomeKept, NEW c \in Conns, Pump(c)
  PROVE  HomeKept'
  <1>1. /\ out[c] \in Seq(Frames) /\ out[c] # <<>> /\ out' = [out EXCEPT ![c] = Tail(@)]
        /\ UNCHANGED <<home, casting, draft, at, settled>>
        /\ task' = task \/ task' = [task EXCEPT ![c] = "closing"]
    BY DEF Pump, Inv, TypeOK
  <1>2. ASSUME NEW m \in Machines, at[m] # c
        PROVE  greeted'[m] = greeted[m] /\ mhome'[m] = mhome[m]
    <2>1. CASE Heard(c) /\ MachineEnd(c)
      <3>1. PICK n \in Machines : at[n] = c
        BY <2>1 DEF MachineEnd
      <3>2. who[c] = n
        BY <3>1 DEF InOrder
      <3>3. Take(n, Head(out[c])) /\ m # n
        BY <1>2, <2>1, <3>1, <3>2 DEF Pump
      <3> QED BY <3>3 DEF Take, Inv, TypeOK
    <2>2. CASE ~(Heard(c) /\ MachineEnd(c))
      BY <2>2 DEF Pump
    <2> QED BY <2>1, <2>2
  <1>3. ASSUME NEW m \in Machines, at[m] = c, settled[m]
        PROVE  /\ Tells(out'[c], home) /\ (task'[c] = "greeting" => draft[c] = home)
               /\ greeted'[m] => mhome'[m] = home
    <2>1. /\ Tells(out[c], home) /\ (task[c] = "greeting" => draft[c] = home)
          /\ greeted[m] => mhome[m] = home
      BY <1>3 DEF HomeKept
    <2>2. /\ Tells(Tail(out[c]), home) /\ Head(out[c]).kind # "home"
          /\ Head(out[c]).kind = "ready" => Head(out[c]).home = home
      BY <1>1, <2>1, TellsTail
    <2>3. out'[c] = Tail(out[c]) /\ (task'[c] = task[c] \/ task'[c] = "closing")
      BY <1>1 DEF Inv, TypeOK
    <2>4. greeted'[m] => mhome'[m] = home
      <3>1. CASE Heard(c) /\ MachineEnd(c)
        <4>1. Take(m, Head(out[c]))
          BY <1>3, <3>1 DEF Pump, InOrder
        <4> QED BY <2>1, <2>2, <4>1 DEF Take, Inv, TypeOK
      <3>2. CASE ~(Heard(c) /\ MachineEnd(c))
        BY <2>1, <3>2 DEF Pump
      <3> QED BY <3>1, <3>2
    <2> QED BY <2>1, <2>2, <2>3, <2>4
  <1>4. ASSUME NEW m \in Machines
        PROVE  /\ at[m] = NoConn => ~greeted'[m]
               /\ settled[m] =>
                    /\ casting = {} /\ at[m] # NoConn
                    /\ task'[at[m]] = "greeting" => draft[at[m]] = home
                    /\ Tells(out'[at[m]], home)
                    /\ greeted'[m] => mhome'[m] = home
    <2>1. CASE at[m] = c
      BY <1>3, <2>1 DEF HomeKept
    <2>2. CASE at[m] # c
      <3>1. settled[m] => /\ at[m] \in Conns /\ out'[at[m]] = out[at[m]]
                          /\ task'[at[m]] = task[at[m]]
        BY <1>1, <2>2 DEF HomeKept, Inv, TypeOK
      <3> QED BY <1>2, <2>2, <3>1 DEF HomeKept
    <2> QED BY <2>1, <2>2
  <1> QED BY <1>1, <1>4 DEF HomeKept

LEMMA HomeStep == Inv /\ InOrder /\ HomeKept /\ [Next]_vars => HomeKept'
  <1> SUFFICES ASSUME Inv, InOrder, HomeKept, [Next]_vars PROVE HomeKept'
    OBVIOUS
  <1>1. ASSUME NEW c \in Conns, \/ Register(c) \/ OnConnect(c) \/ ReadHome(c)
                                \/ SeeClose(c) \/ Idle(c) \/ OnDisconnect(c) \/ Cut(c)
        PROVE  HomeKept'
    <2>1. UNCHANGED <<home, casting, mhome, settled, at, greeted, out>>
      BY <1>1 DEF Register, OnConnect, ReadHome, SeeClose, Idle, OnDisconnect, Cut, machineVars, gwVars
    <2>2. ASSUME NEW k \in Conns, task'[k] = "greeting"
          PROVE  (task[k] = "greeting" /\ draft'[k] = draft[k]) \/ draft'[k] = home
      BY <1>1, <2>2 DEF Register, OnConnect, ReadHome, SeeClose, Idle, OnDisconnect, Cut,
                        machineVars, gwVars, Step, Inv, TypeOK
    <2> QED BY <2>1, <2>2, HomeQuiet
  <1>2. ASSUME NEW c \in Conns, Unregister(c) PROVE HomeKept'
    <2>1. /\ UNCHANGED <<home, casting, mhome, settled, at, greeted, draft>>
          /\ out' = [out EXCEPT ![c] = <<>>]
      BY <1>2 DEF Unregister, machineVars
    <2>2. \A k \in Conns : /\ out'[k] = out[k] \/ out'[k] = <<>>
                           /\ task'[k] = "greeting" => task[k] = "greeting"
      BY <1>2, <2>1 DEF Unregister, Step, Inv, TypeOK
    <2> QED BY <2>1, <2>2, HomeQuiet
  <1>3. ASSUME NEW m \in Machines,
               \/ MachineSeesClose(m) \/ MachineIdle(m) \/ Refused(m) \/ Fix(m) \/ Exit(m)
               \/ TellLost(m)
        PROVE  HomeKept'
    <2>1. UNCHANGED <<home, casting, mhome, out, task, draft>>
      BY <1>3 DEF MachineSeesClose, MachineIdle, Refused, Fix, Exit, TellLost, gwVars, machineVars
    <2>2. \A n \in Machines : /\ settled'[n] => settled[n] /\ at'[n] = at[n]
                              /\ greeted'[n] => greeted[n] /\ at'[n] = at[n]
      BY <1>3, SMTT(20) DEF MachineSeesClose, MachineIdle, Refused, Fix, Exit, TellLost, Drop, gwVars,
                  machineVars, Inv, TypeOK
    <2> QED BY <2>1, <2>2, HomeQuiet
  <1>4. ASSUME NEW m \in Machines, NEW f \in Frames, f.kind \notin {"ready", "home"},
               CanSend(m), Push(m, f), UNCHANGED <<home, casting, task, draft, machineVars, settled>>
        PROVE  HomeKept'
    <2>1. TypeOK
      BY DEF Inv
    <2>2. \A k \in Conns : out'[k] = out[k] \/ out'[k] = Append(out[k], f)
      <3>1. \A k \in Conns : out'[k] = IF k = book[m] THEN Append(out[k], f) ELSE out[k]
        BY <1>4, <2>1, PushType, ZenonT(30)
      <3> QED BY <3>1
    <2> QED BY <1>4, <2>2, HomeQuiet DEF machineVars
  <1>5. ASSUME NEW m \in Machines, Click(m) PROVE HomeKept'
    <2>1. Action \in Frames /\ Action.kind = "action"
      BY FrameFacts DEF Action
    <2> QED BY <1>4, <1>5, <2>1 DEF Click
  <1>6. ASSUME NEW m \in Machines, Forward(m) PROVE HomeKept'
    <2>1. sent + 1 \in 1..MaxNews
      BY <1>6 DEF Forward, Inv, TypeOK
    <2>2. Event(sent + 1) \in Frames /\ Event(sent + 1).kind = "event"
      BY <2>1, FrameFacts DEF Event
    <2> QED BY <1>4, <1>6, <2>2 DEF Forward
  <1>7. ASSUME NEW h \in casting, Broadcast(h) PROVE HomeKept'
    <2>1. \A m \in Machines : ~settled[m]
      BY DEF HomeKept
    <2>2. UNCHANGED <<settled, at, greeted>>
      BY <1>7 DEF Broadcast, machineVars
    <2> QED BY <2>1, <2>2 DEF HomeKept
  <1>8. CASE SetHome
    <2>1. UNCHANGED <<at, greeted>> /\ \A m \in Machines : ~settled'[m]
      BY <1>8 DEF SetHome, machineVars
    <2> QED BY <2>1 DEF HomeKept
  <1>9. CASE UNCHANGED vars
    BY <1>9, HomeQuiet DEF vars
  <1> QED BY <1>1, <1>2, <1>3, <1>5, <1>6, <1>7, <1>8, <1>9, HomeDial, HomeGreet, HomePump
          DEF Next, Attach, Serve, Detach, MachineLoop

(* A machine linked after the last set-home has the notice channel right   *)
(* from the Ready it is greeted with (`set_home`, `on_socket`).            *)
THEOREM HomeAlwaysCatchesUp == Spec => []HomeCatchesUp
  <1>1. HomeKept => HomeCatchesUp
    BY DEF HomeKept, HomeCatchesUp
  <1> QED BY InitInv, StepInv, InOrderInit, InOrderStep, HomeInit, HomeStep, <1>1, PTL DEF Spec

-----------------------------------------------------------------------------
(* Moves: the shape of what there is, and what holds in every state.         *)

\* A frame and an entry of threads.json
Framed == [what : {"event"}, mention : BOOLEAN] \cup [what : {"left"}, to : Machine]
         \cup [what : {"chunk"}, to : Machine, sid : Sid, seq : Nat, data : 1 .. Slices, last : BOOLEAN]
Entry == [bridge : Machine \cup {None}, agent : Sid \cup {"none", "no row"}]
Transcripts == [Machine -> [Sid -> Seq(1 .. Slices)]]

MoveTyped ==
    /\ chan \in Machine /\ route \in Machine \cup {None} /\ notes \in Seq(Machine) /\ asks \subseteq Machine
    /\ connected \subseteq Machine /\ down \in [Machine -> Seq(Framed)] /\ up \in [Machine -> Seq(Framed)]
    /\ row \in [Machine -> Entry] /\ live \in [Machine -> SUBSET Sid]
    /\ file \in Transcripts /\ partial \in Transcripts
    /\ counts \in [posts : 0 .. MaxPosts, moves : 0 .. MaxMoves, faults : 0 .. MaxFaults] /\ slips \subseteq Slip

In(m) == ToSet(down[m])
Out(m) == ToSet(up[m])

\* No machine is told to let go to itself, and slices are where they are sent
Aimed ==
    \A m \in Machine :
        /\ \A f \in In(m) : (f.what = "left" => f.to # m) /\ (f.what = "chunk" => f.to = m)
        /\ \A f \in Out(m) : f.what = "chunk" /\ f.to # m

\* The slices of the first conversation are of one sending: from one machine,
\* to one machine, the last one last
Slice(f) == f.what = "chunk" /\ f.sid = First
InTurn(q) == \A i, j \in 1 .. Len(q) : i < j /\ Slice(q[i]) /\ Slice(q[j]) => ~q[i].last
OneSending ==
    /\ \A m \in Machine : InTurn(down[m]) /\ InTurn(up[m])
    /\ \A m, k \in Machine : \A f \in In(m), g \in Out(k) : Slice(f) /\ Slice(g) => f.to = g.to /\ ~f.last
    /\ \A m, k \in Machine : \A f \in Out(m), g \in Out(k) : Slice(f) /\ Slice(g) => m = k /\ f.to = g.to
    /\ \A m, k \in Machine : \A f \in In(m), g \in In(k) : Slice(f) /\ Slice(g) => m = k

\* Who has the conversation has it alone, and it was written to a file once
HeldAlone ==
    /\ \A m, k \in Machine : row[m].agent = First /\ row[k].agent = First => m = k
    /\ \A m, k \in Machine : \A f \in FramesOf(k) : row[m].agent = First => ~Slice(f)
    /\ (\E m \in Machine : row[m].agent = First \/ \E f \in FramesOf(m) : Slice(f))
          => \E k \in Machine : file[k][First] # <<>>

Custodial == MoveTyped /\ Aimed /\ OneSending /\ HeldAlone

\* While every move was told, and one was through before the next, all that is
\* under way goes to the thread's machine, and its name is on file or noted
ToldAll == slips \cap {"overlap", "left", "forgotten"} = {}
Noted == IF notes = <<>> THEN row[Gateway].bridge = route ELSE notes[Len(notes)] = route
OnRoute == \A m \in Machine : \A f \in FramesOf(m) : f.what \in {"left", "chunk"} => f.to = route
Routed == ToldAll => Noted /\ OnRoute

\* While no event crossed a move as well, agents run where the thread is, or
\* where it is to be let go, and nowhere while its slices travel
Quiet == slips \cap {"crossed", "overlap", "left", "forgotten"} = {}
NotYet == route = None => \A m \in Machine : row[m] = NoRow /\ live[m] = {}
ByRow == \A m \in Machine : live[m] \subseteq {row[m].agent}
EventsAim == \A m \in Machine : \A f \in In(m) : f.what = "event" => m = Destination /\ (f.mention => route = m)
EventsAlone == \A m, k \in Machine : \A f \in In(m), g \in FramesOf(k) : f.what = "event" => g.what = "event"
AgentGone ==
    /\ \A m, k \in Machine : \A f \in FramesOf(m) : f.what = "chunk" => live[k] = {}
    /\ \A m, k \in Machine : \A f \in In(m) : f.what = "left" /\ k # m => live[k] = {}
AtHome == \/ \E m \in Machine : \E f \in In(m) : f.what = "left"
          \/ \A k \in Machine : live[k] # {} => k = route
Alone == Quiet => NotYet /\ ByRow /\ EventsAim /\ EventsAlone /\ AgentGone /\ AtHome

MoveInv == Custodial /\ Routed /\ Alone

\* Frames, and what they are told apart by
LEMMA FrameKinds ==
  ASSUME NEW f \in Framed
  PROVE  /\ f.what \in {"event", "left", "chunk"}
         /\ f.what = "event" => f.mention \in BOOLEAN
         /\ f.what \in {"left", "chunk"} => f.to \in Machine
         /\ f.what = "chunk" => f.sid \in Sid /\ f.seq \in Nat /\ f.data \in 1 .. Slices /\ f.last \in BOOLEAN
  BY DEF Framed

LEMMA Apart ==
  /\ None \notin Machine /\ Gateway \in Machine /\ First \in Sid /\ First \notin Machine /\ Machine \subseteq Sid
  /\ "none" \notin Sid /\ "no row" \notin Sid /\ NoRow.agent = "no row" /\ NoRow.bridge = None
  BY MoveGatewayAssumption, MoveNamesAssumption DEF First, Sid, NoRow

\* The least of a set of numbers is one of them
LEMMA LeastIs ==
  ASSUME NEW I, I \subseteq Nat, I # {}
  PROVE  Min(I) \in I /\ \A y \in I : Min(I) <= y
  <1>1. PICK x \in I : \A y \in I : ~(<<y, x>> \in OpToRel(<, Nat))
    BY NatLessThanWellFounded, WFMin
  <1>2. \A y \in I : x <= y
    <2>1. TAKE y \in I
    <2>2. ~(y < x)
      BY <1>1 DEF OpToRel
    <2> QED BY <2>2
  <1>3. \E z \in I : \A y \in I : z <= y
    BY <1>1, <1>2
  <1> QED BY <1>3 DEF Min

\* The first frame of a kind is there, and none of the kind is before it
LEMMA FirstIs ==
  ASSUME MoveTyped, NEW m \in Machine, NEW what \in {"event", "left", "chunk"}
  PROVE  /\ FirstOf(m, what) # 0 =>
              /\ FirstOf(m, what) \in 1 .. Len(down[m]) /\ down[m][FirstOf(m, what)].what = what
              /\ down[m][FirstOf(m, what)] \in In(m) /\ down[m][FirstOf(m, what)] \in Framed
              /\ \A j \in 1 .. Len(down[m]) : down[m][j].what = what => FirstOf(m, what) <= j
         /\ FirstOf(m, what) = 0 => \A f \in In(m) : f.what # what
  <1> DEFINE I == {i \in 1 .. Len(down[m]) : down[m][i].what = what}
  <1>1. FirstOf(m, what) = IF I # {} THEN Min(I) ELSE 0
    BY DEF FirstOf, SelectInSeq
  <1>2. down[m] \in Seq(Framed) /\ Len(down[m]) \in Nat /\ DOMAIN down[m] = 1 .. Len(down[m])
    BY DEF MoveTyped
  <1>3. I # {} => Min(I) \in I /\ \A y \in I : Min(I) <= y
    <2>1. I \subseteq Nat
      BY <1>2
    <2> HIDE DEF I
    <2> QED BY <2>1, LeastIs
  <1>4. CASE I # {}
    <2>1. FirstOf(m, what) \in I /\ \A y \in I : FirstOf(m, what) <= y
      BY <1>1, <1>3, <1>4
    <2>2. FirstOf(m, what) \in 1 .. Len(down[m]) /\ down[m][FirstOf(m, what)].what = what /\ FirstOf(m, what) # 0
      BY <2>1, <1>2
    <2>3. down[m][FirstOf(m, what)] \in In(m) /\ down[m][FirstOf(m, what)] \in Framed
      BY <2>2, <1>2, ElementOfSeq DEF In, ToSet
    <2> QED BY <2>1, <2>2, <2>3
  <1>5. CASE I = {}
    BY <1>1, <1>2, <1>5 DEF In, ToSet
  <1> QED BY <1>4, <1>5

\* What is in a sequence that grew, or lost something
LEMMA Grown ==
  ASSUME NEW S, NEW s \in Seq(S), NEW f \in S
  PROVE  Append(s, f) \in Seq(S) /\ ToSet(Append(s, f)) = ToSet(s) \cup {f}
  <1>1. Append(s, f) \in Seq(S) /\ Len(Append(s, f)) = Len(s) + 1 /\ Len(s) \in Nat
    BY AppendProperties
  <1>2. (\A i \in 1 .. Len(s) : Append(s, f)[i] = s[i]) /\ Append(s, f)[Len(s) + 1] = f
    BY AppendProperties
  <1>3. DOMAIN s = 1 .. Len(s) /\ DOMAIN Append(s, f) = 1 .. Len(s) + 1
    BY <1>1, LenProperties
  <1>4. \A i \in 1 .. Len(s) + 1 : i \in 1 .. Len(s) \/ i = Len(s) + 1
    BY <1>1
  <1>5. 1 .. Len(s) \subseteq 1 .. Len(s) + 1 /\ Len(s) + 1 \in 1 .. Len(s) + 1
    BY <1>1
  <1>6. ToSet(Append(s, f)) \subseteq ToSet(s) \cup {f}
    BY <1>2, <1>3, <1>4 DEF ToSet
  <1>7. ToSet(s) \cup {f} \subseteq ToSet(Append(s, f))
    BY <1>2, <1>3, <1>5 DEF ToSet
  <1> QED BY <1>1, <1>6, <1>7

LEMMA Joined ==
  ASSUME NEW S, NEW s \in Seq(S), NEW t \in Seq(S)
  PROVE  s \o t \in Seq(S) /\ ToSet(s \o t) = ToSet(s) \cup ToSet(t)
  <1>1. s \o t \in Seq(S) /\ Len(s \o t) = Len(s) + Len(t) /\ Len(s) \in Nat /\ Len(t) \in Nat
    BY ConcatProperties
  <1>2. \A i \in 1 .. Len(s) + Len(t) : (s \o t)[i] = IF i <= Len(s) THEN s[i] ELSE t[i - Len(s)]
    BY ConcatProperties
  <1>3. \A i \in 1 .. Len(t) : (s \o t)[i + Len(s)] = t[i]
    BY <1>1, <1>2
  <1>4. \A i \in 1 .. Len(s) : (s \o t)[i] = s[i]
    BY <1>1, <1>2
  <1>5. ToSet(s) \cup ToSet(t) \subseteq ToSet(s \o t)
    <2>1. ASSUME NEW i \in 1 .. Len(t)
          PROVE  t[i] \in ToSet(s \o t)
      BY <1>1, <1>3, i + Len(s) \in DOMAIN (s \o t) DEF ToSet
    <2>2. ASSUME NEW i \in 1 .. Len(s)
          PROVE  s[i] \in ToSet(s \o t)
      BY <1>1, <1>4, i \in DOMAIN (s \o t) DEF ToSet
    <2>3. DOMAIN s = 1 .. Len(s) /\ DOMAIN t = 1 .. Len(t)
      BY LenProperties
    <2>4. ToSet(s) \subseteq ToSet(s \o t)
      BY ONLY <2>2, <2>3 DEF ToSet
    <2>5. ToSet(t) \subseteq ToSet(s \o t)
      BY ONLY <2>1, <2>3 DEF ToSet
    <2> QED BY <2>4, <2>5
  <1>6. ToSet(s \o t) \subseteq ToSet(s) \cup ToSet(t)
    <2>1. ASSUME NEW i \in 1 .. Len(s) + Len(t)
          PROVE  (s \o t)[i] \in ToSet(s) \cup ToSet(t)
      <3>1. CASE i <= Len(s)
        BY <1>1, <1>2, <3>1, i \in DOMAIN s DEF ToSet
      <3>2. CASE ~(i <= Len(s))
        BY <1>1, <1>2, <3>2, i - Len(s) \in DOMAIN t DEF ToSet
      <3> QED BY <3>1, <3>2
    <2> QED BY <1>1, <2>1 DEF ToSet
  <1> QED BY <1>1, <1>5, <1>6

\* A part of a sequence, in its order: what the links and the loop leave of theirs
PartOf(t, s) ==
    /\ ToSet(t) \subseteq ToSet(s)
    /\ InTurn(s) => InTurn(t)

LEMMA Removed ==
  ASSUME NEW S, NEW s \in Seq(S), NEW i \in 1 .. Len(s)
  PROVE  /\ RemoveAt(s, i) \in Seq(S) /\ PartOf(RemoveAt(s, i), s) /\ Len(RemoveAt(s, i)) = Len(s) - 1
         /\ \A j \in 1 .. Len(s) - 1 : RemoveAt(s, i)[j] = IF j < i THEN s[j] ELSE s[j + 1]
  <1> DEFINE a == SubSeq(s, 1, i - 1)
             b == SubSeq(s, i + 1, Len(s))
             t == RemoveAt(s, i)
  <1>1. /\ a \in Seq(S) /\ Len(a) = i - 1 /\ b \in Seq(S) /\ Len(b) = Len(s) - i /\ Len(s) \in Nat
        /\ \A j \in 1 .. i - 1 : a[j] = s[j]
        /\ \A j \in 1 .. Len(s) - i : b[j] = s[i + j]
    BY SubSeqProperties
  <1>2. t = a \o b
    BY DEF RemoveAt
  <1>3. t \in Seq(S) /\ Len(t) = Len(s) - 1
    <2>1. a \o b \in Seq(S) /\ Len(a \o b) = Len(a) + Len(b)
      BY <1>1, ConcatProperties
    <2>2. (i - 1) + (Len(s) - i) = Len(s) - 1
      BY <1>1
    <2> QED BY ONLY <1>1, <1>2, <2>1, <2>2
  <1>4. ASSUME NEW j \in 1 .. Len(s) - 1
        PROVE  t[j] = IF j < i THEN s[j] ELSE s[j + 1]
    <2>1. t[j] = IF j <= Len(a) THEN a[j] ELSE b[j - Len(a)]
      <3>1. \A k \in 1 .. Len(a) + Len(b) : (a \o b)[k] = IF k <= Len(a) THEN a[k] ELSE b[k - Len(a)]
        BY ONLY <1>1, ConcatProperties
      <3>2. Len(a) + Len(b) = Len(s) - 1
        <4> HIDE DEF a, b, t
        <4> QED BY <1>1
      <3>3. j \in 1 .. Len(a) + Len(b)
        BY <3>2
      <3> QED BY ONLY <1>2, <3>1, <3>3
    <2>2. CASE j < i
      BY <1>1, <2>1, <2>2
    <2>3. CASE ~(j < i)
      BY <1>1, <2>1, <2>3
    <2> QED BY <2>2, <2>3
  <1> HIDE DEF a, b, t
  <1>5. ToSet(t) \subseteq ToSet(s)
    <2>1. DOMAIN t = 1 .. Len(s) - 1 /\ DOMAIN s = 1 .. Len(s)
      BY <1>3, LenProperties
    <2>2. ASSUME NEW j \in 1 .. Len(s) - 1
          PROVE  t[j] \in ToSet(s)
      <3>1. j \in DOMAIN s /\ j + 1 \in DOMAIN s
        BY <1>1, <2>1
      <3> QED BY <1>4, <3>1 DEF ToSet
    <2> QED BY <2>1, <2>2 DEF ToSet
  <1>6. InTurn(s) => InTurn(t)
    BY <1>1, <1>3, <1>4, SMTT(20) DEF InTurn
  <1> QED BY <1>3, <1>4, <1>5, <1>6 DEF PartOf, t

LEMMA Kept ==
  ASSUME NEW S, NEW s \in Seq(S), NEW k \in 0 .. Len(s)
  PROVE  SubSeq(s, 1, k) \in Seq(S) /\ PartOf(SubSeq(s, 1, k), s)
         /\ \A f \in ToSet(s) : f \in ToSet(SubSeq(s, 1, k)) \/ f \in {s[i] : i \in k + 1 .. Len(s)}
  <1> DEFINE t == SubSeq(s, 1, k)
  <1>1. t \in Seq(S) /\ Len(t) = k /\ Len(s) \in Nat /\ \A j \in 1 .. k : t[j] = s[j]
    BY SubSeqProperties
  <1> HIDE DEF t
  <1>2. ToSet(t) \subseteq ToSet(s)
    BY <1>1 DEF ToSet
  <1>3. InTurn(s) => InTurn(t)
    BY <1>1 DEF InTurn
  <1>4. ASSUME NEW i \in 1 .. Len(s), i \notin k + 1 .. Len(s)
        PROVE  s[i] \in ToSet(t)
    BY <1>1, <1>4, i \in DOMAIN t DEF ToSet
  <1>5. \A f \in ToSet(s) : f \in ToSet(t) \/ f \in {s[i] : i \in k + 1 .. Len(s)}
    BY <1>1, <1>4 DEF ToSet
  <1> QED BY <1>1, <1>2, <1>3, <1>5 DEF PartOf, t

LEMMA Taken1 ==
  ASSUME NEW S, NEW s \in Seq(S), s # <<>>
  PROVE  /\ Tail(s) \in Seq(S) /\ PartOf(Tail(s), s) /\ Head(s) \in S /\ Head(s) \in ToSet(s)
         /\ InTurn(s) /\ Slice(Head(s)) /\ Head(s).last => \A g \in ToSet(Tail(s)) : ~Slice(g)
         /\ ToSet(s) \subseteq ToSet(Tail(s)) \cup {Head(s)}
  <1> DEFINE t == Tail(s)
             h == Head(s)
  <1>1. t \in Seq(S) /\ Len(t) = Len(s) - 1 /\ Len(s) \in Nat \ {0} /\ h = s[1] /\ h \in S
    BY HeadTailProperties, EmptySeq
  <1>2. \A j \in 1 .. Len(s) - 1 : t[j] = s[j + 1]
    BY HeadTailProperties, EmptySeq
  <1> HIDE DEF t, h
  <1>3. ToSet(t) \subseteq ToSet(s) /\ h \in ToSet(s)
    BY SMTT(20), <1>1, <1>2 DEF ToSet
  <1>4. InTurn(s) => InTurn(t)
    BY SMTT(20), <1>1, <1>2 DEF InTurn
  <1>5. InTurn(s) /\ Slice(h) /\ h.last => \A g \in ToSet(t) : ~Slice(g)
    BY <1>1, <1>2 DEF InTurn, ToSet
  <1>6. ASSUME NEW i \in 1 .. Len(s)
        PROVE  s[i] \in ToSet(t) \cup {h}
    <2>1. CASE i = 1
      BY <1>1, <2>1
    <2>2. CASE i # 1
      BY <1>1, <1>2, <2>2, i - 1 \in DOMAIN t DEF ToSet
    <2> QED BY <2>1, <2>2
  <1>7. ToSet(s) \subseteq ToSet(t) \cup {h}
    BY <1>6 DEF ToSet
  <1> QED BY <1>1, <1>3, <1>4, <1>5, <1>7 DEF PartOf, t, h

LEMMA Nothing ==
  ASSUME NEW S, NEW s
  PROVE  <<>> \in Seq(S) /\ PartOf(<<>>, s) /\ ToSet(<<>>) = {}
  BY DEF PartOf, ToSet, InTurn

\* The order of the slices outlasts what is put behind them
LEMMA InTurnBehind ==
  ASSUME NEW S, NEW s \in Seq(S), NEW f \in S, InTurn(s), ~Slice(f) \/ \A g \in ToSet(s) : Slice(g) => ~g.last
  PROVE  InTurn(Append(s, f))
  <1>1. Len(Append(s, f)) = Len(s) + 1 /\ Len(s) \in Nat /\ Append(s, f)[Len(s) + 1] = f
        /\ \A i \in 1 .. Len(s) : Append(s, f)[i] = s[i]
    BY AppendProperties
  <1>2. \A i \in 1 .. Len(s) : s[i] \in ToSet(s)
    BY LenProperties DEF ToSet
  <1> QED BY <1>1, <1>2 DEF InTurn

LEMMA InTurnJoined ==
  ASSUME NEW S, NEW s \in Seq(S), NEW t \in Seq(S), InTurn(s), InTurn(t),
         (\A g \in ToSet(s) : ~Slice(g)) \/ (\A g \in ToSet(t) : ~Slice(g))
  PROVE  InTurn(s \o t)
  <1>1. Len(s \o t) = Len(s) + Len(t) /\ Len(s) \in Nat /\ Len(t) \in Nat
    BY ConcatProperties, LenProperties
  <1>2. \A i \in 1 .. Len(s) + Len(t) : (s \o t)[i] = IF i <= Len(s) THEN s[i] ELSE t[i - Len(s)]
    BY ConcatProperties
  <1>3. (\A i \in 1 .. Len(s) : ~Slice(s[i])) \/ (\A i \in 1 .. Len(t) : ~Slice(t[i]))
    BY LenProperties DEF ToSet
  <1>4. SUFFICES ASSUME NEW i \in 1 .. Len(s) + Len(t), NEW j \in 1 .. Len(s) + Len(t), i < j,
                        Slice((s \o t)[i]), Slice((s \o t)[j])
                 PROVE  ~(s \o t)[i].last
    BY <1>1 DEF InTurn
  <1>5. CASE j <= Len(s)
    BY <1>1, <1>2, <1>4, <1>5 DEF InTurn
  <1>6. CASE ~(i <= Len(s))
    <2>1. i - Len(s) \in 1 .. Len(t) /\ j - Len(s) \in 1 .. Len(t) /\ i - Len(s) < j - Len(s)
      BY <1>1, <1>4, <1>6
    <2>2. (s \o t)[i] = t[i - Len(s)] /\ (s \o t)[j] = t[j - Len(s)]
      BY <1>1, <1>2, <1>4, <1>6
    <2> QED BY <1>4, <2>1, <2>2 DEF InTurn
  <1>7. CASE i <= Len(s) /\ ~(j <= Len(s))
    <2>1. i \in 1 .. Len(s) /\ j - Len(s) \in 1 .. Len(t)
      BY <1>1, <1>4, <1>7
    <2>2. (s \o t)[i] = s[i] /\ (s \o t)[j] = t[j - Len(s)]
      BY <1>1, <1>2, <1>4, <1>7
    <2> QED BY <1>3, <1>4, <2>1, <2>2
  <1> QED BY <1>1, <1>4, <1>5, <1>6, <1>7

\* A frame is sent
LEMMA SentIs ==
  ASSUME NEW q \in [Machine -> Seq(Framed)], NEW m \in Machine, NEW f \in Framed
  PROVE  /\ Sent(q, m, f) \in [Machine -> Seq(Framed)]
         /\ \A k \in Machine : ToSet(Sent(q, m, f)[k]) = IF k = m /\ Reaches(m) THEN ToSet(q[k]) \cup {f} ELSE ToSet(q[k])
         /\ (~Slice(f) \/ \A g \in ToSet(q[m]) : Slice(g) => ~g.last)
               => \A k \in Machine : InTurn(q[k]) => InTurn(Sent(q, m, f)[k])
  <1>1. Append(q[m], f) \in Seq(Framed) /\ ToSet(Append(q[m], f)) = ToSet(q[m]) \cup {f}
    BY Grown
  <1>2. Sent(q, m, f) \in [Machine -> Seq(Framed)]
    BY <1>1 DEF Sent
  <1>3. \A k \in Machine : Sent(q, m, f)[k] = IF k = m /\ Reaches(m) THEN Append(q[m], f) ELSE q[k]
    BY DEF Sent
  <1>4. (~Slice(f) \/ \A g \in ToSet(q[m]) : Slice(g) => ~g.last) /\ InTurn(q[m]) => InTurn(Append(q[m], f))
    BY InTurnBehind
  <1> QED BY <1>1, <1>2, <1>3, <1>4

\* The conversation cut into slices
LEMMA SlicesAre ==
  ASSUME MoveTyped, NEW m \in Machine, NEW b \in Machine
  PROVE  /\ Slicing(m, b) \in Seq(Framed) /\ InTurn(Slicing(m, b))
         /\ \A f \in ToSet(Slicing(m, b)) :
               /\ f.what = "chunk" /\ f.to = b /\ f.sid = row[m].agent /\ row[m].agent \in Sid
               /\ file[m][row[m].agent] # <<>>
  <1>1. CASE row[m].agent \notin Sid
    BY <1>1, Nothing, EmptySeq DEF Slicing, ToSet, InTurn
  <1>2. CASE row[m].agent \in Sid
    <2> DEFINE s == row[m].agent
               F == file[m][s]
               Q == [i \in 1 .. Len(F) |-> ThreadChunk(b, s, i, F[i], i = Len(F))]
    <2>1. F \in Seq(1 .. Slices) /\ Len(F) \in Nat /\ \A i \in 1 .. Len(F) : F[i] \in 1 .. Slices
      <3>1. F \in Seq(1 .. Slices)
        BY <1>2 DEF MoveTyped, Transcripts
      <3> HIDE DEF F
      <3> QED BY <3>1, LenProperties, ElementOfSeq
    <2>2. Slicing(m, b) = Q
      BY <1>2 DEF Slicing
    <2>3. \A i \in 1 .. Len(F) : Q[i] = ThreadChunk(b, s, i, F[i], i = Len(F))
      OBVIOUS
    <2>4. \A i \in 1 .. Len(F) : ThreadChunk(b, s, i, F[i], i = Len(F)) \in Framed
      BY <1>2, <2>1 DEF ThreadChunk, Framed
    <2>5. Q \in Seq(Framed) /\ Len(Q) = Len(F) /\ DOMAIN Q = 1 .. Len(F)
      BY <2>1, <2>4, IsASeq
    <2> HIDE DEF Q
    <2>6. InTurn(Q)
      <3>1. \A i \in 1 .. Len(F) : i # Len(F) => ~Q[i].last
        <4>1. TAKE i \in 1 .. Len(F)
        <4>2. Q[i] = ThreadChunk(b, s, i, F[i], i = Len(F))
          BY <2>3
        <4>3. Q[i].last = (i = Len(F))
          BY <4>2 DEF ThreadChunk
        <4> QED BY <4>3
      <3> HIDE DEF F
      <3>2. \A i, j \in 1 .. Len(F) : i < j => i # Len(F)
        BY <2>1
      <3> QED BY <2>5, <3>1, <3>2 DEF InTurn
    <2>7. ASSUME NEW f \in ToSet(Q)
          PROVE  f.what = "chunk" /\ f.to = b /\ f.sid = s /\ F # <<>>
      <3>1. PICK i \in 1 .. Len(F) : f = Q[i]
        BY <2>5 DEF ToSet
      <3>2. f = ThreadChunk(b, s, i, F[i], i = Len(F))
        BY <2>3, <3>1
      <3>3. F # <<>>
        BY <2>1, EmptySeq
      <3> QED BY <3>2, <3>3 DEF ThreadChunk
    <2> QED BY <1>2, <2>2, <2>5, <2>6, <2>7
  <1> QED BY <1>1, <1>2

LEMMA NextFrames ==
  /\ \A k : In(k)' = ToSet(down'[k]) /\ Out(k)' = ToSet(up'[k]) /\ FramesOf(k)' = In(k)' \cup Out(k)'
  /\ \A k : In(k) = ToSet(down[k]) /\ Out(k) = ToSet(up[k]) /\ FramesOf(k) = In(k) \cup Out(k)
  BY DEF In, Out, FramesOf, ToSet

\* The counts stay within their bounds
LEMMA CountsAre ==
  ASSUME MoveTyped, \/ counts.posts < MaxPosts /\ counts' = [counts EXCEPT !.posts = counts.posts + 1]
                    \/ counts.moves < MaxMoves /\ counts' = [counts EXCEPT !.moves = counts.moves + 1]
                    \/ counts.faults < MaxFaults /\ counts' = [counts EXCEPT !.faults = counts.faults + 1]
  PROVE  counts' \in [posts : 0 .. MaxPosts, moves : 0 .. MaxMoves, faults : 0 .. MaxFaults]
  <1>1. MaxPosts \in Nat /\ MaxMoves \in Nat /\ MaxFaults \in Nat
    BY MoveBoundAssumption
  <1>2. counts \in [posts : 0 .. MaxPosts, moves : 0 .. MaxMoves, faults : 0 .. MaxFaults]
    BY DEF MoveTyped
  <1>3. counts.posts \in 0 .. MaxPosts /\ counts.moves \in 0 .. MaxMoves /\ counts.faults \in 0 .. MaxFaults
    BY <1>2
  <1>4. /\ counts.posts < MaxPosts => counts.posts + 1 \in 0 .. MaxPosts
        /\ counts.moves < MaxMoves => counts.moves + 1 \in 0 .. MaxMoves
        /\ counts.faults < MaxFaults => counts.faults + 1 \in 0 .. MaxFaults
    BY <1>1, <1>3
  <1> QED BY <1>2, <1>4

\* The conversation stays with who has it: nothing of it is sent, and nobody new
\* is written down for it
LEMMA CustodyStays ==
  ASSUME Custodial, MoveTyped',
         \A k \in Machine : \A f \in In(k)' : f \in In(k) \/ (~Slice(f) /\ (f.what = "left" => f.to # k) /\ (f.what = "chunk" => f.to = k)),
         \A k \in Machine : \A f \in Out(k)' : f \in Out(k) \/ (~Slice(f) /\ f.what = "chunk" /\ f.to # k),
         \A k \in Machine : InTurn(down[k]) => InTurn(down'[k]),
         \A k \in Machine : InTurn(up[k]) => InTurn(up'[k]),
         \A k \in Machine : row'[k].agent = First => row[k].agent = First,
         \A k \in Machine : file[k][First] # <<>> => file'[k][First] # <<>>
  PROVE  Custodial'
  <1>1. Aimed'
    BY DEF Custodial, Aimed
  <1>2. \A k \in Machine : \A f \in In(k)' : Slice(f) => f \in In(k)
    OBVIOUS
  <1>3. \A k \in Machine : \A f \in Out(k)' : Slice(f) => f \in Out(k)
    OBVIOUS
  <1>4. OneSending'
    <2>1. \A m \in Machine : InTurn(down'[m]) /\ InTurn(up'[m])
      BY DEF Custodial, OneSending
    <2>2. \A m, k \in Machine : \A f \in In(m)', g \in Out(k)' : Slice(f) /\ Slice(g) => f.to = g.to /\ ~f.last
      BY <1>2, <1>3 DEF Custodial, OneSending
    <2>3. \A m, k \in Machine : \A f \in Out(m)', g \in Out(k)' : Slice(f) /\ Slice(g) => m = k /\ f.to = g.to
      BY <1>3 DEF Custodial, OneSending
    <2>4. \A m, k \in Machine : \A f \in In(m)', g \in In(k)' : Slice(f) /\ Slice(g) => m = k
      BY <1>2 DEF Custodial, OneSending
    <2>5. \A m \in Machine : InTurn(down[m])' /\ InTurn(up[m])'
      BY <2>1 DEF InTurn
    <2> QED BY ONLY <2>2, <2>3, <2>4, <2>5 DEF OneSending, Slice
  <1>5. HeldAlone'
    <2>1. \A k \in Machine : FramesOf(k)' = In(k)' \cup Out(k)' /\ FramesOf(k) = In(k) \cup Out(k)
      BY DEF FramesOf, In, Out
    <2>2. \A k \in Machine : \A f \in FramesOf(k)' : Slice(f) => f \in FramesOf(k)
      BY <1>2, <1>3, <2>1
    <2>3. \A m, k \in Machine : row'[m].agent = First /\ row'[k].agent = First => m = k
      BY DEF Custodial, HeldAlone
    <2>4. \A m, k \in Machine : \A f \in FramesOf(k)' : row'[m].agent = First => ~Slice(f)
      BY <2>2 DEF Custodial, HeldAlone
    <2>5. (\E m \in Machine : row'[m].agent = First \/ \E f \in FramesOf(m)' : Slice(f))
          => \E k \in Machine : file'[k][First] # <<>>
      BY <2>2 DEF Custodial, HeldAlone
    <2> QED BY ONLY <2>3, <2>4, <2>5 DEF HeldAlone, Slice, First
  <1> QED BY <1>1, <1>4, <1>5 DEF Custodial

-----------------------------------------------------------------------------
\* A step that leaves the frames and the machines alone keeps the custody
LEMMA CustodyAsItWas ==
  ASSUME Custodial, MoveTyped', UNCHANGED <<down, up, row, file>>
  PROVE  Custodial'
  <1>1. \A k \in Machine : In(k)' = In(k) /\ Out(k)' = Out(k) /\ down'[k] = down[k] /\ up'[k] = up[k] /\ row'[k] = row[k] /\ file'[k] = file[k]
    BY NextFrames
  <1> QED BY <1>1, CustodyStays

\* (OnEvent)
LEMMA EventCustody ==
  ASSUME Custodial, NEW mention \in BOOLEAN, OnEvent(mention)
  PROVE  Custodial'
  <1>1. MoveTyped
    BY DEF Custodial
  <1>2. Destination \in Machine /\ Posted(mention) \in Framed /\ ~Slice(Posted(mention)) /\ Posted(mention).what = "event"
    BY <1>1, Apart DEF Destination, Posted, Framed, MoveTyped, Slice
  <1>3. down' = Sent(down, Destination, Posted(mention)) /\ UNCHANGED <<chan, asks, connected, up, row, live, file, partial>>
    BY DEF OnEvent, machines
  <1>4. /\ down' \in [Machine -> Seq(Framed)]
        /\ \A k \in Machine : In(k)' = IF k = Destination /\ Reaches(k) THEN In(k) \cup {Posted(mention)} ELSE In(k)
        /\ \A k \in Machine : InTurn(down[k]) => InTurn(down'[k])
    <2>1. down \in [Machine -> Seq(Framed)]
      BY <1>1 DEF MoveTyped
    <2>2. /\ down' \in [Machine -> Seq(Framed)]
          /\ \A k \in Machine : ToSet(down'[k]) = IF k = Destination /\ Reaches(Destination) THEN ToSet(down[k]) \cup {Posted(mention)} ELSE ToSet(down[k])
          /\ \A k \in Machine : InTurn(down[k]) => InTurn(down'[k])
      BY ONLY <1>2, <1>3, <2>1, SentIs
    <2> QED BY <2>2, NextFrames
  <1>5. notes' \in Seq(Machine) /\ route' \in Machine \cup {None}
    <2>1. notes \in Seq(Machine) /\ route \in Machine \cup {None}
      BY <1>1 DEF MoveTyped
    <2>2. Append(notes, Destination) \in Seq(Machine)
      BY <1>2, <2>1, AppendProperties
    <2> QED BY <1>2, <2>1, <2>2 DEF OnEvent
  <1>6. counts' \in [posts : 0 .. MaxPosts, moves : 0 .. MaxMoves, faults : 0 .. MaxFaults]
    BY <1>1, CountsAre DEF OnEvent
  <1>7. slips' \subseteq Slip
    BY <1>1 DEF OnEvent, MoveTyped, Unless, Slip
  <1>8. MoveTyped'
    BY <1>1, <1>3, <1>4, <1>5, <1>6, <1>7 DEF MoveTyped
  <1>9. \A k \in Machine : Out(k)' = Out(k) /\ up'[k] = up[k] /\ row'[k] = row[k] /\ file'[k] = file[k]
    BY <1>3 DEF Out
  <1> QED BY <1>2, <1>4, <1>8, <1>9, CustodyStays

\* (RepointChannel, AssignProject)
LEMMA OwnerCustody ==
  ASSUME Custodial, NEW b \in Machine, RepointChannel(b) \/ AssignProject(b)
  PROVE  Custodial'
  <1>1. MoveTyped
    BY DEF Custodial
  <1>2. UNCHANGED <<route, notes, connected, down, up, row, live, file, partial>> /\ chan' \in Machine /\ asks' \subseteq Machine
    BY <1>1 DEF RepointChannel, AssignProject, MoveTyped, links, machines
  <1>3. counts' \in [posts : 0 .. MaxPosts, moves : 0 .. MaxMoves, faults : 0 .. MaxFaults]
    BY <1>1, CountsAre DEF RepointChannel, AssignProject
  <1>4. slips' \subseteq Slip
    BY <1>1 DEF RepointChannel, AssignProject, MoveTyped, Unless, Slip
  <1>5. MoveTyped'
    BY <1>1, <1>2, <1>3, <1>4 DEF MoveTyped
  <1> QED BY <1>2, <1>5, CustodyAsItWas

\* (MoveThread)
LEMMA MoveCustody ==
  ASSUME Custodial, NEW b \in Machine, MoveThread(b)
  PROVE  Custodial'
  <1>1. MoveTyped
    BY DEF Custodial
  <1>2. UNCHANGED <<chan, connected, up, row, live, file, partial, counts>> /\ asks' \subseteq Machine
    BY <1>1 DEF MoveThread, MoveTyped, machines
  <1>3. CASE UNCHANGED <<route, notes, down, slips>>
    <2>1. MoveTyped'
      BY <1>1, <1>2, <1>3 DEF MoveTyped
    <2> QED BY <1>2, <1>3, <2>1, CustodyAsItWas
  <1>4. CASE route \notin {b, None} /\ route' = b /\ notes' = Append(notes, b) /\ LetGo(route, b)
    <2>1. route \in Machine /\ ThreadLeft(b) \in Framed /\ ~Slice(ThreadLeft(b)) /\ ThreadLeft(b).what = "left"
          /\ ThreadLeft(b).to = b /\ b # route
      BY <1>1, <1>4 DEF ThreadLeft, Framed, MoveTyped, Slice
    <2>2. down' = Sent(down, route, ThreadLeft(b))
      BY <1>4 DEF LetGo
    <2>3. /\ down' \in [Machine -> Seq(Framed)]
          /\ \A k \in Machine : In(k)' = IF k = route /\ Reaches(k) THEN In(k) \cup {ThreadLeft(b)} ELSE In(k)
          /\ \A k \in Machine : InTurn(down[k]) => InTurn(down'[k])
      <3>1. down \in [Machine -> Seq(Framed)]
        BY <1>1 DEF MoveTyped
      <3>2. /\ down' \in [Machine -> Seq(Framed)]
            /\ \A k \in Machine : ToSet(down'[k]) = IF k = route /\ Reaches(route) THEN ToSet(down[k]) \cup {ThreadLeft(b)} ELSE ToSet(down[k])
            /\ \A k \in Machine : InTurn(down[k]) => InTurn(down'[k])
        BY ONLY <2>1, <2>2, <3>1, SentIs
      <3> QED BY <3>2, NextFrames
    <2>4. notes' \in Seq(Machine) /\ route' \in Machine
      BY <1>1, <1>4, AppendProperties DEF MoveTyped
    <2>5. slips' \subseteq Slip
      BY <1>1, <1>4 DEF LetGo, MoveTyped, Unless, Slip
    <2>6. MoveTyped'
      BY <1>1, <1>2, <2>3, <2>4, <2>5 DEF MoveTyped
    <2>7. \A k \in Machine : Out(k)' = Out(k) /\ up'[k] = up[k] /\ row'[k] = row[k] /\ file'[k] = file[k]
      BY <1>2 DEF Out
    <2> QED BY <2>1, <2>3, <2>6, <2>7, CustodyStays
  <1> QED BY <1>3, <1>4 DEF MoveThread

\* (NoteThreadRoutes)
LEMMA NoteCustody ==
  ASSUME Custodial, NoteThreadRoutes
  PROVE  Custodial'
  <1>1. MoveTyped
    BY DEF Custodial
  <1>2. UNCHANGED <<chan, route, asks, connected, down, up, live, file, partial, counts, slips>>
        /\ notes # <<>> /\ notes' = Tail(notes)
        /\ row' = [row EXCEPT ![Gateway] = [bridge |-> Head(notes), agent |-> IF row[Gateway] = NoRow THEN "none" ELSE row[Gateway].agent]]
    BY DEF NoteThreadRoutes, links
  <1>3. Head(notes) \in Machine /\ notes' \in Seq(Machine)
    BY <1>1, <1>2, HeadTailProperties DEF MoveTyped
  <1>4. row' \in [Machine -> Entry]
    BY <1>1, <1>2, <1>3 DEF MoveTyped, Entry
  <1>5. MoveTyped'
    BY <1>1, <1>2, <1>3, <1>4 DEF MoveTyped
  <1>6. \A k \in Machine : row'[k].agent = First => row[k].agent = First
    BY <1>1, <1>2, Apart DEF MoveTyped
  <1>7. \A k \in Machine : Out(k)' = Out(k) /\ In(k)' = In(k) /\ up'[k] = up[k] /\ down'[k] = down[k] /\ file'[k] = file[k]
    BY <1>2 DEF Out, In
  <1> QED BY <1>5, <1>6, <1>7, CustodyStays

\* (Relink, and no step)
LEMMA RelinkCustody ==
  ASSUME Custodial, (\E m \in Machine : Relink(m)) \/ UNCHANGED moveVars
  PROVE  Custodial'
  <1>1. MoveTyped
    BY DEF Custodial
  <1>2. UNCHANGED <<chan, route, notes, asks, down, up, row, live, file, partial, counts, slips>> /\ connected' \subseteq Machine
    BY <1>1 DEF Relink, gateway, links, machines, moveVars, MoveTyped
  <1>3. MoveTyped'
    BY <1>1, <1>2 DEF MoveTyped
  <1> QED BY <1>2, <1>3, CustodyAsItWas

\* (CutLink, RestartMachine, RestartGateway) What is lost is lost from the end, or all
LEMMA FaultsCustody ==
  ASSUME Custodial, Faults
  PROVE  Custodial'
  <1>1. MoveTyped
    BY DEF Custodial
  <1>2. UNCHANGED <<chan, row, live, file, partial>> /\ Fault
    BY DEF Faults, CutLink, RestartMachine, RestartGateway, machines
  <1>3. counts' \in [posts : 0 .. MaxPosts, moves : 0 .. MaxMoves, faults : 0 .. MaxFaults]
    BY <1>1, <1>2, CountsAre DEF Fault
  <1>4. \A k \in Machine : /\ down'[k] \in Seq(Framed) /\ PartOf(down'[k], down[k])
                           /\ up'[k] \in Seq(Framed) /\ PartOf(up'[k], up[k])
    <2>1. TAKE k \in Machine
    <2>2. down[k] \in Seq(Framed) /\ up[k] \in Seq(Framed) /\ PartOf(down[k], down[k]) /\ PartOf(up[k], up[k])
      BY <1>1 DEF MoveTyped, PartOf
    <2>3. ASSUME NEW m \in Machine, CutLink(m)
          PROVE  down'[k] \in Seq(Framed) /\ PartOf(down'[k], down[k]) /\ up'[k] = up[k]
      <3>1. PICK j \in 0 .. Len(down[m]) : down' = [down EXCEPT ![m] = SubSeq(down[m], 1, j)]
        BY <2>3 DEF CutLink
      <3>2. down'[k] = IF k = m THEN SubSeq(down[k], 1, j) ELSE down[k]
        BY <1>1, <3>1 DEF MoveTyped
      <3>3. k = m => SubSeq(down[k], 1, j) \in Seq(Framed) /\ PartOf(SubSeq(down[k], 1, j), down[k])
        BY <2>2, Kept
      <3> QED BY <2>2, <2>3, <3>2, <3>3 DEF CutLink
    <2>4. ASSUME NEW m \in Machine, RestartMachine(m)
          PROVE  down'[k] \in {<<>>, down[k]} /\ up'[k] \in {<<>>, up[k]}
      BY <1>1, <2>4 DEF RestartMachine, MoveTyped
    <2>5. ASSUME RestartGateway
          PROVE  down'[k] \in {<<>>, down[k]} /\ up'[k] \in {<<>>, up[k]}
      BY <1>1, <2>5 DEF RestartGateway, MoveTyped
    <2> QED BY <2>2, <2>3, <2>4, <2>5, Nothing DEF Faults
  <1>5. DOMAIN down' = Machine /\ DOMAIN up' = Machine /\ down' = [k \in Machine |-> down'[k]] /\ up' = [k \in Machine |-> up'[k]]
    BY <1>1 DEF Faults, CutLink, RestartMachine, RestartGateway, MoveTyped
  <1>6. down' \in [Machine -> Seq(Framed)] /\ up' \in [Machine -> Seq(Framed)]
    BY ONLY <1>4, <1>5
  <1>7. route' \in Machine \cup {None} /\ notes' \in Seq(Machine) /\ asks' \subseteq Machine /\ connected' \subseteq Machine
    <2>1. <<>> \in Seq(Machine) /\ row[Gateway].bridge \in Machine \cup {None}
      <3>1. row[Gateway] \in Entry
        BY <1>1, Apart DEF MoveTyped
      <3> QED BY <3>1, EmptySeq DEF Entry
    <2>2. route \in Machine \cup {None} /\ notes \in Seq(Machine) /\ asks \subseteq Machine /\ connected \subseteq Machine
      BY <1>1 DEF MoveTyped
    <2>3. ASSUME NEW m \in Machine, CutLink(m) \/ RestartMachine(m)
          PROVE  route' = route /\ notes' = notes /\ asks' \subseteq asks /\ connected' \subseteq connected
      BY <2>3 DEF CutLink, RestartMachine
    <2>4. ASSUME RestartGateway
          PROVE  route' = row[Gateway].bridge /\ notes' = <<>> /\ asks' = {} /\ connected' = {Gateway}
      BY <2>4 DEF RestartGateway
    <2> QED BY <2>1, <2>2, <2>3, <2>4, Apart DEF Faults
  <1>8. slips' \subseteq Slip
    BY <1>1 DEF Faults, CutLink, RestartMachine, RestartGateway, MoveTyped, Unless, Costs, Slip
  <1>9. MoveTyped'
    BY ONLY <1>1, <1>2, <1>3, <1>6, <1>7, <1>8 DEF MoveTyped, Entry, Transcripts, Framed, Sid, First, Slip
  <1>10. \A k \in Machine : In(k)' \subseteq In(k) /\ Out(k)' \subseteq Out(k)
    BY <1>4 DEF In, Out, PartOf
  <1>11. \A k \in Machine : (InTurn(down[k]) => InTurn(down'[k])) /\ (InTurn(up[k]) => InTurn(up'[k]))
    BY <1>4 DEF PartOf
  <1> QED BY <1>2, <1>9, <1>10, <1>11, CustodyStays

\* (PassChunk) The first slice waiting to leave a machine comes behind those that
\* left it before
LEMMA PassEffect ==
  ASSUME Custodial, NEW m \in Machine, PassChunk(m)
  PROVE  /\ MoveTyped' /\ UNCHANGED <<gateway, connected, machines, counts>>
         /\ Head(up[m]) \in Out(m) /\ Head(up[m]) \in Framed /\ Head(up[m]).what = "chunk" /\ Head(up[m]).to \in Machine
         /\ Head(up[m]).to # m
         /\ \A k \in Machine : Out(k)' \subseteq Out(k) /\ (InTurn(up[k]) => InTurn(up'[k]))
         /\ Slice(Head(up[m])) /\ Head(up[m]).last => \A g \in Out(m)' : ~Slice(g)
         /\ \A k \in Machine : In(k)' \subseteq In(k) \cup (IF k = Head(up[m]).to THEN {Head(up[m])} ELSE {})
         /\ \A k \in Machine : In(k) \subseteq In(k)'
         /\ \A k \in Machine : InTurn(down[k]) => InTurn(down'[k])
         /\ slips' = slips \/ slips' = slips \cup {"slice"}
  <1> DEFINE h == Head(up[m])
  <1>1. MoveTyped /\ Aimed /\ OneSending
    BY DEF Custodial
  <1>2. up[m] \in Seq(Framed) /\ up[m] # <<>> /\ up' = [up EXCEPT ![m] = Tail(up[m])] /\ up \in [Machine -> Seq(Framed)]
        /\ down \in [Machine -> Seq(Framed)]
    BY <1>1 DEF PassChunk, MoveTyped
  <1>3. /\ Tail(up[m]) \in Seq(Framed) /\ PartOf(Tail(up[m]), up[m]) /\ h \in Framed /\ h \in ToSet(up[m])
        /\ InTurn(up[m]) /\ Slice(h) /\ h.last => \A g \in ToSet(Tail(up[m])) : ~Slice(g)
    BY <1>2, Taken1
  <1>4. h \in Out(m) /\ h.what = "chunk" /\ h.to # m
    BY <1>1, <1>3 DEF Out, Aimed
  <1>5. h.to \in Machine
    BY <1>3, <1>4, FrameKinds
  <1>6. down' = Sent(down, h.to, h) /\ slips' = slips \cup Unless(Reaches(h.to), "slice")
        /\ UNCHANGED <<gateway, connected, machines, counts>>
    BY DEF PassChunk
  <1> HIDE DEF h
  <1>7. ~Slice(h) \/ \A g \in ToSet(down[h.to]) : Slice(g) => ~g.last
    BY <1>1, <1>4, <1>5 DEF OneSending, In
  <1>8. /\ down' \in [Machine -> Seq(Framed)]
        /\ \A k \in Machine : ToSet(down'[k]) = IF k = h.to /\ Reaches(h.to) THEN ToSet(down[k]) \cup {h} ELSE ToSet(down[k])
        /\ \A k \in Machine : InTurn(down[k]) => InTurn(down'[k])
    BY ONLY <1>2, <1>3, <1>5, <1>6, <1>7, SentIs
  <1>9. up' \in [Machine -> Seq(Framed)] /\ \A k \in Machine : up'[k] = IF k = m THEN Tail(up[m]) ELSE up[k]
    BY <1>2, <1>3
  <1>10. \A k \in Machine : ToSet(up'[k]) \subseteq ToSet(up[k]) /\ (InTurn(up[k]) => InTurn(up'[k]))
    BY <1>3, <1>9 DEF PartOf
  <1>11. Slice(h) /\ h.last => \A g \in ToSet(up'[m]) : ~Slice(g)
    BY <1>1, <1>3, <1>9 DEF OneSending
  <1>12. slips' \subseteq Slip /\ (slips' = slips \/ slips' = slips \cup {"slice"})
    BY <1>1, <1>6 DEF MoveTyped, Unless, Slip
  <1>13. MoveTyped'
    BY <1>1, <1>6, <1>8, <1>9, <1>12 DEF MoveTyped, gateway, machines
  <1>14. /\ \A k \in Machine : Out(k)' \subseteq Out(k) /\ In(k) \subseteq In(k)'
         /\ \A k \in Machine : In(k)' \subseteq In(k) \cup (IF k = h.to THEN {h} ELSE {})
         /\ Slice(h) /\ h.last => \A g \in Out(m)' : ~Slice(g)
    BY <1>8, <1>10, <1>11, NextFrames
  <1> QED BY <1>3, <1>4, <1>5, <1>6, <1>8, <1>10, <1>12, <1>13, <1>14 DEF h

LEMMA PassCustody ==
  ASSUME Custodial, NEW m \in Machine, PassChunk(m)
  PROVE  Custodial'
  <1> DEFINE h == Head(up[m])
  <1>1. Aimed /\ OneSending /\ HeldAlone
    BY DEF Custodial
  <1>2. /\ MoveTyped' /\ UNCHANGED <<row, file>>
        /\ h \in Out(m) /\ h.what = "chunk" /\ h.to \in Machine /\ h.to # m
        /\ \A k \in Machine : Out(k)' \subseteq Out(k) /\ (InTurn(up[k]) => InTurn(up'[k]))
        /\ Slice(h) /\ h.last => \A g \in Out(m)' : ~Slice(g)
        /\ \A k \in Machine : In(k)' \subseteq In(k) \cup (IF k = h.to THEN {h} ELSE {})
        /\ \A k \in Machine : InTurn(down[k]) => InTurn(down'[k])
    BY PassEffect DEF machines
  <1> HIDE DEF h
  <1>3. CASE ~Slice(h)
    BY <1>2, <1>3, CustodyStays
  <1>4. CASE Slice(h)
    <2>1. Aimed'
      BY <1>1, <1>2 DEF Aimed
    <2>2. \A m1 \in Machine : InTurn(down[m1])' /\ InTurn(up[m1])'
      <3>1. \A m1 \in Machine : InTurn(down'[m1]) /\ InTurn(up'[m1])
        BY <1>1, <1>2 DEF OneSending
      <3> QED BY <3>1 DEF InTurn
    <2>3. \A k \in Machine : \A g \in Out(k)' : Slice(g) => k = m /\ g.to = h.to /\ ~h.last
      BY <1>1, <1>2, <1>4 DEF OneSending
    <2>4. \A k \in Machine : \A f \in In(k)' : Slice(f) => k = h.to /\ f.to = h.to /\ (f \in In(k) => ~f.last)
      <3>1. \A k \in Machine : \A f \in In(k) : Slice(f) => f.to = h.to /\ f.to = k /\ ~f.last
        BY <1>1, <1>2, <1>4 DEF OneSending, Aimed, Slice
      <3> QED BY <1>2, <3>1
    <2>5. \A m1, k \in Machine : \A f \in In(m1)', g \in Out(k)' : Slice(f) /\ Slice(g) => f.to = g.to /\ ~f.last
      <3>1. \A k \in Machine : \A f \in In(k)' : f \in In(k) \/ f = h
        BY <1>2
      <3> QED BY <2>3, <2>4, <3>1
    <2>6. OneSending'
      BY ONLY <2>2, <2>3, <2>4, <2>5 DEF OneSending, Slice
    <2>7. \A k \in Machine : FramesOf(k) = In(k) \cup Out(k) /\ FramesOf(k)' = In(k)' \cup Out(k)'
      BY NextFrames
    <2>8. (\A k \in Machine : row[k].agent # First) /\ \E k \in Machine : file[k][First] # <<>>
      BY <1>1, <1>2, <1>4, <2>7 DEF HeldAlone
    <2>9. HeldAlone'
      BY <1>2, <2>8 DEF HeldAlone
    <2> QED BY <1>2, <2>1, <2>6, <2>9 DEF Custodial
  <1> QED BY <1>3, <1>4

\* A machine takes a frame from its channel
LEMMA TakesFrame ==
  ASSUME MoveTyped, NEW m \in Machine, NEW what \in {"event", "left", "chunk"}, FirstOf(m, what) # 0,
         down' = [down EXCEPT ![m] = RemoveAt(down[m], FirstOf(m, what))]
  PROVE  /\ down' \in [Machine -> Seq(Framed)]
         /\ \A k \in Machine : In(k)' \subseteq In(k) /\ (InTurn(down[k]) => InTurn(down'[k]))
         /\ down[m][FirstOf(m, what)] \in In(m) /\ down[m][FirstOf(m, what)] \in Framed
         /\ down[m][FirstOf(m, what)].what = what
  <1> DEFINE i == FirstOf(m, what)
  <1>1. i \in 1 .. Len(down[m]) /\ down[m][i].what = what /\ down[m][i] \in In(m) /\ down[m][i] \in Framed
    BY FirstIs
  <1>2. down \in [Machine -> Seq(Framed)] /\ down[m] \in Seq(Framed)
    BY DEF MoveTyped
  <1> HIDE DEF i
  <1>3. RemoveAt(down[m], i) \in Seq(Framed) /\ PartOf(RemoveAt(down[m], i), down[m])
    BY <1>1, <1>2, Removed
  <1>4. down' \in [Machine -> Seq(Framed)] /\ \A k \in Machine : down'[k] = IF k = m THEN RemoveAt(down[m], i) ELSE down[k]
    BY <1>2, <1>3 DEF i
  <1>5. \A k \in Machine : ToSet(down'[k]) \subseteq ToSet(down[k]) /\ (InTurn(down[k]) => InTurn(down'[k]))
    BY <1>3, <1>4 DEF PartOf
  <1> QED BY <1>1, <1>4, <1>5, NextFrames DEF i

\* (OnInbound) A first conversation begins only where there was none
LEMMA InboundEffect ==
  ASSUME Custodial, NEW m \in Machine, OnInbound(m)
  PROVE  /\ MoveTyped' /\ UNCHANGED <<gateway, connected, up, counts, slips>>
         /\ \A k \in Machine : In(k)' \subseteq In(k) /\ (InTurn(down[k]) => InTurn(down'[k]))
         /\ \E f \in In(m) :
               /\ f \in Framed /\ f.what = "event"
               /\ \/ UNCHANGED machines /\ ~f.mention /\ row[m] = NoRow
                  \/ /\ f.mention \/ row[m] # NoRow
                     /\ \E s \in Sid :
                           /\ row' = [row EXCEPT ![m].agent = s] /\ live' = [live EXCEPT ![m] = live[m] \cup {s}]
                           /\ file' = [file EXCEPT ![m][s] = IF file[m][s] = <<>> THEN Whole ELSE file[m][s]]
                           /\ s = row[m].agent \/ (row[m].agent \notin Sid /\ s = NewSid(m))
  <1> DEFINE i == FirstOf(m, "event")
             f == down[m][i]
  <1>1. MoveTyped
    BY DEF Custodial
  <1>2. i # 0 /\ down' = [down EXCEPT ![m] = RemoveAt(down[m], i)] /\ UNCHANGED <<gateway, connected, up, counts, slips>>
    BY DEF OnInbound
  <1>3. /\ down' \in [Machine -> Seq(Framed)]
        /\ \A k \in Machine : In(k)' \subseteq In(k) /\ (InTurn(down[k]) => InTurn(down'[k]))
        /\ f \in In(m) /\ f \in Framed /\ f.what = "event"
    BY <1>1, <1>2, TakesFrame
  <1>4. f.mention \in BOOLEAN
    BY <1>3, FrameKinds
  <1>5. \/ ~f.mention /\ row[m] = NoRow /\ UNCHANGED machines
        \/ /\ f.mention \/ row[m] # NoRow
           /\ partial' = partial
           /\ \/ row[m].agent \in Sid /\ Runs(m, row[m].agent)
              \/ row[m].agent \notin Sid /\ Runs(m, NewSid(m))
    BY DEF OnInbound
  <1> HIDE DEF i, f
  <1>6. NewSid(m) \in Sid
    BY Apart DEF NewSid, Sid
  <1>7. CASE ~f.mention /\ row[m] = NoRow /\ UNCHANGED machines
    <2>1. MoveTyped'
      BY <1>1, <1>2, <1>3, <1>7 DEF MoveTyped, gateway, machines
    <2> QED BY <1>2, <1>3, <1>7, <2>1
  <1>8. ASSUME NEW s \in Sid, f.mention \/ row[m] # NoRow, partial' = partial, Runs(m, s),
               s = row[m].agent \/ (row[m].agent \notin Sid /\ s = NewSid(m))
        PROVE  /\ MoveTyped'
               /\ row' = [row EXCEPT ![m].agent = s] /\ live' = [live EXCEPT ![m] = live[m] \cup {s}]
               /\ file' = [file EXCEPT ![m][s] = IF file[m][s] = <<>> THEN Whole ELSE file[m][s]]
    <2>1. /\ row' = [row EXCEPT ![m].agent = s] /\ live' = [live EXCEPT ![m] = live[m] \cup {s}]
          /\ file' = [file EXCEPT ![m][s] = IF file[m][s] = <<>> THEN Whole ELSE file[m][s]]
      BY <1>8 DEF Runs
    <2>2. Whole \in Seq(1 .. Slices)
      <3>1. Slices \in Nat /\ \A j \in 1 .. Slices : j \in 1 .. Slices
        BY MoveBoundAssumption
      <3> QED BY <3>1, IsASeq DEF Whole
    <2>3. row \in [Machine -> Entry] /\ live \in [Machine -> SUBSET Sid] /\ file \in Transcripts
      BY <1>1 DEF MoveTyped
    <2>4. row' \in [Machine -> Entry]
      BY <1>8, <2>1, <2>3 DEF Entry
    <2>5. live' \in [Machine -> SUBSET Sid]
      BY <1>8, <2>1, <2>3
    <2>6. file' \in Transcripts
      BY <1>8, <2>1, <2>2, <2>3 DEF Transcripts
    <2> QED BY <1>1, <1>2, <1>3, <1>8, <2>1, <2>4, <2>5, <2>6 DEF MoveTyped, gateway
  <1>9. CASE /\ f.mention \/ row[m] # NoRow
             /\ partial' = partial
             /\ \/ row[m].agent \in Sid /\ Runs(m, row[m].agent)
                \/ row[m].agent \notin Sid /\ Runs(m, NewSid(m))
    <2>1. PICK s \in Sid : Runs(m, s) /\ (s = row[m].agent \/ (row[m].agent \notin Sid /\ s = NewSid(m)))
      BY <1>6, <1>9
    <2>2. /\ MoveTyped'
          /\ row' = [row EXCEPT ![m].agent = s] /\ live' = [live EXCEPT ![m] = live[m] \cup {s}]
          /\ file' = [file EXCEPT ![m][s] = IF file[m][s] = <<>> THEN Whole ELSE file[m][s]]
      BY <1>8, <1>9, <2>1
    <2> QED BY <1>2, <1>3, <1>9, <2>1, <2>2
  <1> QED BY <1>5, <1>7, <1>9

LEMMA WholeIsThere == Whole # <<>>
  <1>1. Slices \in Nat /\ 1 \in 1 .. Slices
    BY MoveBoundAssumption
  <1>2. DOMAIN Whole = 1 .. Slices
    BY DEF Whole
  <1>3. DOMAIN <<>> = {}
    OBVIOUS
  <1> QED BY <1>1, <1>2, <1>3

LEMMA InboundCustody ==
  ASSUME Custodial, NEW m \in Machine, OnInbound(m)
  PROVE  Custodial'
  <1>1. /\ MoveTyped' /\ up' = up
        /\ \A k \in Machine : In(k)' \subseteq In(k) /\ (InTurn(down[k]) => InTurn(down'[k]))
        /\ \/ UNCHANGED machines
           \/ \E s \in Sid :
                /\ row' = [row EXCEPT ![m].agent = s] /\ live' = [live EXCEPT ![m] = live[m] \cup {s}]
                /\ file' = [file EXCEPT ![m][s] = IF file[m][s] = <<>> THEN Whole ELSE file[m][s]]
                /\ s = row[m].agent \/ (row[m].agent \notin Sid /\ s = NewSid(m))
    BY InboundEffect
  <1>2. \A k \in Machine : Out(k)' = Out(k) /\ up'[k] = up[k]
    BY <1>1, NextFrames
  <1>3. CASE UNCHANGED machines
    BY <1>1, <1>2, <1>3, CustodyStays DEF machines
  <1>4. ASSUME NEW s \in Sid, row' = [row EXCEPT ![m].agent = s],
               file' = [file EXCEPT ![m][s] = IF file[m][s] = <<>> THEN Whole ELSE file[m][s]],
               s = row[m].agent \/ (row[m].agent \notin Sid /\ s = NewSid(m))
        PROVE  Custodial'
    <2>1. MoveTyped /\ Aimed /\ HeldAlone /\ row \in [Machine -> Entry] /\ file \in Transcripts
      BY DEF Custodial, MoveTyped
    <2>2. \A k \in Machine : row'[k].agent = IF k = m THEN s ELSE row[k].agent
      BY <1>4, <2>1 DEF Entry
    <2>3. \A k \in Machine : file'[k][First] = IF k = m /\ s = First /\ file[m][First] = <<>> THEN Whole ELSE file[k][First]
      BY <1>4, <2>1, Apart DEF Transcripts
    <2>4. \A k \in Machine : file[k][First] # <<>> => file'[k][First] # <<>>
      BY <2>3
    <2>5. CASE s # First \/ row[m].agent = First
      <3>1. \A k \in Machine : row'[k].agent = First => row[k].agent = First
        BY <2>2, <2>5
      <3> QED BY <1>1, <1>2, <2>4, <3>1, CustodyStays
    <2>6. CASE s = First /\ row[m].agent # First
      <3>1. \A k \in Machine : file[k][First] = <<>>
        BY <1>4, <2>6, Apart DEF NewSid
      <3>2. \A k \in Machine : row[k].agent # First /\ \A f \in FramesOf(k) : ~Slice(f)
        BY <2>1, <3>1 DEF HeldAlone
      <3>3. \A k \in Machine : (\A f \in In(k)' : ~Slice(f)) /\ (\A f \in Out(k)' : ~Slice(f)) /\ (\A f \in FramesOf(k)' : ~Slice(f))
        BY <1>1, <1>2, <3>2, NextFrames
      <3>4. Aimed'
        BY <1>1, <1>2, <2>1 DEF Aimed
      <3>5. \A k \in Machine : InTurn(down[k])' /\ InTurn(up[k])'
        <4>1. \A k \in Machine : InTurn(down'[k]) /\ InTurn(up'[k])
          BY <1>1, <1>2 DEF Custodial, OneSending
        <4> QED BY <4>1 DEF InTurn
      <3>6. OneSending'
        BY ONLY <3>3, <3>5 DEF OneSending, Slice
      <3>7. file'[m][First] # <<>>
        BY <2>3, <2>6, <3>1, WholeIsThere
      <3>8. HeldAlone'
        BY ONLY <2>2, <3>2, <3>3, <3>7 DEF HeldAlone, Slice, First
      <3> QED BY <1>1, <3>4, <3>6, <3>8 DEF Custodial
    <2> QED BY <2>5, <2>6
  <1> QED BY <1>1, <1>3, <1>4

\* (GiveUpThread) Who lets go sends all of it, and holds nothing of it
LEMMA GiveUpEffect ==
  ASSUME Custodial, NEW m \in Machine, GiveUpThread(m)
  PROVE  /\ MoveTyped' /\ UNCHANGED <<gateway, connected, file, partial, counts, slips>>
         /\ \A k \in Machine : In(k)' \subseteq In(k) /\ (InTurn(down[k]) => InTurn(down'[k]))
         /\ \E f \in In(m) :
               /\ f \in Framed /\ f.what = "left" /\ f.to \in Machine /\ f.to # m
               /\ live' = [live EXCEPT ![m] = live[m] \ {row[m].agent}]
               /\ row' = [row EXCEPT ![m] = [bridge |-> f.to, agent |-> "none"]]
               /\ up' = [up EXCEPT ![m] = up[m] \o Slicing(m, f.to)]
               /\ \A k \in Machine : Out(k)' = IF k = m THEN Out(k) \cup ToSet(Slicing(m, f.to)) ELSE Out(k)
  <1> DEFINE i == FirstOf(m, "left")
             f == down[m][i]
  <1>1. MoveTyped /\ Aimed
    BY DEF Custodial
  <1>2. /\ i # 0 /\ down' = [down EXCEPT ![m] = RemoveAt(down[m], i)] /\ UNCHANGED <<gateway, connected, file, partial, counts, slips>>
        /\ live' = [live EXCEPT ![m] = live[m] \ {row[m].agent}]
        /\ row' = [row EXCEPT ![m] = [bridge |-> f.to, agent |-> "none"]]
        /\ up' = [up EXCEPT ![m] = up[m] \o Slicing(m, f.to)]
    BY DEF GiveUpThread, EndAgent, LeftRow
  <1>3. /\ down' \in [Machine -> Seq(Framed)]
        /\ \A k \in Machine : In(k)' \subseteq In(k) /\ (InTurn(down[k]) => InTurn(down'[k]))
        /\ f \in In(m) /\ f \in Framed /\ f.what = "left"
    BY <1>1, <1>2, TakesFrame
  <1>4. f.to \in Machine /\ f.to # m
    BY <1>1, <1>3, FrameKinds DEF Aimed
  <1> HIDE DEF i, f
  <1>5. up \in [Machine -> Seq(Framed)] /\ up[m] \in Seq(Framed) /\ row \in [Machine -> Entry] /\ live \in [Machine -> SUBSET Sid]
    BY <1>1 DEF MoveTyped
  <1>6. Slicing(m, f.to) \in Seq(Framed)
    BY <1>1, <1>4, SlicesAre
  <1>7. up[m] \o Slicing(m, f.to) \in Seq(Framed) /\ ToSet(up[m] \o Slicing(m, f.to)) = ToSet(up[m]) \cup ToSet(Slicing(m, f.to))
    BY <1>5, <1>6, Joined
  <1>8. up' \in [Machine -> Seq(Framed)] /\ \A k \in Machine : up'[k] = IF k = m THEN up[m] \o Slicing(m, f.to) ELSE up[k]
    BY <1>2, <1>5, <1>7
  <1>9. \A k \in Machine : Out(k)' = IF k = m THEN Out(k) \cup ToSet(Slicing(m, f.to)) ELSE Out(k)
    BY <1>7, <1>8, NextFrames
  <1>10. row' \in [Machine -> Entry] /\ live' \in [Machine -> SUBSET Sid]
    BY <1>2, <1>4, <1>5 DEF Entry
  <1>11. MoveTyped'
    BY <1>1, <1>2, <1>3, <1>8, <1>10 DEF MoveTyped, gateway
  <1> QED BY <1>2, <1>3, <1>4, <1>9, <1>11

LEMMA GiveUpCustody ==
  ASSUME Custodial, NEW m \in Machine, GiveUpThread(m)
  PROVE  Custodial'
  <1>1. MoveTyped /\ Aimed /\ OneSending /\ HeldAlone
    BY DEF Custodial
  <1>2. PICK f \in In(m) :
               /\ f \in Framed /\ f.what = "left" /\ f.to \in Machine /\ f.to # m
               /\ row' = [row EXCEPT ![m] = [bridge |-> f.to, agent |-> "none"]]
               /\ up' = [up EXCEPT ![m] = up[m] \o Slicing(m, f.to)]
               /\ \A k \in Machine : Out(k)' = IF k = m THEN Out(k) \cup ToSet(Slicing(m, f.to)) ELSE Out(k)
    BY GiveUpEffect
  <1>3. MoveTyped' /\ file' = file /\ \A k \in Machine : In(k)' \subseteq In(k) /\ (InTurn(down[k]) => InTurn(down'[k]))
    BY GiveUpEffect
  <1>4. /\ Slicing(m, f.to) \in Seq(Framed) /\ InTurn(Slicing(m, f.to))
        /\ \A g \in ToSet(Slicing(m, f.to)) :
               /\ g.what = "chunk" /\ g.to = f.to /\ g.sid = row[m].agent /\ row[m].agent \in Sid
               /\ file[m][row[m].agent] # <<>>
    BY <1>1, <1>2, SlicesAre
  <1>5. up \in [Machine -> Seq(Framed)] /\ up[m] \in Seq(Framed) /\ row \in [Machine -> Entry]
    BY <1>1 DEF MoveTyped
  <1>6. \A k \in Machine : row'[k].agent = IF k = m THEN "none" ELSE row[k].agent
    BY <1>2, <1>5
  <1>7. (\A g \in ToSet(up[m]) : ~Slice(g)) \/ (\A g \in ToSet(Slicing(m, f.to)) : ~Slice(g))
    <2>1. CASE row[m].agent = First
      BY <1>1, <2>1, NextFrames DEF HeldAlone
    <2>2. CASE row[m].agent # First
      BY <1>4, <2>2 DEF Slice
    <2> QED BY <2>1, <2>2
  <1>8. InTurn(up[m]) => InTurn(up[m] \o Slicing(m, f.to))
    BY <1>4, <1>5, <1>7, InTurnJoined
  <1>9. \A k \in Machine : InTurn(up[k]) => InTurn(up'[k])
    BY <1>2, <1>5, <1>8
  <1>10. "none" # First
    BY DEF First
  <1>11. CASE row[m].agent # First
    <2>1. \A k \in Machine : \A g \in Out(k)' : g \in Out(k) \/ (~Slice(g) /\ g.what = "chunk" /\ g.to # k)
      BY <1>2, <1>4, <1>11 DEF Slice
    <2>2. \A k \in Machine : row'[k].agent = First => row[k].agent = First
      BY <1>6, <1>10
    <2> QED BY <1>3, <1>9, <2>1, <2>2, CustodyStays
  <1>12. CASE row[m].agent = First
    <2>1. \A k \in Machine : \A g \in FramesOf(k) : ~Slice(g)
      BY <1>1, <1>12 DEF HeldAlone
    <2>2. \A k \in Machine : (\A g \in In(k)' : ~Slice(g)) /\ (\A g \in Out(k)' : Slice(g) => k = m /\ g.to = f.to)
      BY <1>2, <1>3, <1>4, <2>1, NextFrames
    <2>3. Aimed'
      BY <1>1, <1>2, <1>3, <1>4 DEF Aimed
    <2>4. \A k \in Machine : InTurn(down[k])' /\ InTurn(up[k])'
      <3>1. \A k \in Machine : InTurn(down'[k]) /\ InTurn(up'[k])
        BY <1>1, <1>3, <1>9 DEF OneSending
      <3> QED BY <3>1 DEF InTurn
    <2>5. OneSending'
      BY ONLY <2>2, <2>4 DEF OneSending, Slice
    <2>6. \A k \in Machine : row'[k].agent # First
      BY <1>1, <1>6, <1>10, <1>12 DEF HeldAlone
    <2>7. ASSUME NEW k \in Machine, NEW g \in FramesOf(k)', Slice(g)
          PROVE  file[m][First] # <<>>
      <3>1. g \in Out(k)' /\ k = m /\ g \notin Out(m)
        BY <2>1, <2>2, <2>7, NextFrames
      <3>2. g \in ToSet(Slicing(m, f.to))
        BY <1>2, <3>1
      <3> QED BY <1>4, <1>12, <3>2
    <2>8. HeldAlone'
      <3>1. (\E k \in Machine : \E g \in FramesOf(k)' : Slice(g)) => file'[m][First] # <<>>
        BY <1>3, <2>7
      <3> QED BY ONLY <2>6, <3>1 DEF HeldAlone, Slice, First
    <2> QED BY <1>3, <2>3, <2>5, <2>8 DEF Custodial
  <1> QED BY <1>11, <1>12

\* (TakeThreadChunk) A slice is turned away, or put with the others
LEMMA TakeEffect ==
  ASSUME Custodial, NEW m \in Machine, TakeThreadChunk(m)
  PROVE  /\ MoveTyped' /\ UNCHANGED <<gateway, connected, up, live, counts>>
         /\ \A k \in Machine : In(k)' \subseteq In(k) /\ (InTurn(down[k]) => InTurn(down'[k]))
         /\ slips' = slips \/ slips' = slips \cup {"refused"}
         /\ \E f \in In(m) :
               /\ f \in Framed /\ f.what = "chunk" /\ f.to = m /\ f.sid \in Sid
               /\ Slice(f) /\ f.last => \A g \in In(m)' : ~Slice(g)
               /\ \/ UNCHANGED <<row, file>>
                  \/ /\ f.last /\ row' = [row EXCEPT ![m] = [bridge |-> m, agent |-> f.sid]]
                     /\ \E bits \in Seq(1 .. Slices) : bits # <<>> /\ file' = [file EXCEPT ![m][f.sid] = bits]
  <1> DEFINE i == FirstOf(m, "chunk")
             f == down[m][i]
             bits == IF f.seq = 1 THEN <<f.data>> ELSE Append(partial[m][f.sid], f.data)
  <1>1. MoveTyped /\ Aimed /\ OneSending
    BY DEF Custodial
  <1>2. /\ i # 0 /\ down' = [down EXCEPT ![m] = RemoveAt(down[m], i)] /\ UNCHANGED <<gateway, connected, up, counts>>
        /\ RefuseChunk(m, f) \/ PlaceChunk(m, f)
    BY DEF TakeThreadChunk
  <1>3. /\ down' \in [Machine -> Seq(Framed)]
        /\ \A k \in Machine : In(k)' \subseteq In(k) /\ (InTurn(down[k]) => InTurn(down'[k]))
        /\ f \in In(m) /\ f \in Framed /\ f.what = "chunk"
    BY <1>1, <1>2, TakesFrame
  <1>4. f.to = m /\ f.sid \in Sid /\ f.data \in 1 .. Slices
    BY <1>1, <1>3, FrameKinds DEF Aimed
  <1>5. Slice(f) /\ f.last => \A g \in In(m)' : ~Slice(g)
    <2>1. down \in [Machine -> Seq(Framed)] /\ down[m] \in Seq(Framed) /\ InTurn(down[m])
      BY <1>1 DEF MoveTyped, OneSending
    <2>2. i \in 1 .. Len(down[m]) /\ \A j \in 1 .. Len(down[m]) : down[m][j].what = "chunk" => i <= j
      BY <1>1, <1>2, FirstIs
    <2>3. /\ RemoveAt(down[m], i) \in Seq(Framed) /\ Len(RemoveAt(down[m], i)) = Len(down[m]) - 1
          /\ \A j \in 1 .. Len(down[m]) - 1 : RemoveAt(down[m], i)[j] = IF j < i THEN down[m][j] ELSE down[m][j + 1]
      BY <2>1, <2>2, Removed
    <2>4. Len(down[m]) \in Nat
      BY <2>1, LenProperties
    <2>5. SUFFICES ASSUME Slice(f), f.last, NEW g \in In(m)', Slice(g)
                   PROVE  FALSE
      OBVIOUS
    <2>6. In(m)' = ToSet(RemoveAt(down[m], i))
      BY <1>2, <2>1, NextFrames
    <2>7. PICK j \in 1 .. Len(down[m]) - 1 : g = IF j < i THEN down[m][j] ELSE down[m][j + 1]
      BY <2>3, <2>5, <2>6 DEF ToSet
    <2>8. PICK h \in 1 .. Len(down[m]) : h # i /\ g = down[m][h]
      <3>1. i \in 1 .. Len(down[m])
        BY <2>2
      <3> HIDE DEF i
      <3>2. CASE j < i
        <4>1. j \in 1 .. Len(down[m]) /\ j # i /\ g = down[m][j]
          BY <2>4, <2>7, <3>1, <3>2
        <4> QED BY <4>1
      <3>3. CASE ~(j < i)
        <4>1. j + 1 \in 1 .. Len(down[m]) /\ j + 1 # i /\ g = down[m][j + 1]
          BY <2>4, <2>7, <3>1, <3>3
        <4> QED BY <4>1
      <3> QED BY <3>2, <3>3
    <2>9. i < h
      BY <2>2, <2>4, <2>5, <2>8 DEF Slice
    <2> QED BY <2>1, <2>2, <2>5, <2>8, <2>9 DEF InTurn
  <1> HIDE DEF i, f
  <1>6. CASE RefuseChunk(m, f)
    <2>1. UNCHANGED machines /\ slips' = slips \cup {"refused"}
      BY <1>6 DEF RefuseChunk
    <2>2. MoveTyped'
      BY <1>1, <1>2, <1>3, <2>1 DEF MoveTyped, gateway, machines, Slip
    <2> QED BY <1>2, <1>3, <1>4, <1>5, <2>1, <2>2 DEF machines
  <1>7. CASE PlaceChunk(m, f)
    <2>1. bits \in Seq(1 .. Slices) /\ bits # <<>>
      <3>1. partial[m][f.sid] \in Seq(1 .. Slices)
        BY <1>1, <1>4 DEF MoveTyped, Transcripts
      <3>2. Append(partial[m][f.sid], f.data) \in Seq(1 .. Slices) /\ Append(partial[m][f.sid], f.data) # <<>>
        BY <1>4, <3>1, AppendProperties
      <3>3. <<f.data>> \in Seq(1 .. Slices) /\ <<f.data>> # <<>>
        BY <1>4
      <3> QED BY <3>2, <3>3
    <2> HIDE DEF bits
    <2>2. /\ live' = live /\ slips' = slips
          /\ \/ /\ f.last /\ file' = [file EXCEPT ![m][f.sid] = bits]
                /\ partial' = [partial EXCEPT ![m][f.sid] = <<>>]
                /\ row' = [row EXCEPT ![m] = [bridge |-> m, agent |-> f.sid]]
             \/ partial' = [partial EXCEPT ![m][f.sid] = bits] /\ UNCHANGED <<file, row>>
      BY <1>7 DEF PlaceChunk, Completes, ArrivedRow, bits
    <2>3. file \in Transcripts /\ partial \in Transcripts /\ row \in [Machine -> Entry]
      BY <1>1 DEF MoveTyped
    <2>4. [partial EXCEPT ![m][f.sid] = bits] \in Transcripts /\ [file EXCEPT ![m][f.sid] = bits] \in Transcripts
      BY <1>4, <2>1, <2>3 DEF Transcripts
    <2>5. [partial EXCEPT ![m][f.sid] = <<>>] \in Transcripts
      <3>1. <<>> \in Seq(1 .. Slices)
        OBVIOUS
      <3> QED BY <1>4, <2>3, <3>1 DEF Transcripts
    <2>6. [row EXCEPT ![m] = [bridge |-> m, agent |-> f.sid]] \in [Machine -> Entry]
      BY <1>4, <2>3 DEF Entry
    <2>7. row' \in [Machine -> Entry] /\ file' \in Transcripts /\ partial' \in Transcripts
      BY <2>2, <2>3, <2>4, <2>5, <2>6
    <2>8. MoveTyped'
      BY <1>1, <1>2, <1>3, <2>2, <2>7 DEF MoveTyped, gateway
    <2> QED BY <1>2, <1>3, <1>4, <1>5, <2>1, <2>2, <2>8
  <1> QED BY <1>2, <1>6, <1>7

LEMMA TakeCustody ==
  ASSUME Custodial, NEW m \in Machine, TakeThreadChunk(m)
  PROVE  Custodial'
  <1>1. MoveTyped /\ Aimed /\ OneSending /\ HeldAlone /\ row \in [Machine -> Entry] /\ file \in Transcripts
    BY DEF Custodial, MoveTyped
  <1>2. MoveTyped' /\ up' = up /\ \A k \in Machine : In(k)' \subseteq In(k) /\ (InTurn(down[k]) => InTurn(down'[k]))
    BY TakeEffect
  <1>3. PICK f \in In(m) :
               /\ f \in Framed /\ f.what = "chunk" /\ f.to = m /\ f.sid \in Sid
               /\ Slice(f) /\ f.last => \A g \in In(m)' : ~Slice(g)
               /\ \/ UNCHANGED <<row, file>>
                  \/ /\ f.last /\ row' = [row EXCEPT ![m] = [bridge |-> m, agent |-> f.sid]]
                     /\ \E bits \in Seq(1 .. Slices) : bits # <<>> /\ file' = [file EXCEPT ![m][f.sid] = bits]
    BY TakeEffect
  <1>4. \A k \in Machine : Out(k)' = Out(k) /\ up'[k] = up[k]
    BY <1>2, NextFrames
  <1>5. CASE UNCHANGED <<row, file>>
    BY <1>2, <1>4, <1>5, CustodyStays
  <1>6. ASSUME f.last, row' = [row EXCEPT ![m] = [bridge |-> m, agent |-> f.sid]],
               NEW bits \in Seq(1 .. Slices), bits # <<>>, file' = [file EXCEPT ![m][f.sid] = bits]
        PROVE  Custodial'
    <2>1. \A k \in Machine : row'[k].agent = IF k = m THEN f.sid ELSE row[k].agent
      BY <1>1, <1>6
    <2>2. \A k \in Machine : file'[k][First] = IF k = m /\ f.sid = First THEN bits ELSE file[k][First]
      BY <1>1, <1>3, <1>6, Apart DEF Transcripts
    <2>3. CASE f.sid # First
      <3>1. \A k \in Machine : row'[k].agent = First => row[k].agent = First
        BY <2>1, <2>3
      <3>2. \A k \in Machine : file[k][First] # <<>> => file'[k][First] # <<>>
        BY <2>2, <2>3
      <3> QED BY <1>2, <1>4, <3>1, <3>2, CustodyStays
    <2>4. CASE f.sid = First
      <3>1. Slice(f)
        BY <1>3, <2>4 DEF Slice
      <3>2. \A k \in Machine : \A g \in Out(k)' : ~Slice(g)
        BY <1>1, <1>4, <1>6, <3>1 DEF OneSending
      <3>3. \A k \in Machine : \A g \in In(k)' : ~Slice(g)
        BY <1>1, <1>2, <1>3, <1>6, <3>1 DEF OneSending
      <3>4. Aimed'
        BY <1>1, <1>2, <1>4 DEF Aimed
      <3>5. \A k \in Machine : InTurn(down[k])' /\ InTurn(up[k])'
        <4>1. \A k \in Machine : InTurn(down'[k]) /\ InTurn(up'[k])
          BY <1>1, <1>2, <1>4 DEF OneSending
        <4> QED BY <4>1 DEF InTurn
      <3>6. OneSending'
        BY ONLY <3>2, <3>3, <3>5 DEF OneSending, Slice
      <3>7. \A k \in Machine : row[k].agent # First
        BY <1>1, <1>3, <3>1, NextFrames DEF HeldAlone
      <3>8. \A k, j \in Machine : row'[k].agent = First /\ row'[j].agent = First => k = j
        BY <2>1, <3>7
      <3>9. \A k \in Machine : \A g \in FramesOf(k)' : ~Slice(g)
        BY <3>2, <3>3, NextFrames
      <3>10. file'[m][First] # <<>>
        BY <1>6, <2>2, <2>4
      <3>11. HeldAlone'
        BY ONLY <3>8, <3>9, <3>10 DEF HeldAlone, Slice, First
      <3> QED BY <1>2, <3>4, <3>6, <3>11 DEF Custodial
    <2> QED BY <2>3, <2>4
  <1> QED BY <1>3, <1>5, <1>6

LEMMA CustodyFromTheStart ==
  ASSUME MoveInit
  PROVE  Custodial /\ \A m \in Machine : FramesOf(m) = {} /\ In(m) = {} /\ Out(m) = {}
  <1>1. <<>> \in Seq(Machine) /\ <<>> \in Seq(Framed) /\ <<>> \in Seq(1 .. Slices)
    OBVIOUS
  <1>2. MaxPosts \in Nat /\ MaxMoves \in Nat /\ MaxFaults \in Nat
    BY MoveBoundAssumption
  <1>3. NoRow \in Entry /\ NoRow.agent = "no row"
    BY DEF NoRow, Entry
  <1>4. counts \in [posts : 0 .. MaxPosts, moves : 0 .. MaxMoves, faults : 0 .. MaxFaults]
    BY <1>2 DEF MoveInit
  <1>5. MoveTyped
    BY <1>1, <1>3, <1>4, Apart DEF MoveInit, MoveTyped, Transcripts
  <1>6. \A m \in Machine : down[m] = <<>> /\ up[m] = <<>> /\ row[m] = NoRow
    BY DEF MoveInit
  <1>7. \A m \in Machine : FramesOf(m) = {} /\ In(m) = {} /\ Out(m) = {}
    BY <1>6, NextFrames, Nothing
  <1>8. Aimed
    BY <1>7 DEF Aimed
  <1>9. OneSending
    <2>1. \A m \in Machine : InTurn(down[m]) /\ InTurn(up[m])
      BY <1>6 DEF InTurn
    <2> QED BY <1>7, <2>1 DEF OneSending
  <1>10. HeldAlone
    BY <1>3, <1>6, <1>7, Apart DEF HeldAlone
  <1> QED BY <1>5, <1>7, <1>8, <1>9, <1>10 DEF Custodial

LEMMA CustodyKept ==
  ASSUME Custodial, [MoveNext]_moveVars
  PROVE  Custodial'
  <1>1. ASSUME NEW mention \in BOOLEAN, OnEvent(mention) PROVE Custodial'
    BY <1>1, EventCustody
  <1>2. ASSUME Owner PROVE Custodial'
    BY <1>2, OwnerCustody DEF Owner
  <1>3. ASSUME NoteThreadRoutes PROVE Custodial'
    BY <1>3, NoteCustody
  <1>4. ASSUME Works PROVE Custodial'
    BY <1>4, MoveCustody, PassCustody, InboundCustody, GiveUpCustody, TakeCustody DEF Works
  <1>5. ASSUME (\E m \in Machine : Relink(m)) \/ UNCHANGED moveVars PROVE Custodial'
    BY <1>5, RelinkCustody
  <1>6. ASSUME Faults PROVE Custodial'
    BY <1>6, FaultsCustody
  <1> QED BY <1>1, <1>2, <1>3, <1>4, <1>5, <1>6 DEF MoveNext

-----------------------------------------------------------------------------
(* Where the thread's frames go, and what the gateway has on file             *)

LEMMA FramesAre ==
  ASSUME MoveTyped, NEW m \in Machine, NEW f \in FramesOf(m)
  PROVE  /\ f \in Framed /\ f.what \in {"event", "left", "chunk"}
         /\ f.what \in {"left", "chunk"} => f.to \in Machine
  <1>1. down[m] \in Seq(Framed) /\ up[m] \in Seq(Framed)
    BY DEF MoveTyped
  <1>2. \A i \in 1 .. Len(down[m]) : down[m][i] \in Framed
    BY <1>1, ElementOfSeq
  <1>3. \A i \in 1 .. Len(up[m]) : up[m][i] \in Framed
    BY <1>1, ElementOfSeq
  <1>4. f \in Framed
    BY <1>1, <1>2, <1>3, LenProperties DEF FramesOf, ToSet
  <1> QED BY <1>4, FrameKinds

\* What went wrong is not forgotten
LEMMA SlipsStay ==
  ASSUME MoveTyped, [MoveNext]_moveVars
  PROVE  slips \subseteq slips' /\ (ToldAll' => ToldAll) /\ (Quiet' => Quiet)
  <1>1. slips \subseteq slips'
    <2>1. ASSUME NEW mention \in BOOLEAN, OnEvent(mention) PROVE slips \subseteq slips'
      BY <2>1 DEF OnEvent
    <2>2. ASSUME Owner PROVE slips \subseteq slips'
      BY <2>2 DEF Owner, RepointChannel, AssignProject
    <2>3. ASSUME NoteThreadRoutes PROVE slips \subseteq slips'
      BY <2>3 DEF NoteThreadRoutes
    <2>4. ASSUME Works PROVE slips \subseteq slips'
      BY <2>4 DEF Works, MoveThread, LetGo, PassChunk, OnInbound, GiveUpThread, TakeThreadChunk, RefuseChunk, PlaceChunk
    <2>5. ASSUME (\E m \in Machine : Relink(m)) \/ UNCHANGED moveVars PROVE slips \subseteq slips'
      BY <2>5 DEF Relink, moveVars
    <2>6. ASSUME Faults PROVE slips \subseteq slips'
      BY <2>6 DEF Faults, CutLink, RestartMachine, RestartGateway
    <2> QED BY <2>1, <2>2, <2>3, <2>4, <2>5, <2>6 DEF MoveNext
  <1> QED BY <1>1 DEF ToldAll, Quiet

\* Nothing new is on its way, and the thread's machine is the one it was
LEMMA RoutedStays ==
  ASSUME Routed, ToldAll' => ToldAll, route' = route, notes' = notes,
         ToldAll => row'[Gateway].bridge \in {row[Gateway].bridge, route},
         \A k \in Machine : \A f \in FramesOf(k)' : f.what \in {"left", "chunk"} =>
             \E j \in Machine : \E g \in FramesOf(j) : g.what \in {"left", "chunk"} /\ f.to = g.to
  PROVE  Routed'
  <1>1. SUFFICES ASSUME ToldAll' PROVE Noted' /\ OnRoute'
    BY DEF Routed
  <1>2. ToldAll /\ Noted /\ OnRoute
    BY <1>1 DEF Routed
  <1>3. Noted'
    BY <1>2 DEF Noted
  <1>4. OnRoute'
    BY <1>2 DEF OnRoute
  <1> QED BY <1>3, <1>4

\* The last of the notes is the one that was written last
LEMMA LastNote ==
  ASSUME notes \in Seq(Machine)
  PROVE  /\ \A b \in Machine : Append(notes, b) # <<>> /\ Append(notes, b)[Len(Append(notes, b))] = b
         /\ notes # <<>> => /\ notes[Len(notes)] \in Machine
                            /\ Tail(notes) = <<>> => Head(notes) = notes[Len(notes)]
                            /\ Tail(notes) # <<>> => Tail(notes)[Len(Tail(notes))] = notes[Len(notes)]
  <1>1. \A b \in Machine : Append(notes, b) # <<>> /\ Append(notes, b)[Len(Append(notes, b))] = b
    BY AppendProperties
  <1>2. ASSUME notes # <<>>
        PROVE  /\ notes[Len(notes)] \in Machine
               /\ Tail(notes) = <<>> => Head(notes) = notes[Len(notes)]
               /\ Tail(notes) # <<>> => Tail(notes)[Len(Tail(notes))] = notes[Len(notes)]
    <2> DEFINE t == Tail(notes)
    <2>1. t \in Seq(Machine) /\ Len(t) = Len(notes) - 1 /\ Len(notes) \in Nat \ {0} /\ Head(notes) = notes[1]
      BY <1>2, HeadTailProperties, EmptySeq
    <2>2. \A j \in 1 .. Len(notes) - 1 : t[j] = notes[j + 1]
      BY <1>2, HeadTailProperties, EmptySeq
    <2>3. notes[Len(notes)] \in Machine
      BY <2>1, ElementOfSeq
    <2> HIDE DEF t
    <2>4. t = <<>> => Len(notes) = 1
      BY <2>1, EmptySeq
    <2>5. t # <<>> => Len(t) \in 1 .. Len(notes) - 1 /\ Len(t) + 1 = Len(notes)
      <3>1. t # <<>> => Len(t) # 0
        BY <2>1, EmptySeq
      <3> QED BY <2>1, <3>1
    <2> QED BY <2>1, <2>2, <2>3, <2>4, <2>5 DEF t
  <1> QED BY <1>1, <1>2

LEMMA EventRouted ==
  ASSUME Custodial, Routed, NEW mention \in BOOLEAN, OnEvent(mention)
  PROVE  Routed'
  <1>1. MoveTyped /\ MoveTyped' /\ (ToldAll' => ToldAll)
    BY EventCustody, SlipsStay DEF Custodial, MoveNext
  <1>2. Destination \in Machine /\ Posted(mention) \in Framed /\ Posted(mention).what = "event"
    BY <1>1, Apart DEF Destination, Posted, Framed, MoveTyped
  <1>3. down' = Sent(down, Destination, Posted(mention)) /\ down \in [Machine -> Seq(Framed)] /\ up' = up /\ row' = row
    BY <1>1 DEF OnEvent, machines, MoveTyped
  <1>4. \A k \in Machine : ToSet(down'[k]) \subseteq ToSet(down[k]) \cup {Posted(mention)}
    <2>1. \A k \in Machine : ToSet(down'[k]) = IF k = Destination /\ Reaches(Destination) THEN ToSet(down[k]) \cup {Posted(mention)} ELSE ToSet(down[k])
      BY ONLY <1>2, <1>3, SentIs
    <2> QED BY ONLY <2>1
  <1>5. \A k \in Machine : \A f \in FramesOf(k)' : f.what \in {"left", "chunk"} => f \in FramesOf(k)
    BY <1>2, <1>3, <1>4, NextFrames
  <1>6. CASE UNCHANGED <<route, notes>>
    BY <1>1, <1>3, <1>5, <1>6, RoutedStays
  <1>7. CASE route = None /\ route' = Destination /\ notes' = Append(notes, Destination)
    <2>1. SUFFICES ASSUME ToldAll' PROVE Noted' /\ OnRoute'
      BY DEF Routed
    <2>2. Noted'
      BY <1>1, <1>2, <1>7, LastNote DEF Noted, MoveTyped
    <2>3. \A k \in Machine : \A f \in FramesOf(k) : f.what \notin {"left", "chunk"}
      BY <1>1, <1>7, <2>1, FramesAre, Apart DEF Routed, OnRoute
    <2> QED BY <1>5, <2>2, <2>3 DEF OnRoute
  <1> QED BY <1>6, <1>7 DEF OnEvent

LEMMA MoveRouted ==
  ASSUME Custodial, Routed, NEW b \in Machine, MoveThread(b)
  PROVE  Routed'
  <1>1. MoveTyped /\ (ToldAll' => ToldAll)
    BY SlipsStay DEF Custodial, MoveNext, Works
  <1>2. up' = up /\ row' = row
    BY DEF MoveThread, machines
  <1>3. CASE UNCHANGED <<route, notes, down, slips>>
    <2>1. \A k \in Machine : FramesOf(k)' = FramesOf(k)
      BY <1>2, <1>3, NextFrames
    <2> QED BY <1>1, <1>2, <1>3, <2>1, RoutedStays
  <1>4. CASE route \notin {b, None} /\ route' = b /\ notes' = Append(notes, b) /\ LetGo(route, b)
    <2>1. SUFFICES ASSUME ToldAll' PROVE Noted' /\ OnRoute'
      BY DEF Routed
    <2>2. ~UnderWay
      BY <1>4, <2>1 DEF LetGo, Unless, ToldAll
    <2>3. Noted'
      BY <1>1, <1>4, LastNote DEF Noted, MoveTyped
    <2>4. route \in Machine /\ ThreadLeft(b) \in Framed /\ ThreadLeft(b).to = b /\ down \in [Machine -> Seq(Framed)]
          /\ down' = Sent(down, route, ThreadLeft(b))
      BY <1>1, <1>4 DEF ThreadLeft, Framed, MoveTyped, LetGo
    <2>5. \A k \in Machine : ToSet(down'[k]) \subseteq ToSet(down[k]) \cup {ThreadLeft(b)}
      <3>1. \A k \in Machine : ToSet(down'[k]) = IF k = route /\ Reaches(route) THEN ToSet(down[k]) \cup {ThreadLeft(b)} ELSE ToSet(down[k])
        BY ONLY <2>4, SentIs
      <3> QED BY ONLY <3>1
    <2>6. \A k \in Machine : \A f \in FramesOf(k)' : f \in FramesOf(k) \/ f = ThreadLeft(b)
      BY <1>2, <2>5, NextFrames
    <2>7. \A k \in Machine : \A f \in FramesOf(k) : f.what \notin {"left", "chunk"}
      BY <2>2 DEF UnderWay
    <2>8. OnRoute'
      BY <1>4, <2>4, <2>6, <2>7 DEF OnRoute
    <2> QED BY <2>3, <2>8
  <1> QED BY <1>3, <1>4 DEF MoveThread

LEMMA NoteRouted ==
  ASSUME Custodial, Routed, NoteThreadRoutes
  PROVE  Routed'
  <1>1. MoveTyped /\ (ToldAll' => ToldAll)
    BY SlipsStay DEF Custodial, MoveNext
  <1>2. /\ UNCHANGED <<route, down, up>> /\ notes # <<>> /\ notes' = Tail(notes)
        /\ row' = [row EXCEPT ![Gateway] = [bridge |-> Head(notes), agent |-> IF row[Gateway] = NoRow THEN "none" ELSE row[Gateway].agent]]
    BY DEF NoteThreadRoutes, links
  <1>3. row'[Gateway].bridge = Head(notes)
    BY <1>1, <1>2, Apart DEF MoveTyped
  <1>4. SUFFICES ASSUME ToldAll' PROVE Noted' /\ OnRoute'
    BY DEF Routed
  <1>5. notes[Len(notes)] = route /\ OnRoute
    BY <1>1, <1>2, <1>4 DEF Routed, Noted
  <1>6. Noted'
    BY <1>1, <1>2, <1>3, <1>5, LastNote DEF Noted, MoveTyped
  <1>7. OnRoute'
    BY <1>2, <1>5, NextFrames DEF OnRoute
  <1> QED BY <1>6, <1>7

\* (PassChunk, OnInbound, GiveUpThread, TakeThreadChunk)
LEMMA MachineRouted ==
  ASSUME Custodial, Routed, NEW m \in Machine,
         PassChunk(m) \/ OnInbound(m) \/ GiveUpThread(m) \/ TakeThreadChunk(m)
  PROVE  Routed'
  <1>1. MoveTyped /\ (ToldAll' => ToldAll) /\ row \in [Machine -> Entry]
    BY SlipsStay DEF Custodial, MoveNext, Works, MoveTyped
  <1>2. UNCHANGED <<route, notes>>
    BY DEF PassChunk, OnInbound, GiveUpThread, TakeThreadChunk, gateway
  <1>3. CASE PassChunk(m)
    <2>1. row' = row /\ Head(up[m]) \in FramesOf(m) /\ \A k \in Machine : FramesOf(k)' \subseteq FramesOf(k) \cup {Head(up[m])}
      BY <1>3, PassEffect, NextFrames DEF machines
    <2>2. \A k \in Machine : \A f \in FramesOf(k)' : \E j \in Machine : f \in FramesOf(j)
      BY <2>1
    <2> QED BY <1>1, <1>2, <2>1, <2>2, RoutedStays
  <1>4. CASE OnInbound(m)
    <2>1. \A k \in Machine : FramesOf(k)' \subseteq FramesOf(k)
      BY <1>4, InboundEffect, NextFrames
    <2>2. row'[Gateway].bridge = row[Gateway].bridge
      <3>1. row' = row \/ \E s \in Sid : row' = [row EXCEPT ![m].agent = s]
        BY <1>4, InboundEffect DEF machines
      <3>2. ASSUME NEW s \in Sid, row' = [row EXCEPT ![m].agent = s]
            PROVE  row'[Gateway].bridge = row[Gateway].bridge
        BY <1>1, <3>2, Apart DEF Entry
      <3> QED BY <3>1, <3>2
    <2> QED BY <1>1, <1>2, <2>1, <2>2, RoutedStays
  <1>5. CASE GiveUpThread(m)
    <2>1. \A k \in Machine : In(k)' \subseteq In(k)
      BY <1>5, GiveUpEffect
    <2>2. PICK f \in In(m) :
               /\ f \in Framed /\ f.what = "left" /\ f.to \in Machine
               /\ row' = [row EXCEPT ![m] = [bridge |-> f.to, agent |-> "none"]]
               /\ \A k \in Machine : Out(k)' = IF k = m THEN Out(k) \cup ToSet(Slicing(m, f.to)) ELSE Out(k)
      BY <1>5, GiveUpEffect
    <2>3. \A g \in ToSet(Slicing(m, f.to)) : g.to = f.to
      BY <1>1, <2>2, SlicesAre
    <2>4. f \in FramesOf(m)
      BY NextFrames
    <2>5. \A k \in Machine : \A g \in FramesOf(k)' : g \in FramesOf(k) \/ g.to = f.to
      BY <2>1, <2>2, <2>3, NextFrames
    <2>6. \A k \in Machine : \A g \in FramesOf(k)' : g.what \in {"left", "chunk"} =>
             \E j \in Machine : \E h \in FramesOf(j) : h.what \in {"left", "chunk"} /\ g.to = h.to
      BY <2>2, <2>4, <2>5
    <2>7. ToldAll => row'[Gateway].bridge \in {row[Gateway].bridge, route}
      <3>1. ToldAll => f.to = route
        BY <2>2, <2>4 DEF Routed, OnRoute
      <3>2. row'[Gateway].bridge = IF m = Gateway THEN f.to ELSE row[Gateway].bridge
        BY <1>1, <2>2, Apart
      <3> QED BY <3>1, <3>2
    <2> QED BY <1>1, <1>2, <2>6, <2>7, RoutedStays
  <1>6. CASE TakeThreadChunk(m)
    <2>1. \A k \in Machine : In(k)' \subseteq In(k) /\ up' = up
      BY <1>6, TakeEffect
    <2>2. \A k \in Machine : FramesOf(k)' \subseteq FramesOf(k)
      BY <2>1, NextFrames
    <2>3. PICK f \in In(m) : f.what = "chunk" /\ f.to = m /\ (row' = row \/ row' = [row EXCEPT ![m] = [bridge |-> m, agent |-> f.sid]])
      BY <1>6, TakeEffect
    <2>4. ToldAll => row'[Gateway].bridge \in {row[Gateway].bridge, route}
      <3>1. ToldAll => m = route
        BY <2>3, NextFrames DEF Routed, OnRoute
      <3>2. row'[Gateway].bridge \in {row[Gateway].bridge, m}
        <4>1. CASE row' = row
          BY <4>1
        <4>2. CASE row' = [row EXCEPT ![m] = [bridge |-> m, agent |-> f.sid]]
          BY <1>1, <4>2, Apart
        <4> QED BY <2>3, <4>1, <4>2
      <3> QED BY <3>1, <3>2
    <2> QED BY <1>1, <1>2, <2>2, <2>4, RoutedStays
  <1> QED BY <1>3, <1>4, <1>5, <1>6

LEMMA FaultsEffect ==
  ASSUME Custodial, Faults
  PROVE  /\ UNCHANGED <<chan, row, live>> /\ \A k \in Machine : In(k)' \subseteq In(k) /\ Out(k)' \subseteq Out(k)
         /\ \/ UNCHANGED <<route, notes>>
            \/ route' = row[Gateway].bridge /\ notes' = <<>> /\ (notes = <<>> \/ "forgotten" \in slips')
         /\ "left" \notin slips' => \A k \in Machine : \A f \in In(k) : f.what = "left" => f \in In(k)'
  <1>1. MoveTyped
    BY DEF Custodial
  <1>2. UNCHANGED <<chan, row, live>>
    BY DEF Faults, CutLink, RestartMachine, RestartGateway, machines
  <1>3. ASSUME NEW m \in Machine, CutLink(m)
        PROVE  /\ UNCHANGED <<route, notes>> /\ \A k \in Machine : In(k)' \subseteq In(k) /\ Out(k)' \subseteq Out(k)
               /\ "left" \notin slips' => \A k \in Machine : \A f \in In(k) : f.what = "left" => f \in In(k)'
    <2>1. PICK j \in 0 .. Len(down[m]) : /\ down' = [down EXCEPT ![m] = SubSeq(down[m], 1, j)]
                                         /\ slips' = slips \cup Costs({down[m][i] : i \in j + 1 .. Len(down[m])})
      BY <1>3 DEF CutLink
    <2>2. up' = up /\ UNCHANGED <<route, notes>>
      BY <1>3 DEF CutLink
    <2>3. down[m] \in Seq(Framed) /\ \A k \in Machine : down'[k] = IF k = m THEN SubSeq(down[m], 1, j) ELSE down[k]
      BY <1>1, <2>1 DEF MoveTyped
    <2>4. /\ PartOf(SubSeq(down[m], 1, j), down[m])
          /\ \A f \in ToSet(down[m]) : f \in ToSet(SubSeq(down[m], 1, j)) \/ f \in {down[m][i] : i \in j + 1 .. Len(down[m])}
      BY <2>3, Kept
    <2>5. \A k \in Machine : In(k)' \subseteq In(k) /\ Out(k)' \subseteq Out(k)
      BY <2>2, <2>3, <2>4, NextFrames DEF PartOf
    <2>6. ASSUME "left" \notin slips', NEW k \in Machine, NEW f \in In(k), f.what = "left"
          PROVE  f \in In(k)'
      <3>1. f \notin {down[m][i] : i \in j + 1 .. Len(down[m])}
        BY <2>1, <2>6 DEF Costs, Unless
      <3> QED BY <2>3, <2>4, <2>6, <3>1, NextFrames
    <2> QED BY <2>2, <2>5, <2>6
  <1>4. ASSUME NEW m \in Machine, RestartMachine(m)
        PROVE  /\ UNCHANGED <<route, notes>> /\ \A k \in Machine : In(k)' \subseteq In(k) /\ Out(k)' \subseteq Out(k)
               /\ "left" \notin slips' => \A k \in Machine : \A f \in In(k) : f.what = "left" => f \in In(k)'
    <2>1. /\ \A k \in Machine : down'[k] = IF k = m THEN <<>> ELSE down[k]
          /\ \A k \in Machine : up'[k] = IF k = m THEN <<>> ELSE up[k]
          /\ slips' = slips \cup Costs(FramesOf(m)) /\ UNCHANGED <<route, notes>>
      BY <1>1, <1>4 DEF RestartMachine, MoveTyped
    <2>2. \A k \in Machine : In(k)' = (IF k = m THEN {} ELSE In(k)) /\ Out(k)' = (IF k = m THEN {} ELSE Out(k))
      BY <2>1, NextFrames, Nothing
    <2>3. "left" \notin slips' => \A f \in In(m) : f.what # "left"
      BY <2>1, NextFrames DEF Costs, Unless
    <2> QED BY <2>1, <2>2, <2>3
  <1>5. ASSUME RestartGateway
        PROVE  /\ \A k \in Machine : In(k)' \subseteq In(k) /\ Out(k)' \subseteq Out(k)
               /\ route' = row[Gateway].bridge /\ notes' = <<>> /\ (notes = <<>> \/ "forgotten" \in slips')
               /\ "left" \notin slips' => \A k \in Machine : \A f \in In(k) : f.what = "left" => f \in In(k)'
    <2>1. /\ \A k \in Machine : down'[k] = <<>>
          /\ \A k \in Machine : up'[k] = IF k = Gateway THEN <<>> ELSE up[k]
          /\ route' = row[Gateway].bridge /\ notes' = <<>>
          /\ slips' = slips \cup Unless(notes = <<>>, "forgotten")
                       \cup Costs(UNION {ToSet(down[m]) : m \in Machine} \cup ToSet(up[Gateway]))
      BY <1>1, <1>5 DEF RestartGateway, MoveTyped
    <2>2. \A k \in Machine : In(k)' = {} /\ Out(k)' \subseteq Out(k)
      BY <2>1, NextFrames, Nothing
    <2>3. "left" \notin slips' => \A k \in Machine : \A f \in In(k) : f.what # "left"
      BY <2>1, NextFrames DEF Costs, Unless
    <2>4. notes = <<>> \/ "forgotten" \in slips'
      BY <2>1 DEF Unless
    <2> QED BY <2>1, <2>2, <2>3, <2>4
  <1> QED BY <1>2, <1>3, <1>4, <1>5 DEF Faults

LEMMA FaultsRouted ==
  ASSUME Custodial, Routed, Faults
  PROVE  Routed'
  <1>1. ToldAll' => ToldAll
    BY SlipsStay DEF Custodial, MoveNext
  <1>2. /\ row' = row /\ \A k \in Machine : In(k)' \subseteq In(k) /\ Out(k)' \subseteq Out(k)
        /\ \/ UNCHANGED <<route, notes>>
           \/ route' = row[Gateway].bridge /\ notes' = <<>> /\ (notes = <<>> \/ "forgotten" \in slips')
    BY FaultsEffect
  <1>3. SUFFICES ASSUME ToldAll' PROVE Noted' /\ OnRoute'
    BY DEF Routed
  <1>4. Noted /\ OnRoute /\ "forgotten" \notin slips'
    BY <1>1, <1>3 DEF Routed, ToldAll
  <1>5. UNCHANGED <<route, notes>>
    BY <1>2, <1>4 DEF Noted
  <1>6. Noted'
    BY <1>2, <1>4, <1>5 DEF Noted
  <1>7. \A k \in Machine : FramesOf(k)' \subseteq FramesOf(k)
    BY <1>2, NextFrames
  <1> QED BY <1>4, <1>5, <1>6, <1>7 DEF OnRoute

\* (RepointChannel, AssignProject, Relink, and no step)
LEMMA OthersRouted ==
  ASSUME Custodial, Routed, Owner \/ (\E m \in Machine : Relink(m)) \/ UNCHANGED moveVars
  PROVE  Routed'
  <1>1. ToldAll' => ToldAll
    BY SlipsStay DEF Custodial, MoveNext
  <1>2. UNCHANGED <<route, notes, down, up, row>>
    BY DEF Owner, RepointChannel, AssignProject, Relink, moveVars, gateway, links, machines
  <1>3. \A k \in Machine : FramesOf(k)' = FramesOf(k)
    BY <1>2, NextFrames
  <1> QED BY <1>1, <1>2, <1>3, RoutedStays

LEMMA RoutedKept ==
  ASSUME Custodial, Routed, [MoveNext]_moveVars
  PROVE  Routed'
  <1>1. ASSUME NEW mention \in BOOLEAN, OnEvent(mention) PROVE Routed'
    BY <1>1, EventRouted
  <1>2. ASSUME Owner \/ (\E m \in Machine : Relink(m)) \/ UNCHANGED moveVars PROVE Routed'
    BY <1>2, OthersRouted
  <1>3. ASSUME NoteThreadRoutes PROVE Routed'
    BY <1>3, NoteRouted
  <1>4. ASSUME Works PROVE Routed'
    BY <1>4, MoveRouted, MachineRouted DEF Works
  <1>5. ASSUME Faults PROVE Routed'
    BY <1>5, FaultsRouted
  <1> QED BY <1>1, <1>2, <1>3, <1>4, <1>5 DEF MoveNext

-----------------------------------------------------------------------------
(* Where the thread's agents run                                              *)

\* A step that leaves the agents alone, adds no frame and loses no let-go note
LEMMA AloneStays ==
  ASSUME Alone, Quiet' => Quiet /\ UNCHANGED route, UNCHANGED <<chan, row, live>>,
         \A k \in Machine : In(k)' \subseteq In(k) /\ Out(k)' \subseteq Out(k),
         Quiet' => \A k \in Machine : \A f \in In(k) : f.what = "left" => f \in In(k)'
  PROVE  Alone'
  <1>1. SUFFICES ASSUME Quiet' PROVE (NotYet /\ ByRow /\ EventsAim /\ EventsAlone /\ AgentGone /\ AtHome)'
    BY DEF Alone
  <1>2. NotYet /\ ByRow /\ EventsAim /\ EventsAlone /\ AgentGone /\ AtHome
    BY <1>1 DEF Alone
  <1>3. UNCHANGED <<chan, route, row, live>> /\ \A k \in Machine : FramesOf(k)' \subseteq FramesOf(k)
    BY <1>1, NextFrames
  <1>4. (NotYet /\ ByRow)'
    BY <1>2, <1>3 DEF NotYet, ByRow
  <1>5. EventsAim'
    BY <1>2, <1>3 DEF EventsAim, Destination
  <1>6. EventsAlone'
    BY <1>2, <1>3 DEF EventsAlone
  <1>7. AgentGone'
    BY <1>2, <1>3 DEF AgentGone
  <1>8. AtHome'
    <2>1. CASE \E m \in Machine : \E f \in In(m) : f.what = "left"
      <3>1. \E m \in Machine : \E f \in In(m)' : f.what = "left"
        BY <1>1, <2>1
      <3> QED BY <3>1 DEF AtHome
    <2>2. CASE \A k \in Machine : live[k] # {} => k = route
      BY <1>3, <2>2 DEF AtHome
    <2> QED BY <1>2, <2>1, <2>2 DEF AtHome
  <1> QED BY <1>4, <1>5, <1>6, <1>7, <1>8

\* No agent of the thread runs anywhere, and no event is under way
LEMMA NobodyRuns ==
  ASSUME Quiet' => /\ route' # None /\ \A k \in Machine : live'[k] = {} /\ \A f \in In(k)' : f.what # "event"
  PROVE  Alone'
  <1>1. SUFFICES ASSUME Quiet' PROVE (NotYet /\ ByRow /\ EventsAim /\ EventsAlone /\ AgentGone /\ AtHome)'
    BY DEF Alone
  <1>2. route' # None /\ \A k \in Machine : live'[k] = {} /\ \A f \in In(k)' : f.what # "event"
    BY <1>1
  <1>3. (NotYet /\ ByRow)'
    BY <1>2 DEF NotYet, ByRow
  <1>4. (EventsAim /\ EventsAlone)'
    BY <1>2 DEF EventsAim, EventsAlone
  <1>5. (AgentGone /\ AtHome)'
    BY <1>2 DEF AgentGone, AtHome
  <1> QED BY <1>3, <1>4, <1>5

\* With an event about, or a frame of a move, there is nothing of the other sort
LEMMA EventsOnly ==
  ASSUME MoveTyped, EventsAlone, NEW m \in Machine, NEW f \in In(m), f.what = "event"
  PROVE  \A k \in Machine : \A g \in FramesOf(k) : g.what = "event"
  BY DEF EventsAlone

LEMMA NoEventWith ==
  ASSUME EventsAlone, NEW m \in Machine, NEW g \in FramesOf(m), g.what \in {"left", "chunk"}
  PROVE  \A k \in Machine : \A f \in In(k) : f.what # "event"
  BY DEF EventsAlone

LEMMA EventAlone ==
  ASSUME Custodial, Alone, NEW mention \in BOOLEAN, OnEvent(mention)
  PROVE  Alone'
  <1>1. MoveTyped /\ MoveTyped' /\ (Quiet' => Quiet)
    BY EventCustody, SlipsStay DEF Custodial, MoveNext
  <1>2. Destination \in Machine /\ Posted(mention) \in Framed /\ Posted(mention).what = "event" /\ Posted(mention).mention = mention
    BY <1>1, Apart DEF Destination, Posted, Framed, MoveTyped
  <1>3. /\ down' = Sent(down, Destination, Posted(mention)) /\ down \in [Machine -> Seq(Framed)]
        /\ UNCHANGED <<chan, up, row, live>>
    BY <1>1 DEF OnEvent, machines, MoveTyped
  <1>4. \A k \in Machine : In(k)' = IF k = Destination /\ Reaches(Destination) THEN In(k) \cup {Posted(mention)} ELSE In(k)
    <2>1. \A k \in Machine : ToSet(down'[k]) = IF k = Destination /\ Reaches(Destination) THEN ToSet(down[k]) \cup {Posted(mention)} ELSE ToSet(down[k])
      BY ONLY <1>2, <1>3, SentIs
    <2> QED BY <2>1, NextFrames
  <1>5. \A k \in Machine : Out(k)' = Out(k)
    BY <1>3, NextFrames
  <1>6. SUFFICES ASSUME Quiet' PROVE (NotYet /\ ByRow /\ EventsAim /\ EventsAlone /\ AgentGone /\ AtHome)'
    BY DEF Alone
  <1>7. NotYet /\ ByRow /\ EventsAim /\ EventsAlone /\ AgentGone /\ AtHome
    BY <1>1, <1>6 DEF Alone
  <1>8. \A k \in Machine : \A f \in FramesOf(k) : f.what = "event"
    <2>1. ~UnderWay
      BY <1>6 DEF OnEvent, Unless, Quiet
    <2> QED BY <1>1, <2>1, FramesAre DEF UnderWay
  <1>9. \A k \in Machine : \A f \in FramesOf(k)' : f.what = "event"
    BY <1>2, <1>4, <1>5, <1>8, NextFrames
  <1>10. /\ route' = route \/ (route = None /\ route' = Destination)
         /\ mention => route' = Destination
         /\ Destination' = Destination
    BY <1>2, <1>3, Apart DEF OnEvent, Destination
  <1>11. (NotYet /\ ByRow)'
    BY <1>3, <1>7, <1>10 DEF NotYet, ByRow
  <1>12. EventsAim'
    <2>1. SUFFICES ASSUME NEW k \in Machine, NEW f \in In(k)', f.what = "event"
                   PROVE  k = Destination' /\ (f.mention => route' = k)
      BY DEF EventsAim
    <2>2. CASE f \in In(k)
      BY <1>7, <1>10, <2>1, <2>2, Apart DEF EventsAim
    <2>3. CASE f \notin In(k)
      BY <1>2, <1>4, <1>10, <2>1, <2>3
    <2> QED BY <2>2, <2>3
  <1>13. EventsAlone'
    BY <1>9 DEF EventsAlone
  <1>14. AgentGone'
    BY <1>9, NextFrames DEF AgentGone
  <1>15. AtHome'
    <2>1. \A k \in Machine : live[k] # {} => k = route
      BY <1>7, <1>8, NextFrames DEF AtHome
    <2>2. \A k \in Machine : live'[k] # {} => k = route'
      BY <1>3, <1>7, <1>10, <2>1 DEF NotYet
    <2> QED BY <2>2 DEF AtHome
  <1> QED BY <1>11, <1>12, <1>13, <1>14, <1>15

\* What its channel hands to the loop is what there is of its kind
LEMMA NoEventsIs ==
  ASSUME MoveTyped, NoEvents
  PROVE  \A k \in Machine : \A f \in In(k) : f.what # "event"
  BY FirstIs DEF NoEvents

LEMMA OwnerAlone ==
  ASSUME Custodial, Alone, Owner
  PROVE  Alone'
  <1>1. MoveTyped /\ (Quiet' => Quiet)
    BY SlipsStay DEF Custodial, MoveNext
  <1>2. UNCHANGED <<route, row, live, down, up>>
    BY DEF Owner, RepointChannel, AssignProject, links, machines
  <1>3. \A k \in Machine : In(k)' = In(k) /\ Out(k)' = Out(k) /\ FramesOf(k)' = FramesOf(k)
    BY <1>2, NextFrames
  <1>4. CASE chan' = chan
    BY <1>1, <1>2, <1>3, <1>4, AloneStays
  <1>5. CASE Quiet' => NoEvents
    <2>1. SUFFICES ASSUME Quiet' PROVE (NotYet /\ ByRow /\ EventsAim /\ EventsAlone /\ AgentGone /\ AtHome)'
      BY DEF Alone
    <2>2. NotYet /\ ByRow /\ EventsAim /\ EventsAlone /\ AgentGone /\ AtHome
      BY <1>1, <2>1 DEF Alone
    <2>3. \A k \in Machine : \A f \in In(k)' : f.what # "event"
      BY <1>1, <1>3, <1>5, <2>1, NoEventsIs
    <2>4. (EventsAim /\ EventsAlone)'
      BY <2>3 DEF EventsAim, EventsAlone
    <2>5. (NotYet /\ ByRow)'
      BY <1>2, <2>2 DEF NotYet, ByRow
    <2>6. (AgentGone /\ AtHome)'
      BY <1>2, <1>3, <2>2 DEF AgentGone, AtHome
    <2> QED BY <2>4, <2>5, <2>6
  <1>6. chan' = chan \/ (Quiet' => NoEvents)
    BY DEF Owner, RepointChannel, AssignProject, Unless, Quiet
  <1> QED BY <1>4, <1>5, <1>6

LEMMA MoveAlone ==
  ASSUME Custodial, Alone, NEW b \in Machine, MoveThread(b)
  PROVE  Alone'
  <1>1. MoveTyped /\ Aimed /\ (Quiet' => Quiet)
    BY SlipsStay DEF Custodial, MoveNext, Works
  <1>2. UNCHANGED <<chan, up, row, live>>
    BY DEF MoveThread, machines
  <1>3. CASE UNCHANGED <<route, notes, down, slips>>
    <2>1. \A k \in Machine : In(k)' = In(k) /\ Out(k)' = Out(k)
      BY <1>2, <1>3, NextFrames
    <2> QED BY <1>1, <1>2, <1>3, <2>1, AloneStays
  <1>4. CASE route \notin {b, None} /\ route' = b /\ LetGo(route, b)
    <2>1. SUFFICES ASSUME Quiet' PROVE (NotYet /\ ByRow /\ EventsAim /\ EventsAlone /\ AgentGone /\ AtHome)'
      BY DEF Alone
    <2>2. ByRow /\ AtHome
      BY <1>1, <2>1 DEF Alone
    <2>3. ~UnderWay /\ NoEvents /\ Reaches(route)
      BY <1>4, <2>1 DEF LetGo, Unless, Quiet
    <2>4. route \in Machine /\ ThreadLeft(b) \in Framed /\ ThreadLeft(b).what = "left" /\ down \in [Machine -> Seq(Framed)]
          /\ down' = Sent(down, route, ThreadLeft(b))
      BY <1>1, <1>4 DEF ThreadLeft, Framed, MoveTyped, LetGo
    <2>5. \A k \in Machine : In(k)' = IF k = route /\ Reaches(route) THEN In(k) \cup {ThreadLeft(b)} ELSE In(k)
      <3>1. \A k \in Machine : ToSet(down'[k]) = IF k = route /\ Reaches(route) THEN ToSet(down[k]) \cup {ThreadLeft(b)} ELSE ToSet(down[k])
        BY ONLY <2>4, SentIs
      <3> QED BY <3>1, NextFrames
    <2>6. \A k \in Machine : In(k) = {} /\ Out(k) = {}
      <3>1. \A k \in Machine : \A f \in FramesOf(k) : f.what = "event"
        BY <1>1, <2>3, FramesAre DEF UnderWay
      <3>2. \A k \in Machine : \A f \in In(k) : f.what # "event"
        BY <1>1, <2>3, NoEventsIs
      <3> QED BY <1>1, <3>1, <3>2, NextFrames DEF Aimed
    <2>7. \A k \in Machine : \A f \in FramesOf(k)' : k = route /\ f.what = "left"
      BY <1>2, <2>4, <2>5, <2>6, NextFrames, SMTT(20)
    <2>8. (NotYet /\ ByRow)'
      BY <1>2, <1>4, <2>2, Apart DEF NotYet, ByRow
    <2>9. \A k \in Machine : In(k)' \subseteq FramesOf(k)'
      BY NextFrames
    <2>10. (EventsAim /\ EventsAlone)'
      BY <2>7, <2>9 DEF EventsAim, EventsAlone
    <2>11. AgentGone'
      <3>1. \A k \in Machine : live[k] # {} => k = route
        BY <2>2, <2>6 DEF AtHome
      <3> QED BY <1>2, <2>7, <2>9, <3>1 DEF AgentGone
    <2>12. AtHome'
      <3>1. \A k \in Machine : k = route => ThreadLeft(b) \in In(k)'
        BY <2>3, <2>5
      <3>2. \E k \in Machine : \E f \in In(k)' : f.what = "left"
        BY <2>4, <3>1
      <3> QED BY <3>2 DEF AtHome
    <2> QED BY <2>8, <2>10, <2>11, <2>12
  <1> QED BY <1>3, <1>4 DEF MoveThread

LEMMA NoteAlone ==
  ASSUME Custodial, Routed, Alone, NoteThreadRoutes
  PROVE  Alone'
  <1>1. MoveTyped /\ (Quiet' => Quiet)
    BY SlipsStay DEF Custodial, MoveNext
  <1>2. /\ UNCHANGED <<chan, route, down, up, live>> /\ notes # <<>>
        /\ row' = [row EXCEPT ![Gateway] = [bridge |-> Head(notes), agent |-> IF row[Gateway] = NoRow THEN "none" ELSE row[Gateway].agent]]
    BY DEF NoteThreadRoutes, links
  <1>3. SUFFICES ASSUME Quiet' PROVE (NotYet /\ ByRow /\ EventsAim /\ EventsAlone /\ AgentGone /\ AtHome)'
    BY DEF Alone
  <1>4. NotYet /\ ByRow /\ EventsAim /\ EventsAlone /\ AgentGone /\ AtHome
    BY <1>1, <1>3 DEF Alone
  <1>5. route # None
    <2>1. ToldAll
      BY <1>1, <1>3 DEF Quiet, ToldAll
    <2>2. notes[Len(notes)] = route
      BY <1>2, <2>1 DEF Routed, Noted
    <2>3. notes[Len(notes)] \in Machine
      BY <1>1, <1>2, LastNote DEF MoveTyped
    <2> QED BY <2>2, <2>3, Apart
  <1>6. \A k \in Machine : In(k)' = In(k) /\ Out(k)' = Out(k) /\ FramesOf(k)' = FramesOf(k)
    BY <1>2, NextFrames
  <1>7. ByRow'
    <2>1. \A k \in Machine : row'[k].agent = IF k = Gateway /\ row[k] = NoRow THEN "none" ELSE row[k].agent
      BY <1>1, <1>2, Apart DEF MoveTyped
    <2>2. \A k \in Machine : row[k] = NoRow => live[k] = {}
      <3>1. \A k \in Machine : live[k] \subseteq Sid /\ live[k] \subseteq {row[k].agent}
        BY <1>1, <1>4 DEF ByRow, MoveTyped
      <3>2. \A k \in Machine : row[k] = NoRow => row[k].agent \notin Sid
        BY Apart
      <3> QED BY <3>1, <3>2
    <2>3. \A k \in Machine : live[k] \subseteq {row'[k].agent}
      BY <1>4, <2>1, <2>2 DEF ByRow
    <2> QED BY <1>2, <2>3 DEF ByRow
  <1>8. NotYet'
    BY <1>2, <1>5 DEF NotYet
  <1>9. (EventsAim /\ EventsAlone)'
    BY <1>2, <1>4, <1>6 DEF EventsAim, EventsAlone, Destination
  <1>10. (AgentGone /\ AtHome)'
    BY <1>2, <1>4, <1>6 DEF AgentGone, AtHome
  <1> QED BY <1>7, <1>8, <1>9, <1>10

LEMMA InboundAlone ==
  ASSUME Custodial, Alone, NEW m \in Machine, OnInbound(m)
  PROVE  Alone'
  <1>1. MoveTyped /\ (Quiet' => Quiet) /\ row \in [Machine -> Entry] /\ live \in [Machine -> SUBSET Sid]
    BY SlipsStay DEF Custodial, MoveNext, Works, MoveTyped
  <1>2. UNCHANGED <<chan, route, up>> /\ \A k \in Machine : In(k)' \subseteq In(k)
    BY InboundEffect DEF gateway
  <1>3. PICK f \in In(m) :
          /\ f.what = "event"
          /\ \/ UNCHANGED machines
             \/ /\ f.mention \/ row[m] # NoRow
                /\ \E s \in Sid :
                      /\ row' = [row EXCEPT ![m].agent = s] /\ live' = [live EXCEPT ![m] = live[m] \cup {s}]
                      /\ s = row[m].agent \/ row[m].agent \notin Sid
    BY InboundEffect
  <1>4. \A k \in Machine : Out(k)' = Out(k)
    BY <1>2, NextFrames
  <1>5. SUFFICES ASSUME Quiet' PROVE (NotYet /\ ByRow /\ EventsAim /\ EventsAlone /\ AgentGone /\ AtHome)'
    BY DEF Alone
  <1>6. NotYet /\ ByRow /\ EventsAim /\ EventsAlone /\ AgentGone /\ AtHome
    BY <1>1, <1>5 DEF Alone
  <1>7. \A k \in Machine : \A g \in FramesOf(k) : g.what = "event"
    BY <1>1, <1>3, <1>6, EventsOnly
  <1>8. \A k \in Machine : \A g \in FramesOf(k)' : g.what = "event"
    BY <1>2, <1>4, <1>7, NextFrames
  <1>9. EventsAim'
    BY <1>2, <1>6 DEF EventsAim, Destination
  <1>10. (EventsAlone /\ AgentGone)'
    BY <1>8, NextFrames DEF EventsAlone, AgentGone
  <1>11. \A k \in Machine : live[k] # {} => k = route
    BY <1>6, <1>7, NextFrames DEF AtHome
  <1>12. CASE UNCHANGED machines
    <2>1. (NotYet /\ ByRow)'
      BY <1>2, <1>6, <1>12 DEF NotYet, ByRow, machines
    <2>2. AtHome'
      BY <1>2, <1>11, <1>12 DEF AtHome, machines
    <2> QED BY <1>9, <1>10, <2>1, <2>2
  <1>13. ASSUME f.mention \/ row[m] # NoRow, NEW s \in Sid, row' = [row EXCEPT ![m].agent = s],
                live' = [live EXCEPT ![m] = live[m] \cup {s}], s = row[m].agent \/ row[m].agent \notin Sid
         PROVE  (NotYet /\ ByRow /\ EventsAim /\ EventsAlone /\ AgentGone /\ AtHome)'
    <2>1. route = m
      <3>1. CASE f.mention
        BY <1>3, <1>6, <3>1 DEF EventsAim
      <3>2. CASE row[m] # NoRow
        BY <1>3, <1>6, <3>2 DEF EventsAim, Destination, NotYet
      <3> QED BY <1>13, <3>1, <3>2
    <2>2. /\ \A k \in Machine : row'[k].agent = IF k = m THEN s ELSE row[k].agent
          /\ \A k \in Machine : live'[k] = IF k = m THEN live[m] \cup {s} ELSE live[k]
      BY <1>1, <1>13 DEF Entry
    <2>3. live[m] \subseteq {s}
      BY <1>1, <1>6, <1>13 DEF ByRow
    <2>4. ByRow'
      <3>1. \A k \in Machine : live'[k] \subseteq {row'[k].agent}
        BY <1>6, <2>2, <2>3 DEF ByRow
      <3> QED BY <3>1 DEF ByRow
    <2>5. NotYet'
      BY <1>2, <2>1, Apart DEF NotYet
    <2>6. AtHome'
      <3>1. \A k \in Machine : live'[k] # {} => k = route'
        BY <1>2, <1>11, <2>1, <2>2
      <3> QED BY <3>1 DEF AtHome
    <2> QED BY <1>9, <1>10, <2>4, <2>5, <2>6
  <1> QED BY <1>3, <1>12, <1>13

\* (PassChunk, GiveUpThread, TakeThreadChunk) While the conversation travels, nobody runs it
LEMMA TravelAlone ==
  ASSUME Custodial, Routed, Alone, NEW m \in Machine, PassChunk(m) \/ GiveUpThread(m) \/ TakeThreadChunk(m)
  PROVE  Alone'
  <1>1. MoveTyped /\ (Quiet' => Quiet) /\ live \in [Machine -> SUBSET Sid]
    BY SlipsStay DEF Custodial, MoveNext, Works, MoveTyped
  <1>2. route' = route
    BY DEF PassChunk, GiveUpThread, TakeThreadChunk, gateway
  <1>3. SUFFICES ASSUME Quiet'
                 PROVE  route' # None /\ \A k \in Machine : live'[k] = {} /\ \A f \in In(k)' : f.what # "event"
    BY NobodyRuns
  <1>4. EventsAlone /\ AgentGone /\ ByRow /\ OnRoute
    BY <1>1, <1>3 DEF Alone, Routed, Quiet, ToldAll
  <1>5. ASSUME NEW f \in FramesOf(m), f.what \in {"left", "chunk"}
        PROVE  route # None /\ \A k \in Machine : \A g \in In(k) : g.what # "event"
    <2>1. f.to \in Machine
      BY <1>1, <1>5, FramesAre
    <2>2. route # None
      BY <1>4, <1>5, <2>1, Apart DEF OnRoute
    <2>3. \A k \in Machine : \A g \in In(k) : g.what # "event"
      BY <1>4, <1>5, NoEventWith
    <2> QED BY <2>2, <2>3
  <1>6. CASE PassChunk(m)
    <2>1. /\ live' = live /\ Head(up[m]) \in FramesOf(m) /\ Head(up[m]).what = "chunk"
          /\ \A k \in Machine : In(k)' \subseteq In(k) \cup {Head(up[m])}
      BY <1>6, PassEffect, NextFrames DEF machines
    <2> QED BY <1>2, <1>4, <1>5, <2>1 DEF AgentGone
  <1>7. CASE GiveUpThread(m)
    <2>1. \A k \in Machine : In(k)' \subseteq In(k)
      BY <1>7, GiveUpEffect
    <2>2. PICK f \in In(m) : f.what = "left" /\ live' = [live EXCEPT ![m] = live[m] \ {row[m].agent}]
      BY <1>7, GiveUpEffect
    <2>3. f \in FramesOf(m)
      BY NextFrames
    <2>4. \A k \in Machine : live'[k] = {}
      BY <1>1, <1>4, <2>2 DEF AgentGone, ByRow
    <2> QED BY <1>2, <1>5, <2>1, <2>2, <2>3, <2>4
  <1>8. CASE TakeThreadChunk(m)
    <2>1. live' = live /\ \A k \in Machine : In(k)' \subseteq In(k)
      BY <1>8, TakeEffect
    <2>2. PICK f \in In(m) : f.what = "chunk"
      BY <1>8, TakeEffect
    <2>3. f \in FramesOf(m)
      BY NextFrames
    <2> QED BY <1>2, <1>4, <1>5, <2>1, <2>2, <2>3 DEF AgentGone
  <1> QED BY <1>6, <1>7, <1>8

LEMMA FaultsAlone ==
  ASSUME Custodial, Routed, Alone, Faults
  PROVE  Alone'
  <1>1. Quiet' => Quiet
    BY SlipsStay DEF Custodial, MoveNext
  <1>2. /\ UNCHANGED <<chan, row, live>> /\ \A k \in Machine : In(k)' \subseteq In(k) /\ Out(k)' \subseteq Out(k)
        /\ \/ UNCHANGED <<route, notes>>
           \/ route' = row[Gateway].bridge /\ notes' = <<>> /\ (notes = <<>> \/ "forgotten" \in slips')
        /\ "left" \notin slips' => \A k \in Machine : \A f \in In(k) : f.what = "left" => f \in In(k)'
    BY FaultsEffect
  <1>3. Quiet' => UNCHANGED route /\ \A k \in Machine : \A f \in In(k) : f.what = "left" => f \in In(k)'
    <2>1. SUFFICES ASSUME Quiet' PROVE UNCHANGED route /\ \A k \in Machine : \A f \in In(k) : f.what = "left" => f \in In(k)'
      OBVIOUS
    <2>2. "left" \notin slips' /\ "forgotten" \notin slips'
      BY <2>1 DEF Quiet
    <2>3. Noted
      BY <1>1, <2>1 DEF Routed, Quiet, ToldAll
    <2> QED BY <1>2, <2>2, <2>3 DEF Noted
  <1> QED BY <1>1, <1>2, <1>3, AloneStays

LEMMA RelinkAlone ==
  ASSUME Custodial, Alone, (\E m \in Machine : Relink(m)) \/ UNCHANGED moveVars
  PROVE  Alone'
  <1>1. Quiet' => Quiet
    BY SlipsStay DEF Custodial, MoveNext
  <1>2. UNCHANGED <<chan, route, row, live, down, up>>
    BY DEF Relink, moveVars, gateway, links, machines
  <1>3. \A k \in Machine : In(k)' = In(k) /\ Out(k)' = Out(k)
    BY <1>2, NextFrames
  <1> QED BY <1>1, <1>2, <1>3, AloneStays

LEMMA AloneKept ==
  ASSUME Custodial, Routed, Alone, [MoveNext]_moveVars
  PROVE  Alone'
  <1>1. ASSUME NEW mention \in BOOLEAN, OnEvent(mention) PROVE Alone'
    BY <1>1, EventAlone
  <1>2. ASSUME Owner PROVE Alone'
    BY <1>2, OwnerAlone
  <1>3. ASSUME NoteThreadRoutes PROVE Alone'
    BY <1>3, NoteAlone
  <1>4. ASSUME Works PROVE Alone'
    BY <1>4, MoveAlone, InboundAlone, TravelAlone DEF Works
  <1>5. ASSUME (\E m \in Machine : Relink(m)) \/ UNCHANGED moveVars PROVE Alone'
    BY <1>5, RelinkAlone
  <1>6. ASSUME Faults PROVE Alone'
    BY <1>6, FaultsAlone
  <1> QED BY <1>1, <1>2, <1>3, <1>4, <1>5, <1>6 DEF MoveNext

LEMMA MoveStarts ==
  ASSUME MoveInit
  PROVE  MoveInv
  <1>1. Custodial /\ \A m \in Machine : FramesOf(m) = {} /\ In(m) = {} /\ Out(m) = {}
    BY CustodyFromTheStart
  <1>2. notes = <<>> /\ route = None /\ \A m \in Machine : row[m] = NoRow /\ live[m] = {}
    BY DEF MoveInit
  <1>3. Routed
    BY <1>1, <1>2, Apart DEF Routed, Noted, OnRoute
  <1>4. Alone
    BY <1>1, <1>2 DEF Alone, NotYet, ByRow, EventsAim, EventsAlone, AgentGone, AtHome
  <1> QED BY <1>1, <1>3, <1>4 DEF MoveInv

-----------------------------------------------------------------------------
(* The theorems                                                               *)

LEMMA HolderIsOne ==
  ASSUME MoveInv
  PROVE  OneHolder
  <1>1. HeldAlone
    BY DEF MoveInv, Custodial
  <1>2. Cardinality(Holders(First)) < 2
    <2>1. CASE Holders(First) = {}
      BY <2>1, FS_EmptySet
    <2>2. ASSUME NEW m \in Holders(First)
          PROVE  Cardinality(Holders(First)) = 1
      <3>1. Holders(First) = {m}
        BY <1>1 DEF Holders, HeldAlone
      <3> QED BY <3>1, FS_Singleton
    <2> QED BY <2>1, <2>2
  <1>3. Holders(First) # {} => Carried(First) = {}
    BY <1>1 DEF Holders, Carried, HeldAlone, Slice
  <1> QED BY <1>2, <1>3 DEF OneHolder

LEMMA RunsAlone ==
  ASSUME MoveInv
  PROVE  OneAgent
  <1> DEFINE A == {a \in Machine \X Sid : a[2] \in live[a[1]]}
  <1>1. SUFFICES ASSUME Quiet PROVE Cardinality(A) < 2
    BY DEF OneAgent, Quiet
  <1>2. ByRow /\ AgentGone /\ AtHome
    BY <1>1 DEF MoveInv, Alone
  <1>3. \A j, k \in Machine : live[j] # {} /\ live[k] # {} => j = k
    BY <1>2 DEF AgentGone, AtHome
  <1>4. \A a, c \in A : a = c
    <2>1. SUFFICES ASSUME NEW j \in Machine, NEW s \in Sid, s \in live[j], NEW k \in Machine, NEW t \in Sid, t \in live[k]
                   PROVE  j = k /\ s = t
      OBVIOUS
    <2>2. j = k
      BY <1>3, <2>1
    <2> QED BY <1>2, <2>1, <2>2 DEF ByRow
  <1> HIDE DEF A
  <1>5. CASE A = {}
    BY <1>5, FS_EmptySet
  <1>6. ASSUME NEW a \in A
        PROVE  Cardinality(A) = 1
    <2>1. A = {a}
      BY <1>4
    <2> QED BY <2>1, FS_Singleton
  <1> QED BY <1>5, <1>6

LEMMA TypedIsOK ==
  ASSUME MoveInv
  PROVE  MoveTypeOK
  <1>1. MoveTyped /\ Aimed
    BY DEF MoveInv, Custodial
  <1>2. ASSUME NEW m \in Machine
        PROVE  /\ row[m].bridge \in Machine \cup {None} /\ row[m].agent \in Sid \cup {"none", "no row"}
               /\ live[m] \subseteq Sid
               /\ \A s \in Sid : file[m][s] \in Seq(1 .. Slices)
    <2>1. row[m] \in Entry
      BY <1>1 DEF MoveTyped
    <2> QED BY <1>1, <2>1 DEF MoveTyped, Transcripts, Entry
  <1>3. ASSUME NEW m \in Machine, NEW i \in DOMAIN up[m]
        PROVE  up[m][i].what = "chunk" /\ up[m][i].to # m
    BY <1>1 DEF Aimed, Out, ToSet
  <1>4. counts.posts \in 0 .. MaxPosts /\ counts.moves \in 0 .. MaxMoves /\ counts.faults \in 0 .. MaxFaults
    BY <1>1 DEF MoveTyped
  <1> QED BY <1>1, <1>2, <1>3, <1>4 DEF MoveTypeOK, MoveTyped

LEMMA WellKeptIs ==
  ASSUME MoveInv
  PROVE  WellKept
  <1>1. RouteIsWritten
    BY DEF MoveInv, Routed, ToldAll, Noted, RouteIsWritten
  <1> QED BY <1>1, HolderIsOne, TypedIsOK DEF WellKept

\* What the moves rest on, always: the custody of the conversation, the route
\* and the thread's agents (on_event, move_thread, give_up_thread,
\* take_thread_chunk, the restarts).
THEOREM MovesAreSafe == MoveSpec => []MoveInv
  <1>1. MoveInit => MoveInv
    BY MoveStarts
  <1>2. MoveInv /\ [MoveNext]_moveVars => MoveInv'
    BY CustodyKept, RoutedKept, AloneKept DEF MoveInv
  <1> QED BY <1>1, <1>2, PTL DEF MoveSpec

\* One machine at most has the conversation, and none while it travels; the
\* thread's machine is on file once it was written down (give_up_thread,
\* take_thread_chunk, note_thread_routes).
THEOREM AlwaysWellKept == MoveSpec => []WellKept
  <1>1. MoveInv => WellKept
    BY WellKeptIs
  <1> QED BY <1>1, MovesAreSafe, PTL

\* Whatever the moves, one agent at most runs for the thread, over all machines
\* (OnInbound, GiveUpThread)
THEOREM OneAgentAlways == MoveSpec => []OneAgent
  <1>1. MoveInv => OneAgent
    BY RunsAlone
  <1> QED BY <1>1, MovesAreSafe, PTL
=============================================================================
