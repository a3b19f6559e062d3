-------------------------------- MODULE Move --------------------------------
(***************************************************************************)
(* Which machine runs a thread, and how its conversation is moved to       *)
(* another one (gateway.rs, bridge.rs).  The gateway keeps the thread's    *)
(* machine in memory and has its own Bridge write it down; events follow   *)
(* it.  `cd <machine>:<path>` turns the thread's messages around at once,  *)
(* and tells the machine that had it to let go; that one ends its agent    *)
(* and sends the transcript after it, slice by slice, through the gateway. *)
(*                                                                         *)
(* One thread.  A machine's link delivers in order, but events, let-go     *)
(* notes and slices reach the loop by channels of their own, and the loop  *)
(* takes from any of them.  A conversation is told by its session.         *)
(***************************************************************************)
EXTENDS Naturals, Sequences, FiniteSets, SequencesExt

CONSTANTS
    Machine,   \* the machines
    Gateway,   \* the machine that is the gateway as well
    None,      \* no machine
    Slices,    \* how many frames a conversation takes
    MaxPosts,  \* bound on the events in the thread
    MaxMoves,  \* bound on the times its owner moves it, or repoints the channel
    MaxFaults  \* bound on cut links and restarts

ASSUME MoveGatewayAssumption == Gateway \in Machine /\ None \notin Machine
ASSUME MoveNamesAssumption == {"first", "none", "no row"} \cap Machine = {}
ASSUME MoveBoundAssumption == Slices \in Nat \ {0} /\ {MaxPosts, MaxMoves, MaxFaults} \subseteq Nat

VARIABLES
    chan,       \* Access.routes: the channel's machine
    route,      \* Fleet.thread_routes: the thread's machine, or None
    notes,      \* RouteNotes for the gateway's own Bridge to write down
    asks,       \* machines whose answer about the folder is on its way
    connected,  \* the links that are up
    down, up,   \* frames to a machine, and from it
    row,        \* the thread's row in each machine's threads.json
    live,       \* the thread's agents that run on each machine
    file,       \* the transcripts in place
    partial,    \* those that are arriving
    counts,     \* posts, moves and faults so far
    slips       \* what came in a move's way: see Slip

gateway == <<chan, route, notes, asks>>
links == <<connected, down, up>>
machines == <<row, live, file, partial>>
moveVars == <<gateway, links, machines, counts, slips>>

\* The first conversation of the thread, and one per machine that started over
First == "first"
Sid == {First} \cup Machine
Whole == [i \in 1 .. Slices |-> i]
NoRow == [bridge |-> None, agent |-> "no row"]
\* left: a let-go note was lost; slice: a slice was lost; refused: a conversation
\* of that name was there; overlap: a move began before the last was through;
\* crossed: an event and a move were under way at once;
\* forgotten: the gateway went down before its Bridge wrote the machine down
Slip == {"left", "slice", "refused", "overlap", "crossed", "forgotten"}

Posted(mention) == [what |-> "event", mention |-> mention]
ThreadLeft(b) == [what |-> "left", to |-> b]
ThreadChunk(b, s, i, d, last) ==
    [what |-> "chunk", to |-> b, sid |-> s, seq |-> i, data |-> d, last |-> last]

MoveTypeOK ==
    /\ chan \in Machine /\ route \in Machine \cup {None}
    /\ notes \in Seq(Machine) /\ asks \subseteq Machine
    /\ connected \subseteq Machine
    /\ \A m \in Machine :
          /\ row[m].bridge \in Machine \cup {None} /\ row[m].agent \in Sid \cup {"none", "no row"}
          /\ live[m] \subseteq Sid
          /\ \A s \in Sid : file[m][s] \in Seq(1 .. Slices)
          /\ \A i \in DOMAIN up[m] : up[m][i].what = "chunk" /\ up[m][i].to # m
    /\ counts.posts \in 0 .. MaxPosts /\ counts.moves \in 0 .. MaxMoves /\ counts.faults \in 0 .. MaxFaults
    /\ slips \subseteq Slip

MoveInit ==
    /\ chan = Gateway /\ route = None /\ notes = <<>> /\ asks = {}
    /\ connected = Machine
    /\ down = [m \in Machine |-> <<>>] /\ up = [m \in Machine |-> <<>>]
    /\ row = [m \in Machine |-> NoRow]
    /\ live = [m \in Machine |-> {}]
    /\ file = [m \in Machine |-> [s \in Sid |-> <<>>]]
    /\ partial = file
    /\ counts = [posts |-> 0, moves |-> 0, faults |-> 0]
    /\ slips = {}

-----------------------------------------------------------------------------
(* Where things are                                                        *)

FramesOf(m) == ToSet(down[m]) \cup ToSet(up[m])
\* Somebody is still to let go of the thread, or slices are on their way
UnderWay == \E m \in Machine : \E f \in FramesOf(m) : f.what \in {"left", "chunk"}
Unless(ok, what) == IF ok THEN {} ELSE {what}

\* The first frame of a kind: what its channel hands to the loop
FirstOf(m, what) == SelectInSeq(down[m], LAMBDA f : f.what = what)
NoEvents == \A m \in Machine : FirstOf(m, "event") = 0

\* Sent to a machine, itself included; FALSE costs the frame
Reaches(m) == m \in connected
Sent(q, m, f) == IF Reaches(m) THEN [q EXCEPT ![m] = Append(@, f)] ELSE q

-----------------------------------------------------------------------------
(* The gateway                                                             *)

\* Delivery::decide: the thread's own machine wins over its channel's
Destination == IF route = None THEN chan ELSE route

\* on_event: where it goes is remembered once the bot is brought in.  A machine
\* that is away costs the message, and that is said
OnEvent(mention) ==
    /\ counts.posts < MaxPosts /\ counts' = [counts EXCEPT !.posts = @ + 1]
    /\ IF route = None /\ mention
       THEN route' = Destination /\ notes' = Append(notes, Destination)
       ELSE UNCHANGED <<route, notes>>
    /\ down' = Sent(down, Destination, Posted(mention))
    /\ slips' = slips \cup Unless(~UnderWay, "crossed")
    /\ UNCHANGED <<chan, asks, connected, up, machines>>

\* `route <machine>`: the channel's next thread starts there
RepointChannel(b) ==
    /\ counts.moves < MaxMoves /\ counts' = [counts EXCEPT !.moves = @ + 1]
    /\ b \in connected /\ chan' = b
    /\ slips' = slips \cup Unless(NoEvents, "crossed")
    /\ UNCHANGED <<route, notes, asks, links, machines>>

\* assign_project: the machine is asked whether it has the folder
AssignProject(b) ==
    /\ route # None /\ b \in connected /\ b \notin asks
    /\ counts.moves < MaxMoves /\ counts' = [counts EXCEPT !.moves = @ + 1]
    /\ asks' = asks \cup {b}
    /\ UNCHANGED <<chan, route, notes, links, machines, slips>>

\* mutant: the machine that had the thread is not told
LetGo_Silent(old, b) == UNCHANGED <<down, slips>>

LetGo(old, b) ==
    /\ down' = Sent(down, old, ThreadLeft(b))
    /\ slips' = slips \cup Unless(Reaches(old), "left") \cup Unless(~UnderWay, "overlap")
                  \cup Unless(NoEvents, "crossed")

\* on_project_set, move_thread: the folder is there or it is not; then the
\* thread's messages go to the new machine, and the old one is to let go
MoveThread(b) ==
    /\ b \in asks /\ asks' = asks \ {b}
    /\ \/ UNCHANGED <<route, notes, down, slips>>
       \/ /\ route \notin {b, None}
          /\ route' = b /\ notes' = Append(notes, b)
          /\ LetGo(route, b)
    /\ UNCHANGED <<chan, connected, up, machines, counts>>

\* A slice is passed along unread
PassChunk(m) ==
    /\ up[m] # <<>> /\ Reaches(m) /\ up' = [up EXCEPT ![m] = Tail(@)]
    /\ LET f == Head(up[m]) IN
       /\ down' = Sent(down, f.to, f)
       /\ slips' = slips \cup Unless(Reaches(f.to), "slice")
    /\ UNCHANGED <<gateway, connected, machines, counts>>

\* note_thread_routes, in the gateway's own Bridge
NoteThreadRoutes ==
    /\ notes # <<>> /\ notes' = Tail(notes)
    /\ row' = [row EXCEPT ![Gateway] =
                 [bridge |-> Head(notes), agent |-> IF @ = NoRow THEN "none" ELSE @.agent]]
    /\ UNCHANGED <<chan, route, asks, links, live, file, partial, counts, slips>>

-----------------------------------------------------------------------------
(* A machine                                                               *)

\* A new agent: the thread's first, or one that starts over
NewSid(m) == IF \A k \in Machine : file[k][First] = <<>> /\ First \notin live[k] THEN First ELSE m

Runs(m, s) ==
    /\ live' = [live EXCEPT ![m] = @ \cup {s}]
    /\ file' = [file EXCEPT ![m][s] = IF @ = <<>> THEN Whole ELSE @]
    /\ row' = [row EXCEPT ![m].agent = s]

\* on_inbound: a mention, or a thread that has a row, gets in; with no agent in
\* the row a new one is started
OnInbound(m) ==
    /\ FirstOf(m, "event") # 0
    /\ LET f == down[m][FirstOf(m, "event")] IN
       /\ IF ~f.mention /\ row[m] = NoRow THEN UNCHANGED machines
          ELSE /\ IF row[m].agent \in Sid THEN Runs(m, row[m].agent) ELSE Runs(m, NewSid(m))
               /\ UNCHANGED partial
       /\ down' = [down EXCEPT ![m] = RemoveAt(@, FirstOf(m, "event"))]
    /\ UNCHANGED <<gateway, connected, up, counts, slips>>

\* send_thread_after: the transcript as it is, in order, the row with the first
Slicing(m, b) ==
    IF row[m].agent \notin Sid THEN <<>>
    ELSE LET s == row[m].agent IN
         [i \in 1 .. Len(file[m][s]) |-> ThreadChunk(b, s, i, file[m][s][i], i = Len(file[m][s]))]

\* mutant: the agent is left running
EndAgent_Runs(m) == live

EndAgent(m) == [live EXCEPT ![m] = @ \ {row[m].agent}]

\* mutant: the row keeps the agent
LeftRow_Keeps(m, b) == [row[m] EXCEPT !.bridge = b]

LeftRow(m, b) == [bridge |-> b, agent |-> "none"]

\* give_up_thread: the agent goes first, then the conversation is sent, then
\* the row keeps only where the thread went
GiveUpThread(m) ==
    /\ FirstOf(m, "left") # 0
    /\ LET b == down[m][FirstOf(m, "left")].to IN
       /\ live' = EndAgent(m)
       /\ up' = [up EXCEPT ![m] = @ \o Slicing(m, b)]
       /\ row' = [row EXCEPT ![m] = LeftRow(m, b)]
    /\ down' = [down EXCEPT ![m] = RemoveAt(@, FirstOf(m, "left"))]
    /\ UNCHANGED <<gateway, connected, file, partial, counts, slips>>

ArrivedRow(m, s) == [bridge |-> m, agent |-> s]

\* A conversation of that name is in the way: the first slice changes nothing
RefuseChunk(m, f) ==
    /\ f.seq = 1 /\ file[m][f.sid] # <<>>
    /\ slips' = slips \cup {"refused"}
    /\ UNCHANGED machines

\* mutant: every slice puts what there is in place
Completes_Always(f) == TRUE

Completes(f) == f.last

\* The last slice puts it in place, and the row comes after it
PlaceChunk(m, f) ==
    LET got == IF f.seq = 1 THEN <<f.data>> ELSE Append(partial[m][f.sid], f.data) IN
    /\ IF Completes(f)
       THEN /\ file' = [file EXCEPT ![m][f.sid] = got]
            /\ partial' = [partial EXCEPT ![m][f.sid] = <<>>]
            /\ row' = [row EXCEPT ![m] = ArrivedRow(m, f.sid)]
       ELSE partial' = [partial EXCEPT ![m][f.sid] = got] /\ UNCHANGED <<file, row>>
    /\ UNCHANGED <<live, slips>>

\* take_thread_chunk.  A thread that comes back to another folder finds nothing there
TakeThreadChunk(m) ==
    /\ FirstOf(m, "chunk") # 0
    /\ LET f == down[m][FirstOf(m, "chunk")] IN RefuseChunk(m, f) \/ PlaceChunk(m, f)
    /\ down' = [down EXCEPT ![m] = RemoveAt(@, FirstOf(m, "chunk"))]
    /\ UNCHANGED <<gateway, connected, up, counts>>

-----------------------------------------------------------------------------
(* Faults                                                                  *)

Fault == counts.faults < MaxFaults /\ counts' = [counts EXCEPT !.faults = @ + 1]

\* What is lost with these frames
Costs(fs) == Unless(\A f \in fs : f.what # "left", "left")
                \cup Unless(\A f \in fs : f.what # "chunk", "slice")

\* A link is cut: what the machine has not read is gone, what it has to say waits
CutLink(m) ==
    /\ Fault /\ m \in connected \ {Gateway} /\ connected' = connected \ {m}
    /\ \E k \in 0 .. Len(down[m]) :
          /\ down' = [down EXCEPT ![m] = SubSeq(@, 1, k)]
          /\ slips' = slips \cup Costs({down[m][i] : i \in k + 1 .. Len(down[m])})
    /\ asks' = asks \ {m}
    /\ UNCHANGED <<chan, route, notes, up, machines>>

Relink(m) ==
    /\ m \notin connected /\ connected' = connected \cup {m}
    /\ UNCHANGED <<gateway, down, up, machines, counts, slips>>

\* A machine goes down: its agents run on, its channels are gone
RestartMachine(m) ==
    /\ Fault /\ m # Gateway /\ connected' = connected \ {m}
    /\ down' = [down EXCEPT ![m] = <<>>] /\ up' = [up EXCEPT ![m] = <<>>]
    /\ slips' = slips \cup Costs(FramesOf(m))
    /\ asks' = asks \ {m}
    /\ UNCHANGED <<chan, route, notes, machines>>

\* The gateway goes down: it reads the threads' machines back from its rows
RestartGateway ==
    /\ Fault /\ connected' = {Gateway}
    /\ route' = row[Gateway].bridge /\ notes' = <<>> /\ asks' = {}
    /\ down' = [m \in Machine |-> <<>>] /\ up' = [up EXCEPT ![Gateway] = <<>>]
    /\ slips' = slips \cup Unless(notes = <<>>, "forgotten")
                  \cup Costs(UNION {ToSet(down[m]) : m \in Machine} \cup ToSet(up[Gateway]))
    /\ UNCHANGED <<chan, machines>>

-----------------------------------------------------------------------------
Owner == \E b \in Machine : RepointChannel(b) \/ AssignProject(b)
Works == \E m \in Machine :
    MoveThread(m) \/ PassChunk(m) \/ OnInbound(m) \/ GiveUpThread(m) \/ TakeThreadChunk(m)
Faults == RestartGateway \/ \E m \in Machine : CutLink(m) \/ RestartMachine(m)

MoveNext ==
    \/ \E mention \in BOOLEAN : OnEvent(mention)
    \/ Owner \/ NoteThreadRoutes \/ Works
    \/ \E m \in Machine : Relink(m)
    \/ Faults

MoveSpec == MoveInit /\ [][MoveNext]_moveVars

\* The loops take what reached them, the gateway answers and passes on, and a
\* machine dials until it is linked
MoveFairness ==
    /\ WF_moveVars(NoteThreadRoutes)
    /\ \A m \in Machine :
          /\ WF_moveVars(MoveThread(m)) /\ WF_moveVars(PassChunk(m)) /\ WF_moveVars(OnInbound(m))
          /\ WF_moveVars(GiveUpThread(m)) /\ WF_moveVars(TakeThreadChunk(m)) /\ WF_moveVars(Relink(m))

MoveFairSpec == MoveSpec /\ MoveFairness

-----------------------------------------------------------------------------
(* What it must keep                                                       *)

Holders(s) == {m \in Machine : row[m].agent = s}
Carried(s) == {f \in UNION {FramesOf(m) : m \in Machine} : f.what = "chunk" /\ f.sid = s}

\* The slices on their way to b, in order: from whom it came, and in b's link
Pipe(b) ==
    LET Of(q) == SelectSeq(q, LAMBDA f : f.what = "chunk" /\ f.sid = First /\ f.to = b)
    IN  FoldSet(LAMBDA m, acc : acc \o Of(up[m]), Of(down[b]), Machine)

\* What b would have of it once they are all there
Arriving(b) ==
    LET new == [i \in DOMAIN Pipe(b) |-> Pipe(b)[i].data]
    IN  IF Pipe(b) # <<>> /\ Head(Pipe(b)).seq = 1 THEN new ELSE partial[b][First] \o new

\* Where the thread's first conversation is: whole with the machine whose row
\* names it, or on its way
Place ==
    LET here == {m \in Holders(First) : file[m][First] = Whole}
        there == {b \in Machine : Pipe(b) # <<>> /\ Arriving(b) = Whole}
    IN  IF \A m \in Machine : file[m][First] = <<>> THEN [is |-> "unborn"]
        ELSE IF here # {} THEN [is |-> "at", machine |-> CHOOSE m \in here : TRUE]
        ELSE IF there # {} THEN [is |-> "on its way", machine |-> CHOOSE b \in there : TRUE]
        ELSE [is |-> "lost"]

\* One agent at most runs for the thread, over all machines and conversations.  Not promised when
\* an event crossed a move, two moves overlapped, or a machine was never told.
OneAgent ==
    slips \cap {"crossed", "overlap", "left", "forgotten"} = {} =>
        Cardinality({a \in Machine \X Sid : a[2] \in live[a[1]]}) < 2

OneHolder ==
    /\ Cardinality(Holders(First)) < 2
    /\ Holders(First) # {} => Carried(First) = {}

RouteIsWritten ==
    notes = <<>> /\ ~UnderWay /\ slips \cap {"overlap", "left", "forgotten"} = {} => row[Gateway].bridge = route

\* No two machines have the conversation, nor does one while its slices are
\* still on their way (give_up_thread: "two machines answering one conversation");
\* and what a restarted gateway would read is where the thread's events go now
\* (note_thread_routes).
WellKept == MoveTypeOK /\ OneHolder /\ RouteIsWritten

LostForAReason ==
    Place.is = "lost" =>
       \/ slips \cap {"slice", "refused"} # {}
       \/ \E m, k \in Machine : file[m][k] # <<>>

\* A conversation is in one place at a time, leaves it whole and arrives where
\* it was sent: a move is a step of Custody (give_up_thread, take_thread_chunk).
\* It is lost only with a slice, where one of its name was in the way, or once
\* the thread had begun another.
C == INSTANCE Custody WITH place <- Place
InOnePlace == C!Spec /\ []LostForAReason

\* Repointing the channel, or moving the thread, ends with the conversation at
\* the machine its events go to (Delivery::decide, move_thread).
MovesEnd == []<>(route = None \/ Place.is = "unborn" \/ Place = C!At(route) \/ slips # {})
=============================================================================
