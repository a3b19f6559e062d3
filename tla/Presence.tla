------------------------------ MODULE Presence ------------------------------
(***************************************************************************)
(* What a thread shows beside its agent's name: idle, working or waiting   *)
(* (turn.rs).  Three kinds of holder each keep a reason of their own -     *)
(* the turn, a person who was asked, a command that runs beside the loop - *)
(* and what they add up to is sent to Slack when it changes.  The turn's   *)
(* reason is taken away by its answer, or by the silence watch once        *)
(* nothing is owed any more.                                               *)
(*                                                                         *)
(* One thread.  The loop takes one event at a time; a command's end takes  *)
(* its reason under the book's lock and sends outside of it, and one task  *)
(* makes the calls to Slack in the order they were queued.                 *)
(***************************************************************************)
EXTENDS Naturals, Sequences

CONSTANTS
    MaxOwed,      \* bound on the requests that wait for an answer
    MaxWire,      \* bound on the calls queued for Slack
    MaxCommands,  \* bound on the commands run
    MaxFaults     \* bound on restarts and on calls that fail

ASSUME PresenceBoundAssumption == {MaxOwed, MaxWire, MaxCommands, MaxFaults} \subseteq Nat /\ MaxWire > 0

VARIABLES
    owed,      \* requests of the thread on the ledger
    stall,     \* Bridge.stall: the thread's silence watch
    prompt,    \* a prompt to a person is up
    reasons,   \* PresenceBook.reasons
    lastSent,  \* PresenceBook.last_sent
    command,   \* the task of a command: see CommandStage
    late,      \* what its end has yet to send
    wire,      \* the queue of status calls
    shown,     \* what Slack shows
    commands, faults,
    slipped    \* what is wrong just now: see Slips

book == <<reasons, lastSent, wire>>
vars == <<owed, stall, prompt, reasons, lastSent, command, late, wire, shown, commands, faults, slipped>>

Reason == {"turn", "perm", "command"}
Shows == {"idle", "working", "waiting"}
\* asked: silent on purpose (awaiting_perm); fired: the silence was noticed
StallStage == {"none", "watch", "fired", "asked"}
CommandStage == {"none", "running", "ending"}
\* What is wrong just now.  untended: requests were dropped with no watch to
\* notice; perm: a person's reason outlived its prompt; overtaken: the call queued
\* last is not the news sent last; lost: the call made last failed
Slips == {"untended", "perm", "overtaken", "lost"}

TypeOK ==
    /\ owed \in 0 .. MaxOwed
    /\ stall \in StallStage /\ prompt \in BOOLEAN
    /\ reasons \subseteq Reason /\ lastSent \in Shows \cup {"unknown"}
    /\ command \in CommandStage /\ late \in Shows \cup {"unknown"}
    /\ wire \in Seq(Shows) /\ Len(wire) <= MaxWire
    /\ shown \in Shows
    /\ commands \in 0 .. MaxCommands /\ faults \in 0 .. MaxFaults
    /\ slipped \subseteq Slips
    /\ command = "running" => "command" \in reasons

-----------------------------------------------------------------------------
(* The book                                                                *)

\* Waiting wins: a turn is always in flight when the agent stops to ask
PresenceOf(rs) == IF rs = {} THEN "idle" ELSE IF "perm" \in rs THEN "waiting" ELSE "working"

\* The reasons become rs, and Slack is told if that changes what it was told
Book(rs) ==
    /\ reasons' = rs /\ lastSent' = PresenceOf(rs)
    /\ IF lastSent = PresenceOf(rs) THEN UNCHANGED wire
       ELSE Len(wire) < MaxWire /\ wire' = Append(wire, PresenceOf(rs))

\* News that is sent makes good a call that came out of order
Resent(rs) == IF lastSent = PresenceOf(rs) THEN slipped ELSE slipped \ {"overtaken"}

\* A person's reason may be left with no watch waiting for the person; a turn's is
\* untended until something watches it or takes it away
Slipped(rs, st, n) ==
    {x \in Resent(rs) \cup {"perm"} :
        /\ x = "perm" => "perm" \in rs /\ st # "asked"
        /\ x = "untended" => "turn" \in rs /\ n = 0 /\ st = "none"}

Step(rs, st, n) ==
    /\ Book(rs) /\ stall' = st /\ owed' = n
    /\ slipped' = Slipped(rs, st, n)
    /\ UNCHANGED <<command, late, shown, commands, faults>>

Init ==
    /\ owed = 0 /\ stall = "none" /\ prompt = FALSE
    /\ reasons = {} /\ lastSent = "unknown"
    /\ command = "none" /\ late = "unknown"
    /\ wire = <<>> /\ shown = "idle"
    /\ commands = 0 /\ faults = 0 /\ slipped = {}

-----------------------------------------------------------------------------
(* The turn                                                                *)

\* touch_thread: no watch for a thread that owes nothing
Touched(n) == IF stall = "none" THEN IF n = 0 THEN "none" ELSE "watch"
              ELSE IF stall = "asked" THEN "asked" ELSE "watch"

\* A request is tracked and holds the thread; handed to the agent, or its
\* delivery fails, is queued, or is not meant for us
Serve ==
    /\ owed < MaxOwed
    /\ \E st \in {stall, Touched(owed + 1)} : Step(reasons \cup {"turn"}, st, owed + 1)
    /\ UNCHANGED prompt

\* A delivery landed, or a failed turn's requests were sent again
Handed ==
    /\ Touched(owed) # "none"
    /\ Step(reasons \cup {"turn"}, Touched(owed), owed)
    /\ UNCHANGED prompt

\* A hook: the agent is alive, which is not news for Slack
Hook == Step(reasons, Touched(owed), owed) /\ UNCHANGED prompt

\* on_disposition: the turn is over, whatever else is still owed
Answered ==
    /\ \E n \in 0 .. owed : Step(reasons \ {"turn"}, "none", n)
    /\ UNCHANGED prompt

\* settle_told: the thread was told why there is no reply
Told == owed > 0 /\ Step(reasons \ {"turn"}, "none", 0) /\ UNCHANGED prompt

\* The ledger is emptied elsewhere: exit, resume, log out, stop, a deleted request
Swept ==
    /\ owed > 0
    /\ \E n \in 0 .. owed - 1 :
          /\ owed' = n
          /\ slipped' = IF n = 0 /\ stall = "none" /\ "turn" \in reasons
                        THEN slipped \cup {"untended"} ELSE slipped
    /\ UNCHANGED <<stall, prompt, book, command, late, shown, commands, faults>>

\* mutant: the watch only looks at threads that have not gone quiet yet
Settle_Heard == owed = 0 /\ stall \in {"asked", "fired"}

Settle == owed = 0 /\ stall # "none"
Fire == owed > 0 /\ stall = "watch"

\* stall_tick: a watch with nothing owed is folded with the turn's reason
StallTick ==
    /\ \/ Settle /\ Step(reasons \ {"turn"}, "none", owed)
       \/ Fire /\ Step(reasons, "fired", owed)
    /\ UNCHANGED prompt

-----------------------------------------------------------------------------
(* A person is asked                                                       *)

\* suspend_stall_for_perm: nothing for a thread with no watch
SuspendStall ==
    /\ ~prompt /\ prompt' = TRUE
    /\ IF stall = "none" THEN Step(reasons, "none", owed)
       ELSE Step(reasons \cup {"perm"}, "asked", owed)

\* resume_stall_after_perm after a click: the reason goes if the watch waited
Click ==
    /\ prompt /\ prompt' = FALSE
    /\ Step(IF stall = "asked" THEN reasons \ {"perm"} ELSE reasons,
            IF stall = "none" THEN "none" ELSE "watch", owed)

\* The same, without a click: only the watch goes on
Expire ==
    /\ prompt /\ prompt' = FALSE
    /\ Step(reasons, IF stall = "none" THEN "none" ELSE "watch", owed)

\* The stop hook let the turn end
TurnEnds == Step(reasons, IF stall = "none" THEN "none" ELSE "watch", owed) /\ UNCHANGED prompt

-----------------------------------------------------------------------------
(* A command, and the calls to Slack                                       *)

PresenceHold ==
    /\ command = "none" /\ commands < MaxCommands
    /\ command' = "running" /\ commands' = commands + 1
    /\ Book(reasons \cup {"command"}) /\ slipped' = Resent(reasons \cup {"command"})
    /\ UNCHANGED <<owed, stall, prompt, late, shown, faults>>

\* mutant: a command that ends says idle, whatever else holds the thread
DropLock_Idle ==
    /\ command = "running" /\ command' = "ending"
    /\ reasons' = reasons \ {"command"} /\ lastSent' = "idle" /\ late' = "idle"
    /\ UNCHANGED <<owed, stall, prompt, wire, shown, commands, faults, slipped>>

\* PresenceHold::drop: the reason goes under the lock...
DropLock ==
    /\ command = "running" /\ command' = "ending"
    /\ LET now == PresenceOf(reasons \ {"command"}) IN
       /\ reasons' = reasons \ {"command"} /\ lastSent' = now
       /\ late' = IF lastSent = now THEN "unknown" ELSE now
    /\ UNCHANGED <<owed, stall, prompt, wire, shown, commands, faults, slipped>>

\* ... and Slack is told after it
DropSend ==
    /\ command = "ending" /\ command' = "none"
    /\ IF late = "unknown" THEN UNCHANGED <<wire, slipped>>
       ELSE /\ Len(wire) < MaxWire /\ wire' = Append(wire, late)
            /\ slipped' = IF late # lastSent THEN slipped \cup {"overtaken"} ELSE slipped \ {"overtaken"}
    /\ late' = "unknown"
    /\ UNCHANGED <<owed, stall, prompt, reasons, lastSent, shown, commands, faults>>

\* One call to Slack, in the queue's order; a failure is only logged
SetPresence ==
    /\ wire # <<>> /\ wire' = Tail(wire)
    /\ \/ shown' = Head(wire) /\ slipped' = slipped \ {"lost"} /\ UNCHANGED faults
       \/ /\ faults < MaxFaults /\ faults' = faults + 1
          /\ slipped' = slipped \cup {"lost"} /\ UNCHANGED shown
    /\ UNCHANGED <<owed, stall, prompt, reasons, lastSent, command, late, commands>>

\* The Bridge goes down: the call in flight may land.  A thread whose agent
\* is alive gets its watch and the turn's reason back (restore_pending)
Restart ==
    /\ faults < MaxFaults /\ faults' = faults + 1
    /\ shown' \in {shown} \cup {wire[i] : i \in DOMAIN wire \cap {1}}
    /\ prompt' = FALSE /\ command' = "none" /\ late' = "unknown"
    /\ \/ /\ owed > 0 /\ UNCHANGED owed /\ stall' = "watch"
          /\ reasons' = {"turn"} /\ lastSent' = "working" /\ wire' = <<"working">>
          /\ slipped' = slipped \cap {"lost"}
       \/ /\ owed' = 0 /\ stall' = "none"
          /\ reasons' = {} /\ lastSent' = "unknown" /\ wire' = <<>>
          /\ slipped' = (slipped \cap {"lost"}) \cup (IF shown' = "idle" THEN {} ELSE {"untended"})
    /\ UNCHANGED commands

-----------------------------------------------------------------------------
Next ==
    \/ Serve \/ Handed \/ Hook \/ Answered \/ Told \/ Swept \/ StallTick
    \/ SuspendStall \/ Click \/ Expire \/ TurnEnds
    \/ PresenceHold \/ DropLock \/ DropSend \/ SetPresence \/ Restart

Spec == Init /\ [][Next]_vars

\* The tick comes every half second, a command's task always ends, and the
\* queue is worked off
Fairness == WF_vars(StallTick) /\ WF_vars(DropLock) /\ WF_vars(DropSend) /\ WF_vars(SetPresence)

FairSpec == Spec /\ Fairness

-----------------------------------------------------------------------------
(* What it must keep                                                       *)

\* The turn's reason always has something that will take it away: a request
\* whose answer does, or the watch (touch_thread, stall_tick).
TurnIsWatched ==
    "turn" \in reasons /\ "untended" \notin slipped => owed > 0 \/ stall # "none"

\* With no call on its way Slack shows what the holders add up to: a command's
\* end cannot clear a live turn, nor the other way round.  A call that failed or
\* was overtaken excuses the thread only until the next call
\* (PresenceBook, PresenceHold::drop).
ShownIsTrue ==
    /\ wire = <<>> /\ late = "unknown" /\ lastSent # "unknown"
    /\ slipped \cap {"overtaken", "lost"} = {}
    => shown = PresenceOf(reasons)

\* A thread whose agent waits for a person says so (suspend_stall_for_perm).
WaitingIsShown ==
    /\ stall = "asked" /\ wire = <<>> /\ late = "unknown"
    /\ slipped \cap {"overtaken", "lost"} = {}
    => shown = "waiting"

\* What the thread shows is what is going on.
PresenceIsTrue == TypeOK /\ TurnIsWatched /\ ShownIsTrue /\ WaitingIsShown

\* Once nothing is owed and nobody is asked, the thread goes idle (stall_tick,
\* PresenceHold::drop).
WorkingEnds == []<>(owed > 0 \/ prompt \/ shown = "idle" \/ slipped # {})
=============================================================================
