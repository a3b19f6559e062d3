------------------------------- MODULE Front --------------------------------
(***************************************************************************)
(* The gateway's front desk (gateway.rs): how the bot comes by its owner,  *)
(* which machine each of Slack's events is handed to, and what is said     *)
(* when that machine is away.                                              *)
(*                                                                         *)
(* The bot's direct messages with somebody go by that person.  Events are  *)
(* taken one at a time; links come and go meanwhile.  How a thread is      *)
(* moved is told in Move, how a folder is agreed on in Settings.           *)
(***************************************************************************)
EXTENDS Naturals, FiniteSets

CONSTANTS
    Channel,    \* channels of the workspace
    Writer,     \* people who write to the bot
    Topic,      \* threads: a place, and which one of it
    Machines,   \* machines that may be linked
    Gateway,    \* the machine that is the gateway as well
    Nothing,    \* no person, machine or thread
    MaxSeen,    \* bound on events
    MaxBreaks   \* bound on links cut under a frame, saves that fail and restarts

Place == Channel \cup Writer

\* Names are told apart, every thread has a place, and the bounds are numbers
FrontGiven ==
    /\ Topic \subseteq Place \X Nat /\ Channel \cap Writer = {} /\ Gateway \notin Machines
    /\ Nothing \notin Place \cup Machines \cup Topic \cup {Gateway}
    /\ MaxSeen \in Nat /\ MaxBreaks \in Nat

VARIABLES
    ownerId,    \* Access.owner
    routes,     \* Access.routes: each place's machine
    pendingSelection,  \* the place that waits for a machine's name
    kept,       \* thread_routes: the machine of a thread the bot is in
    written,    \* threads whose machine the gateway's own Bridge has written down
    linked,     \* the machines connected
    said,       \* NoticeCooldown: places that were told within the minute
    knows,      \* machines that were told who the owner is
    taken,      \* events so far
    breaks,     \* what failed so far
    showed,     \* people who showed the connection string
    owners,     \* everybody who was ever the owner
    served,     \* the machines that got a thread's events once the bot was in it
    missed,     \* places where a request was not delivered,
    notified,   \* and those where somebody was told so, since something last was
    lost        \* what a cut link or a restart took: see Loss

access == <<ownerId, routes>>
desk == <<access, pendingSelection, kept, written, knows>>
complaints == <<said, missed, notified>>
claims == <<showed, owners>>
frontVars == <<desk, linked, complaints, claims, served, taken, breaks, lost>>

\* A thread whose machine was not written down, a machine that was not told of the
\* owner, and a claim that was not saved
Loss == Topic \cup Machines \cup {"claim"}

FrontInit ==
    /\ ownerId = Nothing /\ routes = [p \in Place |-> Nothing] /\ pendingSelection = Nothing
    /\ kept = [t \in Topic |-> Nothing] /\ written = {} /\ linked = {} /\ said = {} /\ knows = {}
    /\ taken = 0 /\ breaks = 0 /\ showed = {} /\ owners = {}
    /\ served = [t \in Topic |-> {}] /\ missed = {} /\ notified = {} /\ lost = {}

-----------------------------------------------------------------------------
(* One of Slack's events, as the gateway reads it (Event)                  *)

\* token: the connection string; torn: one that is not this bot's
Text == {"words", "token", "torn", Gateway} \cup Machines

\* same: a change that leaves the text as it was.  api: it carries a bot_id.  A
\* deletion names nobody, and a reaction no thread when its post can't be read
UserMessage == [what : {"post", "same"}, place : Place, thread : Topic, by : Writer, api : BOOLEAN,
                mention : BOOLEAN, text : Text]
Said(m) ==
    /\ m.thread[1] = m.place /\ (m.place \in Writer => m.by = m.place /\ m.mention)
    /\ m.place \in Channel => m.text = "words"
Other(what, p, t, by, api) ==
    [what |-> what, place |-> p, thread |-> t, by |-> by, api |-> api, mention |-> FALSE, text |-> "words"]
Event ==
    {m \in UserMessage : Said(m)}
    \cup {Other("deletion", t[1], t, Nothing, FALSE) : t \in Topic}
    \cup {Other("post", t[1], t, by, TRUE) : t \in Topic, by \in {"us", "bot"}}
    \cup {Other("reaction", t[1], t, Nothing, FALSE) : t \in Topic}
    \cup {Other("reaction", p, Nothing, Nothing, FALSE) : p \in Place}

Private(e) == e.place \in Writer
IsMessage(e) == e.what # "reaction"

\* speaks_as_a_bot: whoever has a bot_id, but for the owner
SpeaksAsABot(e) == e.api /\ ~(ownerId # Nothing /\ e.by = ownerId)

\* is_a_command_candidate
IsACommandCandidate(e) == IsMessage(e) /\ ~SpeaksAsABot(e) /\ e.what # "same"

\* brings_in_the_bot: somebody asks for it, or it is the bot's own post
BringsInTheBot(e) ==
    /\ IsMessage(e) /\ e.what # "deletion"
    /\ IF SpeaksAsABot(e) THEN e.by = "us" ELSE Private(e) \/ e.mention

\* may_answer.  In a thread the bot is in nobody need mention it
MayAnswer(e, inBotThread) ==
    /\ IsMessage(e) /\ ~e.api /\ e.what # "deletion"
    /\ inBotThread \/ Private(e) \/ e.mention

-----------------------------------------------------------------------------
(* The claim (DmOnboardingCtx::decide, answer_own_commands)                *)

Fails == breaks < MaxBreaks /\ breaks' = breaks + 1

\* machines: the gateway can be named too
Online == {Gateway} \cup linked

Awaits(e) == pendingSelection # Nothing /\ ownerId # Nothing /\ e.by = ownerId
Claims(e) == ~Awaits(e) /\ ownerId = Nothing /\ e.text = "token"

\* decide says NotOnboarding to the others, and they are delivered
Onboarding(e) ==
    IsACommandCandidate(e) /\ Private(e) /\ e.by # Nothing
        /\ (Awaits(e) \/ e.text = "token" \/ (ownerId = Nothing /\ e.text = "torn"))

\* bind_and_link: the machine is told who the owner is - one that was cut off just now
\* is not, and only another Linked makes up for it.  A save that fails stops nothing
Bind(b, p) ==
    \/ /\ routes' = [routes EXCEPT ![p] = b]
       /\ \/ b \in linked /\ knows' = knows \cup {b} /\ UNCHANGED <<linked, lost, breaks>>
          \/ /\ b \in linked /\ Fails /\ linked' = linked \ {b} /\ lost' = lost \cup ({b} \ knows)
             /\ UNCHANGED knows
          \/ b = Gateway /\ UNCHANGED <<linked, knows, lost, breaks>>
    \/ Fails /\ knows' = knows \cup ({b} \ {Gateway}) /\ UNCHANGED <<routes, linked, lost>>

\* BadToken, AlreadyConfigured, SelectRetry: an answer, and nothing else
JustAnswered(e) ==
    /\ ~Claims(e) /\ ~(Awaits(e) /\ e.text \in Online)
    /\ UNCHANGED <<access, pendingSelection, linked, knows, breaks, showed, owners, lost>>

Selected(e) ==
    /\ Awaits(e) /\ e.text \in Online
    /\ pendingSelection' = Nothing /\ Bind(e.text, pendingSelection)
    /\ UNCHANGED <<ownerId, showed, owners>>

\* ClaimedAuto with nobody else online, ClaimedPending otherwise
Claimed(e) ==
    /\ Claims(e) /\ showed' = showed \cup {e.by}
    /\ ownerId' = e.by /\ owners' = owners \cup {e.by}
    /\ IF linked = {}
       THEN pendingSelection' = Nothing /\ routes' = [routes EXCEPT ![e.place] = Gateway]
       ELSE pendingSelection' = e.place /\ UNCHANGED routes
    /\ UNCHANGED <<linked, knows, lost, breaks>>

\* The owner could not be saved: the reply says he is it all the same
ClaimNotSaved(e) ==
    /\ Claims(e) /\ showed' = showed \cup {e.by} /\ Fails /\ lost' = lost \cup {"claim"}
    /\ IF linked = {}
       THEN pendingSelection' = Nothing /\ routes' = [routes EXCEPT ![e.place] = Gateway]
       ELSE pendingSelection' = e.place /\ UNCHANGED routes
    /\ UNCHANGED <<ownerId, owners, linked, knows>>

AnswerOwnCommands(e) ==
    /\ Onboarding(e)
    /\ JustAnswered(e) \/ Selected(e) \/ Claimed(e) \/ ClaimNotSaved(e)
    /\ UNCHANGED <<kept, written, said, served, missed, notified>>

-----------------------------------------------------------------------------
(* Where an event goes (Delivery::decide, on_event, cannot_deliver)        *)

\* mutant: the channel's machine comes before the thread's own
Decide_Channel(p, t) == IF routes[p] = Nothing THEN Gateway ELSE routes[p]

\* A thread's own machine comes before its channel's, and where none is written
\* down it is this one
Decide(p, t) ==
    IF t # Nothing /\ kept[t] # Nothing THEN kept[t]
    ELSE IF routes[p] = Nothing THEN Gateway
    ELSE routes[p]

\* NoticeCooldown::delivered: the complaint is over
Delivered(p) == said' = said \ {p} /\ missed' = missed \ {p} /\ notified' = notified \ {p}

\* NoticeCooldown::take: once a minute.  How many were held back is only logged
Tell(p) == said' = said \cup {p} /\ notified' = (IF p \in said THEN notified ELSE notified \cup {p})

Remembers(t, b, keep) ==
    /\ kept' = IF keep THEN [kept EXCEPT ![t] = b] ELSE kept
    /\ UNCHANGED <<access, pendingSelection, written, knows, showed, owners>>

\* The thread's machine got something, when the bot is in it
Got(t, b) ==
    served' = IF t # Nothing /\ kept'[t] # Nothing THEN [served EXCEPT ![t] = @ \cup {b}] ELSE served

CannotDeliver(e) ==
    /\ IF MayAnswer(e, e.thread # Nothing /\ kept'[e.thread] # Nothing)
       THEN Tell(e.place) /\ missed' = missed \cup {e.place}
       ELSE UNCHANGED <<said, missed, notified>>
    /\ UNCHANGED served

\* on_event, and what send_to says when the link has just gone
OnEvent(e) ==
    LET b == Decide(e.place, e.thread) IN
    /\ ~Onboarding(e)
    /\ Remembers(e.thread, b, e.thread # Nothing /\ kept[e.thread] = Nothing /\ BringsInTheBot(e))
    /\ UNCHANGED lost
    /\ \/ b \in Online /\ Delivered(e.place) /\ Got(e.thread, b) /\ UNCHANGED <<linked, breaks>>
       \/ b \in linked /\ Fails /\ linked' = linked \ {b} /\ CannotDeliver(e)
       \/ b \notin Online /\ CannotDeliver(e) /\ UNCHANGED <<linked, breaks>>

\* on_click: a click here clears no complaint, and one that is lost on the way is
\* not told of
OnClick(t) ==
    LET p == t[1]
        b == Decide(p, t)
    IN
    /\ Remembers(t, b, FALSE) /\ UNCHANGED lost
    /\ \/ b = Gateway /\ Got(t, b) /\ UNCHANGED <<linked, said, missed, notified, breaks>>
       \/ b \in linked /\ Delivered(p) /\ Got(t, b) /\ UNCHANGED <<linked, breaks>>
       \/ b \in linked /\ Fails /\ linked' = linked \ {b} /\ UNCHANGED <<said, served, missed, notified>>
       \/ b \notin Online /\ Tell(p) /\ UNCHANGED <<linked, served, missed, breaks>>

FromSlack ==
    /\ taken < MaxSeen /\ taken' = taken + 1
    /\ \/ \E e \in Event : AnswerOwnCommands(e) \/ OnEvent(e)
       \/ \E t \in Topic : OnClick(t)

-----------------------------------------------------------------------------
(* What goes on meanwhile                                                  *)

\* The owner points a place at a machine that is online
Repoint(p, b) ==
    /\ ownerId # Nothing /\ b \in Online /\ routes[p] # b
    /\ taken < MaxSeen /\ taken' = taken + 1
    /\ Bind(b, p)
    /\ UNCHANGED <<ownerId, pendingSelection, kept, written, said, showed, owners, served, missed, notified>>

LinkUp(b) ==
    /\ b \notin linked /\ linked' = linked \cup {b}
    /\ UNCHANGED <<desk, complaints, taken, breaks, claims, served, lost>>

LinkDown(b) ==
    /\ b \in linked /\ linked' = linked \ {b}
    /\ UNCHANGED <<desk, complaints, taken, breaks, claims, served, lost>>

\* A notice's minute is over
MinutePasses(p) ==
    /\ p \in said /\ said' = said \ {p}
    /\ UNCHANGED <<desk, linked, taken, breaks, claims, served, missed, notified, lost>>

\* note_thread_routes
NoteThreadRoutes(t) ==
    /\ kept[t] # Nothing /\ t \notin written /\ written' = written \cup {t}
    /\ UNCHANGED <<access, pendingSelection, kept, linked, complaints, knows, taken, breaks, claims, served, lost>>

\* What is in memory only is gone: the claim that waits for a name, the complaints, and
\* the machines that were not written down
FrontRestart ==
    /\ Fails
    /\ pendingSelection' = Nothing /\ said' = {} /\ linked' = {}
    /\ kept' = [t \in Topic |-> IF t \in written THEN kept[t] ELSE Nothing]
    /\ lost' = lost \cup {t \in Topic : kept[t] # Nothing /\ t \notin written}
    /\ UNCHANGED <<access, written, knows, taken, showed, owners, served, missed, notified>>

FrontNext ==
    \/ FromSlack \/ FrontRestart
    \/ \E p \in Place : MinutePasses(p) \/ \E b \in Machines \cup {Gateway} : Repoint(p, b)
    \/ \E b \in Machines : LinkUp(b) \/ LinkDown(b)
    \/ \E t \in Topic : NoteThreadRoutes(t)

FrontSpec == FrontInit /\ [][FrontNext]_frontVars

-----------------------------------------------------------------------------
FrontTypeOK ==
    /\ ownerId \in Writer \cup {Nothing} /\ pendingSelection \in Writer \cup {Nothing}
    /\ routes \in [Place -> Machines \cup {Gateway, Nothing}]
    /\ kept \in [Topic -> Machines \cup {Gateway, Nothing}] /\ written \subseteq Topic
    /\ linked \subseteq Machines /\ knows \subseteq Machines /\ said \subseteq Place
    /\ taken \in 0 .. MaxSeen /\ breaks \in 0 .. MaxBreaks
    /\ showed \subseteq Writer /\ owners \subseteq Writer
    /\ served \in [Topic -> SUBSET (Machines \cup {Gateway})]
    /\ missed \subseteq Place /\ notified \subseteq Place /\ lost \subseteq Loss

\* There is one owner, once and for all: somebody who showed the connection string
\* (DmOnboardingCtx::decide), and the claim that waits for a machine is his.
OneOwner ==
    /\ owners \subseteq showed /\ owners = {ownerId} \ {Nothing}
    /\ pendingSelection # Nothing => (pendingSelection = ownerId \/ "claim" \in lost)

\* A machine that was given a place knows the owner it is to obey, unless the link
\* went while it was told (bind_and_link).
BoundKnowsOwner == \A p \in Place : routes[p] \in Machines => routes[p] \in knows \cup lost

\* From the moment the bot is in it, a thread's events go to one machine - also
\* when its channel is pointed at another one (Delivery::decide) - unless the
\* gateway went down before that was written.
ServedByOne == \A t \in Topic \ lost : served[t] \subseteq {kept[t]}

\* A request that was not delivered has somebody told in its channel, since anything
\* last was delivered there (NoticeCooldown): silence is never all there is.
NoSilence == missed \subseteq notified

FrontHolds == FrontTypeOK /\ OneOwner /\ BoundKnowsOwner /\ ServedByOne /\ NoSilence
=============================================================================
