-------------------------------- MODULE Gate --------------------------------
(***************************************************************************)
(* Who is let in, and how often (bridge/inbound.rs, chat/slack.rs): the    *)
(* memory of events already seen, the gate on who may speak, and the guard *)
(* that pauses a thread in which bots answer each other.                   *)
(*                                                                         *)
(* Slack hands over every event at least once, and again while it has no   *)
(* receipt.  threads.json outlives the program; the memory does not.  What *)
(* becomes of a request that was let in is told in Delivery; the bot has   *)
(* an owner here (how it gets one is told in SignIn).                      *)
(***************************************************************************)
EXTENDS Naturals, Sequences, FiniteSets

CONSTANTS
    Thread,     \* threads, by their first post
    Dm,         \* those in the owner's direct messages
    LoopLimit,  \* LOOP_LIMIT
    DedupCap,   \* DEDUP_CAP
    MaxPosts,   \* bound on events
    MaxLate,    \* bound on events Slack will hand over later
    MaxWaiting, \* bound on requests that wait
    MaxDowns    \* bound on ends of the program

\* A thread is paused after one bot message at the earliest, and an event is remembered
GateGiven ==
    /\ Dm \subseteq Thread /\ LoopLimit \in Nat \ {0} /\ DedupCap \in Nat \ {0}
    /\ MaxPosts \in Nat /\ MaxLate \in Nat /\ MaxWaiting \in Nat /\ MaxDowns \in Nat

VARIABLES
    row,      \* threads.json: whether there is an entry, its status and bot_streak
    parked,   \* threads.json: requests parked by the last process
    waiting,  \* Bridge.pending: requests not handed over yet
    dedup,    \* RecentDeliveries
    born,     \* events before this one are from before the program started
    posts,    \* how many events there were
    again,     \* events Slack will hand over later, or once more
    downs,    \* how often the program ended
    bots,     \* bot messages answered since a person spoke
    eased,    \* threads where bots were not counted: see Uncounted
    invited,  \* threads the owner, or a bot he allowed, asked the bot into
    twice     \* whether one event was answered twice

gateVars == <<row, parked, waiting, dedup, born, posts, again, downs, bots, eased, invited, twice>>

\* The owner, anybody else, a bot the owner allowed, any other bot, and a program
\* that posts with the owner's token
Author == {"owner", "person", "friend", "stray", "api"}
Bots == {"friend", "stray", "api"}
\* aside: an edit, another deletion, a reaction on somebody's post or the stop sign.
\* root: the deletion of the thread's first post.  reaction: one on the bot's post
EventKind == {"post", "command", "aside", "root", "reaction"}
Message == [key : 1 .. MaxPosts, thread : Thread, by : Author, bot : BOOLEAN, kind : EventKind, mention : BOOLEAN]

NoEntry == [known |-> FALSE, paused |-> FALSE, streak |-> 0]
Entry == [known : BOOLEAN, paused : BOOLEAN, streak : 0 .. LoopLimit]

GateInit ==
    /\ row = [t \in Thread |-> NoEntry] /\ parked = {} /\ waiting = {}
    /\ dedup = <<>> /\ born = 0
    /\ posts = 0 /\ again = {} /\ downs = 0
    /\ bots = [t \in Thread |-> 0] /\ eased = {} /\ invited = {} /\ twice = FALSE

-----------------------------------------------------------------------------
(* RecentDeliveries                                                        *)

Seen(k) == \E i \in DOMAIN dedup : dedup[i] = k

\* seen: the oldest goes when it is full
Remember(k) == Append(IF Len(dedup) >= DedupCap THEN Tail(dedup) ELSE dedup, k)

-----------------------------------------------------------------------------
(* What Slack sends, in the Bridge's words (inbound_of)                    *)

Sent(t, k) == [key : {k}, thread : {t}, by : Author, bot : BOOLEAN, kind : EventKind, mention : BOOLEAN]

\* message_of, session_stopped_of: who has a bot_id, or no user, is a bot.  In
\* direct messages the bot is always meant
MessageOf(t, k) ==
    {m \in Sent(t, k) : m.kind \in {"post", "command"} /\ (m.bot <=> m.by \in Bots) /\ (t \in Dm => m.mention)}

\* edit_of, deletion_of: what a bot does to its own posts is dropped
ChangeOf(t, k) ==
    {m \in Sent(t, k) : /\ ~m.bot /\ ~m.mention
                        /\ <<m.by, m.kind>> \in {<<"person", "aside">>, <<"person", "root">>, <<"owner", "root">>}}

\* reaction_of: whoever reacts is taken for a person.  A second person's same
\* sign on the same post has the first one's key and counts as seen
ReactionOf(t, k) ==
    {m \in Sent(t, k) : ~m.bot /\ ~m.mention /\ m.kind = "reaction" /\ m.by \in {"owner", "person", "friend"}}

InboundOf(t, k) == MessageOf(t, k) \cup ChangeOf(t, k) \cup ReactionOf(t, k)

\* enqueue_pending, drain_pending: who wrote it is kept, not that it was a bot
DrainPending(e) == [e EXCEPT !.bot = FALSE, !.kind = "post"]

-----------------------------------------------------------------------------
(* The gate                                                                *)

\* Access.owner: also for what is posted with the owner's token
Owners(e) == e.by \in {"owner", "api"}

\* Threads::is_active
IsActive(t) == row[t].known /\ ~row[t].paused

Reachable(e) == e.mention \/ IsActive(e.thread)

\* Access::gate: the owner, and bots he allowed, where they mention the bot or in
\* an active thread; others, as context, in an active thread.  In direct messages
\* the owner himself
Passes(e) ==
    IF e.thread \in Dm THEN Owners(e) /\ ~e.bot
    ELSE \/ Owners(e) /\ Reachable(e)
         \/ e.bot /\ e.by = "friend" /\ Reachable(e)
         \/ ~e.bot /\ ~Owners(e) /\ IsActive(e.thread)

\* stale_reason: a command from before this process is not carried out
Stale(e) == e.kind = "command" /\ e.key <= born

\* The loop guard keeps bots out of a paused thread
Looping(e) == e.thread \notin Dm /\ e.bot /\ row[e.thread].paused

\* The thread's first post is deleted
Deletes(e) == ~Seen(e.key) /\ e.kind = "root" /\ Passes(e)

\* What is answered: carried out, handed on, or told of the limit
Answers(e) ==
    /\ ~Seen(e.key) /\ ~Stale(e) /\ Passes(e) /\ e.kind \notin {"aside", "root"} /\ ~Looping(e)

-----------------------------------------------------------------------------
(* The loop guard                                                          *)

\* mutant: the thread is paused one message later
Bumped_Late(r) ==
    IF ~r.known THEN r
    ELSE IF r.streak >= LoopLimit THEN [r EXCEPT !.paused = TRUE]
    ELSE [r EXCEPT !.streak = @ + 1]

\* bump_bot_streak, pause: nothing is counted in a thread without an entry
Bumped(r) ==
    IF ~r.known THEN r
    ELSE IF r.streak + 1 >= LoopLimit THEN [r EXCEPT !.streak = @ + 1, !.paused = TRUE]
    ELSE [r EXCEPT !.streak = @ + 1]

\* reset_bot_streak
Rested(r) == IF r.known THEN [r EXCEPT !.streak = 0, !.paused = FALSE] ELSE r

\* Bots are counted in channels, and anybody else ends the count
Counted(e) ==
    IF e.thread \in Dm THEN row[e.thread]
    ELSE IF e.bot THEN Bumped(row[e.thread]) ELSE Rested(row[e.thread])

\* A person, and not a bot taken for one
Human(e) == e.by \in {"owner", "person"}

\* A bot taken for a person ends the count, and a bot that is only told of the
\* limit, or of a missing folder, in a thread without an entry is not counted
Uncounted(e, r) == ~Human(e) /\ (~e.bot \/ ~r.known)

\* An answered event in a thread whose row becomes r
Marked(e, r) ==
    LET t == e.thread IN
    /\ row' = [row EXCEPT ![t] = r]
    /\ bots' = [bots EXCEPT ![t] = IF Human(e) THEN 0 ELSE IF e.bot THEN @ + 1 ELSE @]
    /\ eased' = IF Uncounted(e, r) THEN eased \cup {t} ELSE IF Human(e) THEN eased \ {t} ELSE eased
    /\ invited' = IF (e.mention \/ t \in Dm) /\ (Owners(e) \/ e.bot) THEN invited \cup {t} ELSE invited

-----------------------------------------------------------------------------
(* on_inbound                                                              *)

\* Seen before; or stale, or not for the gate, or an aside, and then remembered
Drop(e) ==
    /\ ~Answers(e) /\ ~Deletes(e)
    /\ dedup' = IF Seen(e.key) THEN dedup ELSE Remember(e.key)
    /\ UNCHANGED <<row, waiting, bots, eased, invited>>

\* on_message_deleted: with its first post the thread goes, and what waits in it
DeleteRoot(e) ==
    /\ Deletes(e)
    /\ dedup' = Remember(e.key)
    /\ row' = [row EXCEPT ![e.thread] = NoEntry]
    /\ waiting' = {m \in waiting : m.thread # e.thread}
    /\ bots' = [bots EXCEPT ![e.thread] = 0]
    /\ eased' = eased \ {e.thread} /\ invited' = invited \ {e.thread}

\* handle_command, mark_thread_seen: the bot spoke here, the thread is active
HandleCommand(e) ==
    /\ Answers(e) /\ e.kind = "command"
    /\ dedup' = Remember(e.key)
    /\ Marked(e, [Counted(e) EXCEPT !.known = TRUE])
    /\ UNCHANGED waiting

\* At the usage limit (told in Usage), or with the project's folder gone, the thread
\* is told and no more
Refuse(e) ==
    /\ Answers(e) /\ e.kind # "command"
    /\ dedup' = Remember(e.key)
    /\ Marked(e, Counted(e))
    /\ UNCHANGED waiting

\* Given to a new agent, or kept until its agent takes it
Accept(e) ==
    /\ Answers(e) /\ e.kind # "command"
    /\ dedup' = Remember(e.key)
    /\ Marked(e, [Counted(e) EXCEPT !.known = TRUE])
    /\ \/ UNCHANGED waiting
       \/ Cardinality(waiting) < MaxWaiting /\ waiting' = waiting \cup {e}

OnInbound(e) == Drop(e) \/ DeleteRoot(e) \/ HandleCommand(e) \/ Refuse(e) \/ Accept(e)

-----------------------------------------------------------------------------
(* Slack, and the program's ends                                           *)

\* What Slack keeps for want of a receipt it hands over again before more than
\* DedupCap - 1 other events are remembered, or not at all
Aged(e, others) ==
    IF Seen(e.key) THEN others ELSE {[x EXCEPT !.left = @ - 1] : x \in {y \in others : y.left > 0}}

Redelivery(e, taken) == [event |-> e, taken |-> taken, left |-> DedupCap - 1]

\* Something happens, and is handed over; what was left behind is taken up first
Post(t) ==
    /\ parked = {} /\ posts < MaxPosts /\ posts' = posts + 1
    /\ \E e \in InboundOf(t, posts + 1) :
          /\ OnInbound(e)
          /\ \/ again' = Aged(e, again)
             \/ Cardinality(again) < MaxLate /\ again' = Aged(e, again) \cup {Redelivery(e, Answers(e))}
    /\ UNCHANGED <<parked, born, downs, twice>>

\* The program was down, or Slack slow
PostLate(t) ==
    /\ posts < MaxPosts /\ posts' = posts + 1 /\ Cardinality(again) < MaxLate
    /\ \E e \in InboundOf(t, posts + 1) : again' = again \cup {Redelivery(e, FALSE)}
    /\ UNCHANGED <<row, parked, waiting, dedup, born, downs, bots, eased, invited, twice>>

\* The event comes at last, or once more
ComesLate ==
    /\ parked = {}
    /\ \E x \in again :
          /\ OnInbound(x.event)
          /\ again' = Aged(x.event, again \ {x})
          /\ twice' = (twice \/ (x.taken /\ Answers(x.event)))
    /\ UNCHANGED <<parked, born, posts, downs>>

\* Its agent takes it, or goes and what waits is thrown away
HandedOn ==
    /\ \E m \in waiting : waiting' = waiting \ {m}
    /\ UNCHANGED <<row, parked, dedup, born, posts, again, downs, bots, eased, invited, twice>>

\* flush_pending_to_disk at a graceful end; a crash loses what waits, and may lose
\* what was not resumed yet.  The memory of events goes.  A request may be
\* answered by both processes, a command not
GateRestart ==
    /\ downs < MaxDowns /\ downs' = downs + 1
    /\ parked' \in {parked \cup {DrainPending(m) : m \in waiting}, parked, {}}
    /\ waiting' = {} /\ dedup' = <<>> /\ born' = posts
    /\ again' = {[x EXCEPT !.taken = @ /\ x.event.kind = "command"] : x \in again}
    /\ UNCHANGED <<row, posts, bots, eased, invited, twice>>

\* resume_pending_from_disk: through on_inbound, before anything else comes in
ResumeParked ==
    /\ \E m \in parked :
          /\ OnInbound(m)
          /\ parked' = parked \ {m}
          /\ again' = {IF Answers(m) /\ x.event.key = m.key THEN [x EXCEPT !.taken = TRUE] ELSE x : x \in Aged(m, again)}
    /\ UNCHANGED <<born, posts, downs, twice>>

GateNext ==
    \/ \E t \in Thread : Post(t) \/ PostLate(t)
    \/ ComesLate \/ HandedOn \/ GateRestart \/ ResumeParked

GateSpec == GateInit /\ [][GateNext]_gateVars

-----------------------------------------------------------------------------
(* What it must keep                                                       *)

GateTypeOK ==
    /\ row \in [Thread -> Entry] /\ bots \in [Thread -> Nat]
    /\ parked \subseteq Message /\ waiting \subseteq Message
    /\ again \subseteq [event : Message, taken : BOOLEAN, left : 0 .. DedupCap - 1]
    /\ dedup \in Seq(1 .. MaxPosts) /\ Len(dedup) <= DedupCap /\ twice \in BOOLEAN
    /\ born \in 0 .. MaxPosts /\ posts \in 0 .. MaxPosts /\ downs \in 0 .. MaxDowns
    /\ eased \subseteq Thread /\ invited \subseteq Thread

\* Bots that answer each other are stopped, also over restarts: until a person
\* speaks no more than the limit's bot messages are answered in a channel's
\* thread, and one that began it.  Not promised where a bot was taken for a
\* person or only told of a limit (bump_bot_streak, pause).
LoopIsBroken == \A t \in Thread \ Dm : t \notin eased => bots[t] <= LoopLimit + 1

\* Nobody but the owner, or a bot he allowed, brings the bot into a thread: a
\* row, and with it the right of others to be heard there, goes back to one of
\* them asking for it (gate, is_active, mark_thread_seen).
OnlyInvited == \A t \in Thread : row[t].known => t \in invited

\* What Slack hands over twice is answered once by one process, and a command
\* once in all (RecentDeliveries, stale_reason).
AnsweredOnce == ~twice

\* Bots do not loop, strangers start nothing, and nothing is answered twice.
GateHolds == GateTypeOK /\ LoopIsBroken /\ OnlyInvited /\ AnsweredOnce
=============================================================================
