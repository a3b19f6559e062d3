------------------------------ MODULE Prompts -------------------------------
(***************************************************************************)
(* What one thread is asked to decide: permissions for tool calls, whose   *)
(* hook stays open until someone answers, and dialogs on the agent's       *)
(* screen, offered as buttons and answered by pressing keys.               *)
(*                                                                         *)
(* An arm of the Bridge's loop is one action, the Slack calls it awaits    *)
(* included.  The agent, the person at its machine and the reading of      *)
(* screens run beside the loop.  Permission prompts and dialog prompts are *)
(* looked up by thread, so one thread with one agent is modelled.          *)
(***************************************************************************)
EXTENDS Naturals

CONSTANTS
    Call,     \* tool calls that may need a person's permission
    Tool,     \* tools that permission can be granted for, for good
    ToolOf,   \* the tool of each call
    Question, \* calls of the question tool; each draws a dialog
    Modal,    \* dialogs no hook announces (trust, model, sign-in, ...)
    RowsOf,   \* what the rows of a dialog say
    NoDialog, \* an agent's screen without one
    Moves     \* which of the environment's optional moves this instance makes

Dialog == Question \cup Modal
Hooked == Call \cup Question

AllMoves == {"slackfail", "restart", "end", "refuse"}

ASSUME ToolAssumption == ToolOf \in [Call -> Tool]
ASSUME DialogAssumption == NoDialog \notin Dialog
ASSUME KindAssumption == Call \cap Question = {} /\ Question \cap Modal = {}

VARIABLES
  \* the Bridge's memory
    up,      \* the process runs
    hookq,   \* permission hooks waiting for the loop
    pend,    \* perm_pending: calls whose prompt waits for a click
    due,     \* ... of which the deadline is over
    dlg,     \* dialog_pending of the thread
    watch,   \* the thread's silence watch and its reasons to look busy
    scan,    \* a round of screen readings under way, and what it saw
  \* threads.json
    noted,   \* perm_prompts: prompts to be folded by the next process
    record,  \* dialog_prompt: the dialog to be taken back by the next process
    granted, \* tools allowed for good
  \* the world
    post,    \* each permission prompt, as the thread shows it
    call,    \* each hook: not called, open, or how it came back
    live,    \* the agent's process runs
    turn,    \* it is at work
    screen,  \* the dialog it shows
    owed     \* the thread has an unanswered request (the ledger)

vars == <<up, hookq, pend, due, dlg, watch, scan, noted, record, granted,
          post, call, live, turn, screen, owed>>

perms == <<hookq, pend, due, noted, granted, post>> \* what a dialog leaves alone
dialogs == <<dlg, record, scan>>                    \* what a permission leaves alone
agent == <<live, turn, screen>>

Prompt == [dialog : Dialog, form : BOOLEAN] \* form: handed over by the hook
Watch == [on : BOOLEAN, awaiting : BOOLEAN, quiet : BOOLEAN,
          why : SUBSET {"turn", "perm"}]
NoScan == [at |-> FALSE, saw |-> NoDialog]

PermOK ==
    /\ up \in BOOLEAN /\ hookq \subseteq Hooked
    /\ pend \subseteq Call /\ due \subseteq pend
    /\ noted \subseteq Call /\ granted \subseteq Tool
    /\ post \in [Call -> {"none", "up", "allowed", "denied", "folded",
                          "deleted", "left"}]
    /\ call \in [Hooked -> {"none", "open", "allow", "deny", "aside", "gone", "drawn"}]
DialogOK ==
    /\ dlg \subseteq Prompt /\ \A p, q \in dlg : p = q
    /\ record \subseteq Prompt /\ \A p, q \in record : p = q
    /\ scan \in [at : BOOLEAN, saw : Dialog \cup {NoDialog}]
WatchOK == watch \in Watch /\ (watch.awaiting => watch.on)
AgentOK ==
    /\ live \in BOOLEAN /\ turn \in BOOLEAN /\ owed \in BOOLEAN
    /\ screen \in Dialog \cup {NoDialog}

\* The type invariant; its parts are the variables that change together.  A
\* deadline belongs to a pending prompt and "awaiting" to a watch; a thread has
\* one dialog prompt at most, in memory and on disk (put_dialog's retain).
TypeOK == PermOK /\ DialogOK /\ WatchOK /\ AgentOK

Quiescent == [on |-> FALSE, awaiting |-> FALSE, quiet |-> FALSE, why |-> {}]

Init ==
    /\ up = TRUE /\ hookq = {} /\ pend = {} /\ due = {} /\ dlg = {}
    /\ watch = Quiescent /\ scan = NoScan
    /\ noted = {} /\ record = {} /\ granted = {}
    /\ post = [c \in Call |-> "none"] /\ call = [h \in Hooked |-> "none"]
    /\ live = TRUE /\ turn = FALSE /\ screen = NoDialog /\ owed = FALSE

Optional(move) == move \in Moves

-----------------------------------------------------------------------------
(* The silence watch and the reasons a thread looks busy.                  *)

\* touch_thread: activity; with nothing owed no watch is opened
Touched(w, busy) ==
    IF ~w.on /\ ~owed THEN w
    ELSE [w EXCEPT !.on = TRUE, !.quiet = FALSE,
                   !.why = IF busy THEN @ \cup {"turn"} ELSE @]

\* suspend_stall_for_perm: silent on purpose from here
Suspended(w) ==
    IF w.on THEN [w EXCEPT !.awaiting = TRUE, !.why = @ \cup {"perm"}] ELSE w

\* resume_stall_after_perm
Resumed(w, rearm) ==
    [w EXCEPT !.awaiting = FALSE,
              !.quiet = @ /\ ~rearm,
              !.why = IF w.on /\ w.awaiting /\ rearm THEN @ \ {"perm"} ELSE @]

\* The watch goes with the turn; "perm" is left where it is
Unwatched(w) == [Quiescent EXCEPT !.why = w.why \ {"turn"}]

-----------------------------------------------------------------------------
(* Permissions.                                                            *)

\* oneshot: the first answer counts, and only while the hook still waits
Respond(h, out) == call' = [call EXCEPT ![h] = IF @ = "open" THEN out ELSE @]

\* What the prompt's message shows once Slack was asked to change it; buttons
\* stay where the call fails
Shows(c, text) ==
    \/ post' = [post EXCEPT ![c] = text]
    \/ Optional("slackfail") /\ post' = [post EXCEPT ![c] = "left"]

\* A standing rule, a grant, a root that is gone, or a prompt that cannot be posted
AnswerAtOnceSilently(c) ==        \* mutant: a failed post forgets the hook
    /\ watch' = Touched(watch, FALSE)
    /\ UNCHANGED <<pend, due, noted, post, call>>
AnswerAtOnce(c) ==
    /\ \E out \in {"allow", "deny", "aside"} : Respond(c, out)
    /\ watch' = Touched(watch, FALSE)
    /\ UNCHANGED <<pend, due, noted, post>>

AskPerson(c) ==
    /\ ToolOf[c] \notin granted
    /\ post' = [post EXCEPT ![c] = "up"]
    /\ watch' = Suspended(Touched(watch, FALSE))
    /\ noted' = noted \cup {c}
    /\ pend' = pend \cup {c}
    /\ UNCHANGED <<due, call>>

OnPerm(c) ==
    /\ up /\ c \in hookq
    /\ hookq' = hookq \ {c}
    /\ AnswerAtOnce(c) \/ AskPerson(c)
    /\ UNCHANGED <<up, granted, dialogs, agent, owed>>

\* Off the table, and off the record of the thread
ForgetKeepsNote(c) ==             \* mutant: threads.json keeps the prompt
    pend' = pend \ {c} /\ due' = due \ {c} /\ UNCHANGED noted
ForgetKeepsEntry(c) ==            \* mutant: a later click finds the prompt
    noted' = noted \ {c} /\ UNCHANGED <<pend, due>>
Forget(c) == pend' = pend \ {c} /\ due' = due \ {c} /\ noted' = noted \ {c}

OnPermClick(c, action) ==
    /\ up /\ c \in pend
    /\ Forget(c)
    /\ Respond(c, IF action = "deny" THEN "deny" ELSE "allow")
    /\ watch' = Resumed(watch, TRUE)
    /\ granted' = IF action = "allow-for-good" THEN granted \cup {ToolOf[c]} ELSE granted
    /\ Shows(c, IF action = "deny" THEN "denied" ELSE "allowed")
    /\ UNCHANGED <<up, hookq, dialogs, agent, owed>>

\* PERM_WAIT_MS passes
Deadline(c) ==
    /\ c \in pend \ due
    /\ due' = due \cup {c}
    /\ UNCHANGED <<up, hookq, pend, watch, noted, granted, post, call, dialogs, agent, owed>>

\* expire_perm_prompts: the agent moves on, the buttons go
ExpirePerm(c) ==
    /\ up /\ c \in due
    /\ Forget(c)
    /\ Respond(c, "aside")
    /\ watch' = Resumed(watch, FALSE)
    /\ Shows(c, "deleted")
    /\ UNCHANGED <<up, hookq, granted, dialogs, agent, owed>>

-----------------------------------------------------------------------------
(* Dialogs.                                                                *)

\* still_asking: what the hook sent has the screen's rows, and not its title
StillAskingAny(p, d) == TRUE      \* mutant: any prompt holds the place
StillAsking(p, d) == IF p.form THEN RowsOf[p.dialog] = RowsOf[d] ELSE p.dialog = d

\* put_dialog: what is up for the thread is dropped first, the post comes after
\* and is written down once it is there
PutDialog(d, form, posted, kept) ==
    /\ posted \/ Optional("slackfail")
    /\ dlg' = IF posted THEN {[dialog |-> d, form |-> form]} ELSE {}
    /\ record' = IF posted THEN dlg' ELSE kept

\* The question tool is allowed at once; its question goes to the thread unless it
\* has a shape only the screen can show
OnQuestion(q) ==
    /\ up /\ q \in hookq
    /\ hookq' = hookq \ {q}
    /\ Respond(q, "allow")
    /\ \/ /\ watch' = Touched(watch, FALSE)
          /\ UNCHANGED <<dlg, record>>
       \/ \E posted \in BOOLEAN :
            /\ PutDialog(q, TRUE, posted, record)
            /\ watch' = IF posted THEN Suspended(Touched(watch, FALSE))
                                  ELSE Touched(watch, FALSE)
    /\ UNCHANGED <<up, pend, due, scan, noted, granted, post, agent, owed>>

\* dialog_kick: the screens are read off the loop
Kick ==
    /\ up /\ live /\ ~scan.at
    /\ scan' = [at |-> TRUE, saw |-> screen]
    /\ UNCHANGED <<up, perms, dlg, record, call, watch, agent, owed>>

\* At work, or already waiting for a permission
BusyIfPending == pend # {}        \* mutant: activity since the reading is not seen
Busy == (watch.on /\ ~watch.quiet) \/ pend # {}

Held == scan.saw # NoDialog /\ \E p \in dlg : StillAsking(p, scan.saw)

\* decide_dialogs: the prompt the screen has left is retired, the dialog it shows
\* is offered
DecideDialogs(posted) ==
    /\ up /\ scan.at
    /\ scan' = NoScan
    /\ \/ /\ Busy \/ Held
          /\ UNCHANGED <<dlg, record, watch>>
       \/ /\ ~Busy /\ ~Held /\ scan.saw = NoDialog
          /\ dlg' = {} /\ record' = record \ dlg
          /\ UNCHANGED watch
       \/ /\ ~Busy /\ ~Held /\ scan.saw # NoDialog
          /\ PutDialog(scan.saw, FALSE, posted, record \ dlg)
          /\ watch' = IF posted THEN Suspended(watch) ELSE watch
    /\ UNCHANGED <<up, perms, call, agent, owed>>

\* offer_dialog: a delivery was refused because of the dialog; the watch goes on
OfferOnRefusal(posted) ==
    /\ up /\ Optional("refuse") /\ owed /\ screen # NoDialog /\ dlg = {}
    /\ PutDialog(screen, FALSE, posted, record)
    /\ UNCHANGED <<up, perms, scan, call, watch, agent, owed>>

\* A click was dealt with, whether keys could be pressed or not
Done(p) ==
    /\ up /\ p \in dlg
    /\ dlg' = dlg \ {p} /\ record' = record \ {p}
    /\ watch' = Resumed(watch, TRUE)

\* on_dialog_click, on_questions_submit: keys on whatever the screen shows now
PressRow(p) ==
    /\ Done(p)
    /\ screen # NoDialog /\ screen' = NoDialog
    /\ UNCHANGED <<up, perms, scan, call, live, turn, owed>>

\* The dialog is gone, has no such row, or its cursor will not move
RefuseRow(p) ==
    /\ Done(p)
    /\ UNCHANGED <<up, perms, scan, call, agent, owed>>

\* A turn that is cut short gives up its open hooks, and the question it was to draw
Unfinished(h) == call[h] = "open" \/ (h \in Question /\ call[h] \in {"allow", "aside"})
CutHooks == call' = [h \in Hooked |-> IF Unfinished(h) THEN "gone" ELSE call[h]]

\* Cancel is Escape, whatever is on the screen
PressEscape(p) ==
    /\ Done(p)
    /\ screen' = NoDialog
    /\ IF live /\ screen = NoDialog THEN turn' = FALSE /\ CutHooks
                                   ELSE UNCHANGED <<turn, call>>
    /\ UNCHANGED <<up, perms, scan, live, owed>>

-----------------------------------------------------------------------------
(* The rest of a turn, as far as it moves the watch.                       *)

OnRequest ==                      \* on_inbound takes a request
    /\ up /\ ~owed
    /\ owed' = TRUE
    /\ watch' = [watch EXCEPT !.why = @ \cup {"turn"}]
    /\ UNCHANGED <<up, perms, dialogs, call, agent>>

OnDelivered ==                    \* and it was typed
    /\ up /\ owed /\ live /\ screen = NoDialog /\ ~turn
    /\ turn' = TRUE
    /\ watch' = Touched(watch, TRUE)
    /\ UNCHANGED <<up, perms, dialogs, call, live, screen, owed>>

\* Any hook that carries no decision
OnActivity ==
    /\ up /\ live /\ turn /\ screen = NoDialog
    /\ watch' = Touched(watch, FALSE)
    /\ UNCHANGED <<up, perms, dialogs, call, agent, owed>>

\* A reply, for all that is owed or for some of it
OnDisposition ==
    /\ up /\ live /\ turn /\ screen = NoDialog
    /\ watch' = Unwatched(watch)
    /\ owed' \in {owed, FALSE}
    /\ UNCHANGED <<up, perms, dialogs, call, agent>>

\* No hook is open and no question about to be drawn
AtRest == live /\ turn /\ screen = NoDialog /\ \A h \in Hooked : ~Unfinished(h)

\* The Stop hook is not blocked
OnStop ==
    /\ up /\ AtRest
    /\ turn' = FALSE
    /\ watch' = Resumed(Touched(watch, FALSE), FALSE)
    /\ UNCHANGED <<up, perms, dialogs, call, live, screen, owed>>

\* StopFailure: told, so settled, or to be delivered once more
OnTurnFailure ==
    /\ up /\ AtRest
    /\ turn' = FALSE
    /\ \/ owed' = FALSE /\ watch' = Unwatched(watch)
       \/ owed' = owed /\ watch' = Touched(watch, FALSE)
    /\ UNCHANGED <<up, perms, dialogs, call, live, screen>>

\* stall_tick folds a watch with nothing owed
Settle ==
    /\ up /\ watch.on /\ ~owed
    /\ watch' = Unwatched(watch)
    /\ UNCHANGED <<up, perms, dialogs, call, agent, owed>>

\* DIALOG_WATCH_QUIET_MS pass without activity; a reading takes less than that, and
\* so does a question from its hook to the screen
Quieten ==
    /\ watch.on /\ ~watch.quiet /\ ~scan.at
    /\ \A q \in Question : q \notin hookq /\ call[q] # "allow"
    /\ watch' = [watch EXCEPT !.quiet = TRUE]
    /\ UNCHANGED <<up, perms, dialogs, call, agent, owed>>

-----------------------------------------------------------------------------
(* The agent and its machine.                                              *)

\* A hook; with no Bridge to answer it comes back empty
CallHook(h) ==
    /\ live /\ turn /\ screen = NoDialog /\ call[h] = "none"
    /\ \A q \in Question : ~Unfinished(q)
    /\ call' = [call EXCEPT ![h] = IF up THEN "open" ELSE "aside"]
    /\ hookq' = IF up THEN hookq \cup {h} ELSE hookq
    /\ UNCHANGED <<up, pend, due, noted, granted, post, dialogs, watch, agent, owed>>

\* The question comes up once its hook came back
Draw(q) ==
    /\ live /\ screen = NoDialog /\ call[q] \in {"allow", "aside"}
    /\ screen' = q
    /\ call' = [call EXCEPT ![q] = "drawn"]
    /\ UNCHANGED <<up, perms, dialogs, watch, live, turn, owed>>

\* A question on its way takes the screen first
OpenModal(m) ==
    /\ live /\ screen = NoDialog /\ \A q \in Question : ~Unfinished(q)
    /\ screen' = m
    /\ UNCHANGED <<up, perms, dialogs, call, watch, live, turn, owed>>

\* Someone answers at the machine
AnswerAtMachine ==
    /\ screen # NoDialog
    /\ screen' = NoDialog
    /\ UNCHANGED <<up, perms, dialogs, call, watch, live, turn, owed>>

\* The agent's process goes, by itself or terminated with what was owed
AgentEnds ==
    /\ live /\ Optional("end")
    /\ live' = FALSE /\ turn' = FALSE /\ screen' = NoDialog
    /\ CutHooks
    /\ owed' \in {owed, FALSE}
    /\ UNCHANGED <<up, perms, dialogs, watch>>

AgentResumed ==
    /\ up /\ ~live /\ owed
    /\ live' = TRUE
    /\ UNCHANGED <<up, perms, dialogs, call, watch, turn, screen, owed>>

-----------------------------------------------------------------------------
(* Restarts.  Hooks lose their connection and come back empty.             *)

Restart ==
    /\ up /\ Optional("restart")
    /\ up' = FALSE
    /\ hookq' = {} /\ pend' = {} /\ due' = {} /\ dlg' = {}
    /\ watch' = Quiescent /\ scan' = NoScan
    /\ call' = [h \in Hooked |-> IF call[h] = "open" THEN "aside" ELSE call[h]]
    /\ UNCHANGED <<noted, record, granted, post, agent, owed>>

\* fold_stale_perm_prompts, adopt_dialog_prompts, restore_pending
Boot ==
    /\ ~up /\ up' = TRUE
    /\ \E failed \in SUBSET noted :
         /\ failed = {} \/ Optional("slackfail")
         /\ post' = [c \in Call |-> IF c \in failed THEN "left"
                                    ELSE IF c \in noted THEN "folded" ELSE post[c]]
    /\ noted' = {}
    /\ dlg' = (IF live THEN record ELSE {}) /\ record' = dlg'
    /\ owed' = (owed /\ live)
    /\ watch' = IF owed' THEN [Quiescent EXCEPT !.on = TRUE, !.why = {"turn"}]
                         ELSE watch
    /\ UNCHANGED <<hookq, pend, due, granted, call, agent, scan>>

-----------------------------------------------------------------------------

PermStep == \E c \in Call : \/ OnPerm(c) \/ Deadline(c) \/ ExpirePerm(c)
                            \/ \E action \in {"allow", "allow-for-good", "deny"} :
                                 OnPermClick(c, action)
DialogStep ==
    \/ \E q \in Question : OnQuestion(q)
    \/ Kick \/ \E posted \in BOOLEAN : DecideDialogs(posted) \/ OfferOnRefusal(posted)
    \/ \E p \in dlg : PressRow(p) \/ RefuseRow(p) \/ PressEscape(p)
TurnStep == \/ OnRequest \/ OnDelivered \/ OnActivity \/ OnDisposition \/ OnStop
            \/ OnTurnFailure \/ Settle \/ Quieten
AgentStep == \/ \E h \in Hooked : CallHook(h)
             \/ \E q \in Question : Draw(q)
             \/ \E m \in Modal : OpenModal(m)
             \/ AnswerAtMachine \/ AgentEnds \/ AgentResumed

Next == PermStep \/ DialogStep \/ TurnStep \/ AgentStep \/ Restart \/ Boot

Spec == Init /\ [][Next]_vars

-----------------------------------------------------------------------------
(* Safety.                                                                 *)

\* The table, the record on disk and the thread agree: a prompt with buttons is
\* one the table knows, and the next process will know (on_perm, on_perm_click,
\* expire_perm_prompts, fold_stale_perm_prompts), unless Slack refused to rewrite
\* it ("left").  Otherwise a click would be answered with silence.
PromptsAgree ==
    /\ up => pend = noted
    /\ \A c \in Call : post[c] = "up" <=> c \in noted

\* What the thread shows of a permission is what the agent was told, whoever came
\* first: a click, the deadline, a restart or the agent's end.
ToldTheTruth ==
    \A c \in Call :
        /\ post[c] = "allowed" => call[c] \in {"allow", "gone"}
        /\ post[c] = "denied" => call[c] \in {"deny", "gone"}
        /\ post[c] \in {"folded", "deleted"} => call[c] \in {"aside", "gone"}

\* A hook the agent holds open is in somebody's hands, so no tool call hangs
\* because its answer was forgotten (HookEvent.respond, PermPending).
HookIsHeld ==
    \A h \in Hooked : call[h] = "open" => up /\ h \in hookq \cup pend

\* A dialog prompt whose buttons work is written down, so they still work after a
\* restart (put_dialog, adopt_dialog_prompts).
AskedOutlivesRestart == dlg \subseteq record

\* Memory, disk and thread tell of the same prompts at every moment, so a click
\* finds its prompt before a restart and after it.
PromptsRecorded == TypeOK /\ PromptsAgree /\ AskedOutlivesRestart

\* A question's form is not taken down because the screen was read just before the
\* question was drawn, in a thread that waits for an answer (decide_dialogs' quiet
\* check: the hook counts as activity, and a reading older than it is passed over).
FormStays ==
    [][\A posted \in BOOLEAN : DecideDialogs(posted) /\ scan.saw = NoDialog =>
         \A p \in dlg : p.form /\ watch.on /\ screen = p.dialog => p \in dlg']_vars

-----------------------------------------------------------------------------
(* Liveness.  The loop takes what waits for it, timers elapse, screens are  *)
(* read round after round.  A reading takes a second of every ten, so a    *)
(* quiet thread is found quiet in the end, and Slack takes a post in the    *)
(* end: strong fairness of the two.                                        *)

Fairness ==
    /\ \A c \in Call : WF_vars(OnPerm(c)) /\ WF_vars(Deadline(c)) /\ WF_vars(ExpirePerm(c))
    /\ \A q \in Question : WF_vars(OnQuestion(q))
    /\ WF_vars(Boot) /\ WF_vars(Kick) /\ WF_vars(\E posted \in BOOLEAN : DecideDialogs(posted))
    /\ SF_vars(Quieten) /\ SF_vars(DecideDialogs(TRUE))

FairSpec == Spec /\ Fairness

\* Every hook comes back: answered at once, by a click, by the deadline, or by the
\* end of the process that held it.
HooksReturn == \A h \in Hooked : call[h] = "open" ~> call[h] # "open"

\* A dialog that stays on the screen is offered to the thread, whatever prompt was
\* left there before it, unless the process is restarted for ever
\* (read_dialog_screens, decide_dialogs).
DialogReachesThread ==
    \/ []<><<Restart>>_vars
    \/ \A d \in Dialog : live /\ screen = d ~> screen # d \/ \E p \in dlg : p.dialog = d

\* Nobody waits for an answer that cannot come: neither the agent for its hook,
\* nor its thread for the dialog on the screen.
NobodyIsLeftWaiting == HooksReturn /\ DialogReachesThread

=============================================================================
