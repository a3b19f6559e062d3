------------------------------ MODULE Terminal ------------------------------
(***************************************************************************)
(* One agent's terminal, and the tasks that read its screen and press its  *)
(* keys (agent/claude.rs, command/agent.rs, agent/tmux.rs): a body being   *)
(* handed over, a setting being changed, the effort slider being read, a   *)
(* compaction, the mode key, and a dialog or a question form being         *)
(* answered row by row.  They run beside each other and nothing locks the  *)
(* window; each looks at the screen to know what its next key would do.    *)
(*                                                                         *)
(* The agent's own screen is external: Takes says what it may do with a     *)
(* key.  A look of the row walker sees the last drawn frame, which lags;   *)
(* the other tasks pause before they look, and see the screen as it is.    *)
(***************************************************************************)
EXTENDS Naturals, Sequences

CONSTANTS
    Options,     \* rows the agent offers in a list, 0 .. Options - 1
    Asks,        \* the forms it may put up: sequences of "one" and "many"
    Levels,      \* values a setting can have
    ModeCycle,   \* how many modes the mode key steps through
    Retries,     \* bound on Enters pressed again
    MaxJobs,     \* bound on tasks started
    MaxEvents    \* bound on what the agent and the people at the machine do

VARIABLES
    scr,         \* the screen
    seen,        \* the list in the last drawn frame: its question and row
    job,         \* each kind of task
    want,        \* the answers a person gave, one for each question
    setting,     \* what the last setting or mode change was said to have set
    unanswered,  \* the ledger has a request of this thread
    jobs,        \* tasks started, events
    slip         \* something happened the code makes no promise for

terminalVars == <<scr, seen, job, want, setting, unanswered, jobs, slip>>

Kind == {"deliver", "set", "effort", "compact", "mode", "answer"}
Commands == {"set", "effort", "compact", "mode"}
Row == 0 .. Options
Unset == 0
Idle == [pc |-> "none", i |-> 0, r |-> 0, v |-> Unset]

\* Where the box takes keys, and where a dialog with a cancel hint has them
Boxes == {"input", "turn", "compacting"}
Modals == {"list", "confirm", "slider"}

\* What is assumed of the constants: settings have values, lists have rows, modes
\* are stepped through, and a form asks something
TerminalGiven ==
    /\ Options \in Nat \ {0} /\ ModeCycle \in Nat \ {0} /\ Unset \notin Levels
    /\ \A ks \in Asks : ks \in Seq({"one", "many"}) /\ Len(ks) > 0

Screen ==
    [view : Boxes \cup Modals \cup {"review", "gone"},
     box : SUBSET (Kind \ {"mode", "answer"}), asked : Levels \cup {Unset},
     row : Row, ask : Nat, kinds : Asks \cup {<<>>}, form : BOOLEAN, typed : BOOLEAN,
     got : Seq(SUBSET Row), sent : BOOLEAN,
     level : Levels, lines : SUBSET Levels, status : Levels \cup {Unset},
     nothing : BOOLEAN, done : BOOLEAN, mode : 1 .. ModeCycle]

TerminalTypeOK ==
    /\ scr \in Screen
    /\ seen \in [ask : Nat, row : Row]
    /\ DOMAIN job = Kind /\ setting.set \in Levels \cup {Unset} /\ setting.mode \in 0 .. ModeCycle
    /\ unanswered \in BOOLEAN /\ slip \in BOOLEAN
    /\ jobs.jobs \in 0 .. MaxJobs /\ jobs.events \in 0 .. MaxEvents

-----------------------------------------------------------------------------
(* The agent's screen (external)                                           *)

Closed(s, view) == [s EXCEPT !.view = view, !.kinds = <<>>, !.ask = 0, !.row = 0, !.typed = FALSE]
Reviewed(s) == Len(s.kinds) > 1 \/ \E q \in DOMAIN s.kinds : s.kinds[q] = "many"

\* On to the next question, to the review screen - which has no cancel hint, and
\* so is no list to whoever looks - or back to work
MoveOn(s) ==
    IF s.ask < Len(s.kinds)
      THEN [s EXCEPT !.ask = @ + 1, !.row = 0, !.typed = FALSE]
      ELSE IF s.form /\ Reviewed(s) THEN [s EXCEPT !.view = "review", !.ask = 0, !.row = 0]
                                    ELSE [Closed(s, "turn") EXCEPT !.sent = TRUE]

Ticked(set, x) == IF x \in set THEN set \ {x} ELSE set \cup {x}

\* Enter on a row: takes it, ticks it, or - on an empty "Type something" -
\* declines the whole dialog
TakeRow(s) ==
    IF s.form /\ s.row = Options
      THEN IF s.typed THEN MoveOn([s EXCEPT !.got[s.ask] = @ \cup {Options}]) ELSE Closed(s, "turn")
      ELSE IF s.kinds[s.ask] = "many" THEN [s EXCEPT !.got[s.ask] = Ticked(@, s.row)]
                                      ELSE MoveOn([s EXCEPT !.got[s.ask] = {s.row}])

Set(s) == [s EXCEPT !.view = "input", !.level = s.asked]

\* Enter in the box: what is in it is submitted, unless the completion menu of
\* a command eats the key
Submitted(s) ==
    LET out == [s EXCEPT !.box = {}] IN
    IF s.box = {} \/ s.view # "input" THEN {s, out}
    ELSE IF "deliver" \in s.box THEN {[out EXCEPT !.view = "turn"]}
    ELSE IF "set" \in s.box THEN {s, [Set(out) EXCEPT !.lines = @ \cup {s.asked}, !.status = Unset]}
                                 \cup {c \in {[out EXCEPT !.view = "confirm"]} : s.asked # s.level}
    ELSE IF "effort" \in s.box THEN {s, [out EXCEPT !.view = "slider"]}
    ELSE {s, [out EXCEPT !.view = "compacting"], [out EXCEPT !.nothing = TRUE]}

Entered(s) ==
    CASE s.view \in Boxes   -> Submitted(s)
      [] s.view = "confirm" -> {[Set(s) EXCEPT !.status = s.asked]}
      [] s.view = "slider"  -> {[s EXCEPT !.view = "input", !.status = s.level]}
      [] s.view = "list"    -> {TakeRow(s)}
      [] s.view = "review"  -> {[Closed(s, "turn") EXCEPT !.sent = TRUE]}
      [] OTHER -> {s}

Escaped(s) ==
    CASE s.view \in {"input", "turn", "compacting"} -> {[s EXCEPT !.view = "input", !.box = {}]}
      [] s.view \in {"slider", "confirm"} -> {[s EXCEPT !.view = "input", !.status = s.level]}
      [] s.view \in {"list", "review"} -> {Closed(s, "turn")}
      [] OTHER -> {s}

\* The last row a cursor reaches: a form has "Type something" under its own
Last(s) == IF s.form THEN Options ELSE Options - 1

Takes(s, key) ==
    CASE key = "Enter"  -> Entered(s)
      [] key = "Escape" -> Escaped(s)
      [] key = "Down"   -> {IF s.view = "list" /\ s.row < Last(s) THEN [s EXCEPT !.row = @ + 1] ELSE s}
      [] key = "Up"     -> {IF s.view = "list" /\ s.row > 0 THEN [s EXCEPT !.row = @ - 1] ELSE s}
      [] key = "Right"  -> {IF s.view = "list" THEN MoveOn(s) ELSE s}
      [] key = "BTab"   -> {IF s.view \in Boxes THEN [s EXCEPT !.mode = (@ % ModeCycle) + 1] ELSE s}
      [] key = "text"   -> {IF s.view = "list" /\ s.row = Options THEN [s EXCEPT !.typed = TRUE] ELSE s}

Typed(s, what, v) ==
    IF s.view \in Boxes THEN [s EXCEPT !.box = @ \cup {what}, !.asked = v] ELSE s

Frame == [ask |-> scr.ask, row |-> scr.row]

TerminalInit ==
    /\ scr = [view |-> "input", box |-> {}, asked |-> Unset, row |-> 0, ask |-> 0, kinds |-> <<>>,
              form |-> FALSE, typed |-> FALSE, got |-> <<>>, sent |-> FALSE,
              level |-> CHOOSE l \in Levels : \A k \in Levels : l <= k, lines |-> {}, status |-> Unset,
              nothing |-> FALSE, done |-> FALSE, mode |-> 1]
    /\ seen = [ask |-> 0, row |-> 0] /\ job = [k \in Kind |-> Idle] /\ want = <<>>
    /\ setting = [set |-> Unset, mode |-> Unset] /\ unanswered = FALSE
    /\ jobs = [jobs |-> 0, events |-> 0] /\ slip = FALSE

Free(k) == job[k].pc = "none"
Busy(ks) == {k \in ks : ~Free(k)}

Happens == jobs.events < MaxEvents /\ jobs' = [jobs EXCEPT !.events = @ + 1]

\* In a turn the agent asks: a dialog of its own, or a form of questions -
\* just after a delivery looked, nobody notices
AgentAsks ==
    /\ Happens /\ scr.view = "turn"
    /\ \E ks \in Asks, form \in BOOLEAN :
          /\ form \/ ks = <<"one">>
          /\ scr' = [scr EXCEPT !.view = "list", !.kinds = ks, !.form = form, !.ask = 1, !.row = 0,
                                !.typed = FALSE, !.got = [q \in DOMAIN ks |-> {}], !.sent = FALSE]
    /\ slip' = (slip \/ job["deliver"].pc \in {"type", "typed"})
    /\ UNCHANGED <<seen, job, want, setting, unanswered>>

\* Somebody at the machine answers or cancels what a task may be answering
PersonAnswers ==
    /\ Happens /\ scr.view = "list" /\ scr' = Closed(scr, "turn")
    /\ slip' = (slip \/ ~Free("answer"))
    /\ UNCHANGED <<seen, job, want, setting, unanswered>>

\* The turn's reply settles the ledger before the turn is over
Replies ==
    /\ scr.view = "turn" /\ unanswered /\ unanswered' = FALSE
    /\ UNCHANGED <<scr, seen, job, want, setting, jobs, slip>>

TurnIsOver ==
    /\ scr.view = "turn" /\ ~unanswered /\ scr' = [scr EXCEPT !.view = "input"]
    /\ UNCHANGED <<seen, job, want, setting, unanswered, jobs, slip>>

CompactionEnds ==
    /\ scr.view = "compacting" /\ scr' = [scr EXCEPT !.view = "input", !.done = TRUE]
    /\ UNCHANGED <<seen, job, want, setting, unanswered, jobs, slip>>

WindowDies ==
    /\ Happens /\ scr.view # "gone" /\ scr' = [Closed(scr, "gone") EXCEPT !.box = {}]
    /\ unanswered' = FALSE
    /\ UNCHANGED <<seen, job, want, setting, slip>>

Redraw ==
    /\ seen # Frame /\ seen' = Frame
    /\ UNCHANGED <<scr, job, want, setting, unanswered, jobs, slip>>


-----------------------------------------------------------------------------
(* The tasks                                                               *)

At(k, pc) == job[k].pc = pc
Become(k, r) == job' = [job EXCEPT ![k] = r]
Now(k, pc) == Become(k, [job[k] EXCEPT !.pc = pc])
End(k) == Become(k, Idle)
Press(key) == scr' \in Takes(scr, key)
Begins == jobs.jobs < MaxJobs /\ jobs' = [jobs EXCEPT !.jobs = @ + 1]

\* tui_guard: refused with unanswered requests, or without a process.  Nothing
\* is promised when another task types at the same time or is half done, when
\* the turn goes on after its reply, or when an old line on the screen already
\* says what is asked for
StartCommand(k) ==
    /\ Begins /\ Free(k) /\ scr.view # "gone" /\ ~unanswered
    /\ \E v \in CASE k = "set" -> Levels [] k = "mode" -> 1 .. ModeCycle [] OTHER -> {Unset} :
          /\ Become(k, [Idle EXCEPT !.pc = "type", !.v = v])
          /\ slip' = \/ slip \/ Busy(Kind) # {} \/ scr.box # {} \/ scr.view # "input"
                     \/ k = "set" /\ v \in scr.lines /\ scr.level # v
                     \/ k = "compact" /\ scr.nothing
    /\ UNCHANGED <<scr, seen, want, setting, unanswered>>

Guarded == \E k \in Commands : StartCommand(k)

\* send_command: the line, then Enter
TypeCommand(k) ==
    /\ At(k, "type")
    /\ IF scr.view = "gone"
          THEN End(k) /\ UNCHANGED scr
          ELSE /\ scr' = Typed(scr, k, IF k = "set" THEN job[k].v ELSE scr.asked)
               /\ Become(k, [job[k] EXCEPT !.pc = "typed", !.v = IF k = "compact" /\ scr.done THEN 1 ELSE @])
    /\ UNCHANGED <<seen, want, setting, unanswered, jobs, slip>>

EnterCommand(k) ==
    /\ At(k, "typed") /\ Press("Enter") /\ Now(k, "watch")
    /\ UNCHANGED <<seen, want, setting, unanswered, jobs, slip>>

Unsent(k) == scr.view \in Boxes /\ k \in scr.box

\* Enter again, while the completion menu keeps the command in the box
Again(k) ==
    /\ At(k, "watch") /\ Unsent(k) /\ job[k].i < Retries
    /\ Press("Enter") /\ Become(k, [job[k] EXCEPT !.i = @ + 1])
    /\ UNCHANGED <<seen, want, setting, unanswered, jobs, slip>>

\* drive: done once a line, or the status line, names what was asked for
Confirmed(v) == v \in scr.lines \/ scr.status = v

SetDone ==
    /\ At("set", "watch") /\ ~Unsent("set") /\ Confirmed(job["set"].v)
    /\ setting' = [setting EXCEPT !.set = job["set"].v] /\ End("set")
    /\ UNCHANGED <<scr, seen, want, unanswered, jobs, slip>>

\* drive: the dialog a session with history puts up; "Yes" is where the cursor is
ConfirmSet ==
    /\ At("set", "watch") /\ scr.view = "confirm" /\ ~Confirmed(job["set"].v) /\ job["set"].r < 2
    /\ Press("Enter") /\ Become("set", [job["set"] EXCEPT !.r = @ + 1])
    /\ UNCHANGED <<seen, want, setting, unanswered, jobs, slip>>

CleanUp == Press("Escape")

\* drive and effort give up and clear what they left on the screen
GiveUp(k) ==
    /\ k \in {"set", "effort"} /\ At(k, "watch") /\ CleanUp /\ End(k)
    /\ setting' = IF k = "set" THEN [setting EXCEPT !.set = Unset] ELSE setting
    /\ UNCHANGED <<seen, want, unanswered, jobs, slip>>

\* effort: the slider is closed, and the status line read
CloseSlider ==
    /\ At("effort", "watch") /\ scr.view = "slider" /\ Press("Escape") /\ End("effort")
    /\ UNCHANGED <<seen, want, setting, unanswered, jobs, slip>>

SeesCompaction ==
    /\ At("compact", "watch") /\ scr.view = "compacting" /\ job["compact"].r = 0
    /\ Become("compact", [job["compact"] EXCEPT !.r = 1])
    /\ UNCHANGED <<scr, seen, want, setting, unanswered, jobs, slip>>

\* compact: over when the spinner it saw is gone, a new marker shows, or there
\* was nothing to compact
CompactDone ==
    /\ At("compact", "watch")
    /\ \/ scr.nothing
       \/ scr.view # "compacting" /\ (job["compact"].r = 1 \/ (scr.done /\ job["compact"].v = 0))
    /\ End("compact")
    /\ UNCHANGED <<scr, seen, want, setting, unanswered, jobs, slip>>

\* compact gives up after six minutes, and leaves the screen as it is
CompactGivesUp ==
    /\ At("compact", "watch") /\ End("compact") /\ slip' = TRUE
    /\ UNCHANGED <<scr, seen, want, setting, unanswered, jobs>>

\* set_mode: one press, one look, and no more than a whole round
PressMode ==
    /\ At("mode", "type") /\ scr.mode # job["mode"].v /\ job["mode"].i < ModeCycle
    /\ Press("BTab") /\ Become("mode", [job["mode"] EXCEPT !.i = @ + 1])
    /\ UNCHANGED <<seen, want, setting, unanswered, jobs, slip>>

ModeEnds ==
    /\ At("mode", "type") /\ (scr.mode = job["mode"].v \/ job["mode"].i = ModeCycle)
    /\ setting' = [setting EXCEPT !.mode = IF scr.mode = job["mode"].v THEN scr.mode ELSE Unset]
    /\ End("mode")
    /\ UNCHANGED <<scr, seen, want, unanswered, jobs, slip>>

-----------------------------------------------------------------------------
(* A body                                                                  *)

Deliver ==
    /\ Begins /\ Free("deliver") /\ Become("deliver", [Idle EXCEPT !.pc = "look"])
    /\ unanswered' = TRUE /\ slip' = (slip \/ Busy(Commands) # {})
    /\ UNCHANGED <<scr, seen, want, setting>>

\* not_accepting_keys; the review screen carries no cancel hint
Accepts == scr.view \notin Modals \cup {"gone"}

DeliverLooks ==
    /\ At("deliver", "look")
    /\ IF Accepts THEN Now("deliver", "type") ELSE End("deliver")
    /\ slip' = (slip \/ scr.view = "review")
    /\ UNCHANGED <<scr, seen, want, setting, unanswered, jobs>>

\* Pasted, and Enter after a pause: nobody looks in between
Paste ==
    /\ At("deliver", "type") /\ scr' = Typed(scr, "deliver", scr.asked) /\ Now("deliver", "typed")
    /\ UNCHANGED <<seen, want, setting, unanswered, jobs, slip>>

EnterBody ==
    /\ At("deliver", "typed") /\ Press("Enter") /\ Now("deliver", "watch")
    /\ UNCHANGED <<seen, want, setting, unanswered, jobs, slip>>

\* Enter again until the box is empty; a full box is no proof of failure
DeliverWatches ==
    /\ At("deliver", "watch")
    /\ IF Accepts /\ (scr.view = "review" \/ scr.box # {}) /\ job["deliver"].i < Retries
          THEN Press("Enter") /\ Become("deliver", [job["deliver"] EXCEPT !.i = @ + 1])
          ELSE UNCHANGED scr /\ End("deliver")
    /\ slip' = (slip \/ scr.view = "review")
    /\ UNCHANGED <<seen, want, setting, unanswered, jobs>>

-----------------------------------------------------------------------------
(* An answer, row by row                                                   *)

AnswersTo(kind) ==
    IF kind = "many" THEN {[how |-> "ticks", rows |-> <<a, b>>] : a, b \in 0 .. Options - 1}
                     ELSE {[how |-> "pick", rows |-> <<a>>] : a \in 0 .. Options - 1}
\* A form may be answered in words, on the row after the agent's own
InWords == IF scr.form THEN {[how |-> "words", rows |-> <<Options>>]} ELSE {}

Twice(a) == Len(a.rows) = 2 /\ a.rows[1] >= a.rows[2]
Meant(a) == {a.rows[i] : i \in DOMAIN a.rows}

\* A click comes long after the list was drawn
StartAnswer ==
    /\ Begins /\ Free("answer") /\ scr.view = "list" /\ seen = Frame /\ scr.ask = 1
    /\ \A q \in DOMAIN scr.got : scr.got[q] = {}
    /\ \E as \in [DOMAIN scr.kinds -> UNION {AnswersTo(k) : k \in {"one", "many"}} \cup InWords] :
          /\ \A q \in DOMAIN as : as[q] \in AnswersTo(scr.kinds[q]) \cup InWords /\ ~Twice(as[q])
          /\ want' = as
    /\ Become("answer", [pc |-> "walk", i |-> 1, r |-> 1, v |-> 0])
    /\ slip' = (slip \/ Busy(Commands) # {})
    /\ UNCHANGED <<scr, seen, setting, unanswered>>

\* answer_dialog, Cancel: Escape, and nobody looks first
Cancel ==
    /\ Begins /\ Free("answer") /\ Press("Escape") /\ slip' = (slip \/ scr.view # "list")
    /\ UNCHANGED <<seen, job, want, setting, unanswered>>

A == job["answer"]
Target == want[A.i].rows[A.r]
Shown == seen.ask # 0

\* cursor_to: the frame says where the cursor is
Walk ==
    /\ At("answer", "walk")
    /\ IF ~Shown THEN End("answer")
       ELSE IF seen.row = Target
              THEN Now("answer", IF want[A.i].how = "words" THEN "words" ELSE "enter")
              ELSE Become("answer", [A EXCEPT !.pc = IF Target > seen.row THEN "Down" ELSE "Up", !.v = seen.row])
    /\ UNCHANGED <<scr, seen, want, setting, unanswered, jobs, slip>>

Move ==
    /\ \E key \in {"Down", "Up"} : At("answer", key) /\ Press(key)
    /\ Now("answer", "moved")
    /\ UNCHANGED <<seen, want, setting, unanswered, jobs, slip>>

\* mutant: a pause instead of a look before the next key
Landed_Paused == TRUE

\* until_moved: the screen, not a timer, says when the key has landed
Landed == ~Shown \/ seen.row # A.v

Moved ==
    /\ At("answer", "moved") /\ Landed /\ Now("answer", "walk")
    /\ UNCHANGED <<scr, seen, want, setting, unanswered, jobs, slip>>

\* A redraw that takes longer than all the polls
MovedTooSlow ==
    /\ At("answer", "moved") /\ ~Landed /\ Now("answer", "walk") /\ slip' = TRUE
    /\ UNCHANGED <<scr, seen, want, setting, unanswered, jobs>>

Words ==
    /\ At("answer", "words") /\ Press("text") /\ Now("answer", "enter")
    /\ UNCHANGED <<seen, want, setting, unanswered, jobs, slip>>

EnterRow ==
    /\ At("answer", "enter") /\ Press("Enter")
    /\ IF A.r < Len(want[A.i].rows) THEN Become("answer", [A EXCEPT !.pc = "walk", !.r = @ + 1])
       ELSE IF want[A.i].how = "ticks" THEN Now("answer", "right")
       ELSE IF scr.form THEN Become("answer", [A EXCEPT !.pc = "next", !.v = seen.ask])
       ELSE End("answer")
    /\ UNCHANGED <<seen, want, setting, unanswered, jobs, slip>>

Right ==
    /\ At("answer", "right") /\ Press("Right") /\ Become("answer", [A EXCEPT !.pc = "next", !.v = seen.ask])
    /\ UNCHANGED <<seen, want, setting, unanswered, jobs, slip>>

NextQuestion ==
    IF A.i < Len(want) THEN Become("answer", [A EXCEPT !.pc = "walk", !.i = @ + 1, !.r = 1])
    ELSE IF Len(want) > 1 \/ (\E q \in DOMAIN want : want[q].how = "ticks") THEN Now("answer", "review")
         ELSE End("answer")

\* until_next_question: the frame shows another title, or no list
Turned == seen.ask # A.v

Next1 ==
    /\ At("answer", "next") /\ Turned /\ NextQuestion
    /\ UNCHANGED <<scr, seen, want, setting, unanswered, jobs, slip>>

NextTooSlow ==
    /\ At("answer", "next") /\ ~Turned /\ NextQuestion /\ slip' = TRUE
    /\ UNCHANGED <<scr, seen, want, setting, unanswered, jobs>>

\* The review screen is found by its own words; it may never come up
Review ==
    /\ At("answer", "review") /\ End("answer")
    /\ IF scr.view = "review" THEN Press("Enter") ELSE UNCHANGED scr
    /\ UNCHANGED <<seen, want, setting, unanswered, jobs, slip>>

-----------------------------------------------------------------------------
Outside == AgentAsks \/ PersonAnswers \/ Replies \/ TurnIsOver \/ CompactionEnds \/ WindowDies \/ Redraw
Command ==
    \/ Guarded \/ SetDone \/ ConfirmSet \/ CloseSlider \/ SeesCompaction \/ CompactDone \/ CompactGivesUp
    \/ PressMode \/ ModeEnds
    \/ \E k \in {"set", "effort", "compact"} : TypeCommand(k) \/ EnterCommand(k) \/ Again(k) \/ GiveUp(k)
Body == Deliver \/ DeliverLooks \/ Paste \/ EnterBody \/ DeliverWatches
Answer ==
    \/ StartAnswer \/ Cancel \/ Walk \/ Move \/ Moved \/ MovedTooSlow \/ Words \/ EnterRow \/ Right
    \/ Next1 \/ NextTooSlow \/ Review

\* Behaviours are followed up to the first slip: nothing is said beyond it
TerminalNext == ~slip /\ (Outside \/ Command \/ Body \/ Answer)
TerminalSpec == TerminalInit /\ [][TerminalNext]_terminalVars

AnswersAsMeant == scr.sent => scr.got = [q \in DOMAIN want |-> Meant(want[q])]

NothingLeft == Busy(Kind) = {} => scr.box \subseteq {"deliver"} /\ scr.view \notin {"slider", "confirm"}

SetAsTold ==
    /\ setting.set # Unset /\ Free("set") => scr.level = setting.set
    /\ setting.mode # Unset /\ Free("mode") => scr.mode = setting.mode

\* Keys land where they were meant.  What is sent from a form or a dialog is
\* what the person answered, row by row, whatever the redraws did in between and
\* whatever was being delivered; when nobody is at work the box holds no
\* half-typed command and no slider or confirmation of ours is left open for the
\* next body to fall into; and what a setting or the mode was said to be is what
\* it is. (cursor_to, until_moved, answer_questions; not_accepting_keys; drive,
\* effort, set_mode)
KeysLandWhereMeant == ~slip => AnswersAsMeant /\ NothingLeft /\ SetAsTold
=============================================================================
