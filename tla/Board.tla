-------------------------------- MODULE Board -------------------------------
(***************************************************************************)
(* The progress message of one thread: one Slack message per round that    *)
(* lists what the agent does, redrawn in place, kept when the round is     *)
(* answered and taken away when it ends in silence (sticky.rs, and its     *)
(* callers in turn.rs).                                                    *)
(*                                                                         *)
(* The Bridge is one loop, but every call to Slack runs beside it: calls   *)
(* land in any order, fail, or land without their answer coming back.      *)
(* The answer to a first post returns to the loop as a report, which may   *)
(* find another round on the board than the one it was sent for.           *)
(*                                                                         *)
(* How rows are folded, diffed and worded is left out; that the hooks of   *)
(* one tool call arrive in any order is not.                               *)
(***************************************************************************)
EXTENDS Naturals, Sequences, FiniteSets

CONSTANTS
    Tool,       \* tool calls that make a row
    None,       \* no sticky, no message
    MaxRounds,  \* bound on the stickies opened
    MaxRows,    \* bound on the rows of one
    MaxCalls,   \* bound on the calls to Slack
    MaxFaults   \* bound on calls that fail

ASSUME ToolAssumption == None \notin Tool \cup Nat /\ Tool \cap {"said", "stopped", "expired"} = {}
ASSUME BoardBoundAssumption == {MaxRounds, MaxRows, MaxCalls, MaxFaults} \subseteq Nat

VARIABLES
    board,    \* StickyBoard.stickies: the round the thread's messages go to
    settled,  \* StickyBoard.settled: "no", or how the last round ended
    held,     \* StickyBoard.held: is there narration that came after an answer
    closed,   \* StickyBoard.closed: the turn is over
    out,      \* calls on their way to Slack
    reports,  \* answers to first posts on their way to the loop
    slack,    \* the progress messages as the thread shows them
    opened,   \* how many rounds the board has had
    ending,   \* what became of each round, with its last rows
    crossed,  \* what went wrong on the way: see Crossings
    calls, faults

boardVars == <<board, settled, held, closed, opened, ending>>
wireVars == <<out, reports, slack, crossed, calls, faults>>
vars == <<board, settled, held, closed, out, reports, slack, opened, ending, crossed, calls, faults>>

ToolStatus == {"pending", "over"}  \* over: done, failed or denied
\* after: it came once the round was answered; late: once the turn was over
Row == [what : Tool \cup {"said", "stopped", "expired"}, status : ToolStatus, after : BOOLEAN, late : BOOLEAN]
Rounds == 1 .. MaxRounds
Message == 1 .. MaxCalls

Sticky == [round : Rounds, rows : SUBSET Row, posted : Message \cup {None},
           posting : BOOLEAN, dirty : BOOLEAN]

\* late: a report found another round than its own on the board; overtaken: an
\* older picture landed last; lost: a post landed and was reported as failed
Crossings == {"late", "overtaken", "lost"}

TypeOK ==
    /\ board \in {None} \cup Sticky
    /\ settled \in {"no", "answered", "silent"}
    /\ held \in BOOLEAN /\ closed \in BOOLEAN
    /\ \A c \in out : c.n \in 1 .. MaxCalls /\ c.kind \in {"post", "update", "delete"}
    /\ \A i \in DOMAIN reports : reports[i].ts \in Message \cup {None}
    /\ DOMAIN slack \subseteq Message
    /\ opened \in 0 .. MaxRounds /\ DOMAIN ending = Rounds
    /\ crossed \subseteq Crossings /\ calls \in 0 .. MaxCalls /\ faults \in 0 .. MaxFaults
    /\ board # None /\ board.posting => board.posted = None

-----------------------------------------------------------------------------
(* The board                                                               *)

Fresh(round) ==
    [round |-> round, rows |-> {}, posted |-> None, posting |-> FALSE, dirty |-> FALSE]

\* stickies.entry(key).or_default(): a round of its own when there is none
OrDefault == IF board = None THEN Fresh(opened + 1) ELSE board
Counted(s) == opened' = IF s.round > opened THEN s.round ELSE opened

Note(what) == [what |-> what, status |-> "over", after |-> FALSE, late |-> FALSE]
ARow(what, status) == [what |-> what, status |-> status, after |-> settled # "no", late |-> closed]
HeldRows == IF held THEN {[what |-> "said", status |-> "over", after |-> TRUE, late |-> FALSE]} ELSE {}
Drawable(s) == s.rows # {}

\* The round s with one more row, to be drawn
Added(s, row) == [s EXCEPT !.rows = @ \cup {row}, !.dirty = TRUE]
Room(s) == s.round <= MaxRounds /\ Cardinality(s.rows) < MaxRows

Init ==
    /\ board = None /\ settled = "no" /\ held = FALSE /\ closed = FALSE
    /\ out = {} /\ reports = <<>> /\ slack = <<>>
    /\ opened = 0 /\ ending = [r \in Rounds |-> [how |-> "open", rows |-> {}]]
    /\ crossed = {} /\ calls = 0 /\ faults = 0

\* A request was taken in: a round of its own, the last one stays as a record
OnTurnStart ==
    /\ opened < MaxRounds
    /\ board' = Fresh(opened + 1) /\ opened' = opened + 1
    /\ settled' = "no" /\ held' = FALSE /\ closed' = FALSE
    /\ UNCHANGED <<ending, wireVars>>

\* The stop hook let the turn end
OnTurnEnd ==
    /\ closed' = TRUE /\ held' = FALSE
    /\ UNCHANGED <<board, settled, opened, ending, wireVars>>

\* Whether a tool's row may be drawn, and on which sticky: after an answer or
\* a silence it opens another one, with the narration that was held
OpenAfterAnswer == ~closed
Base == IF settled = "no" THEN OrDefault
        ELSE [Fresh(opened + 1) EXCEPT !.rows = HeldRows]

Status(rows, t, status) == {IF row.what = t THEN [row EXCEPT !.status = status] ELSE row : row \in rows}
Upserted(rows, t, status) ==
    IF \E row \in rows : row.what = t THEN Status(rows, t, status) ELSE rows \cup {ARow(t, status)}

UpsertTool(t, status) ==
    /\ OpenAfterAnswer
    /\ Base.round <= MaxRounds
    /\ LET s == Base rows == Upserted(s.rows, t, status) IN
       /\ Cardinality(rows) <= MaxRows
       /\ board' = [s EXCEPT !.rows = rows, !.dirty = TRUE]
       /\ Counted(s)
    /\ settled' = "no"
    /\ held' = (held /\ settled = "no")
    /\ UNCHANGED <<closed, ending, wireVars>>

\* Narration is drawn while the round runs, held after an answer, dropped
\* after a silence
PushNarration ==
    /\ ~closed
    /\ \/ /\ settled = "answered" /\ held' = TRUE
          /\ UNCHANGED <<board, opened>>
       \/ /\ settled = "no"
          /\ Room(Base) /\ board' = Added(Base, ARow("said", "over"))
          /\ Counted(Base) /\ UNCHANGED held
    /\ UNCHANGED <<settled, closed, ending, wireVars>>

\* A permission prompt ran out: a note, and the row that stalled stays
OnPermTimeout ==
    /\ settled = "no"
    /\ Room(OrDefault) /\ board' = Added(OrDefault, Note("expired"))
    /\ Counted(OrDefault)
    /\ UNCHANGED <<settled, held, closed, ending, wireVars>>

OnPermDenied(t) ==
    /\ settled = "no" /\ board # None
    /\ \E row \in board.rows : row.what = t
    /\ board' = [board EXCEPT !.rows = Status(@, t, "over"), !.dirty = TRUE]
    /\ UNCHANGED <<settled, held, closed, opened, ending, wireVars>>

\* A person stopped the turn: one closing row, and silence from there on
OnInterrupted ==
    /\ settled = "no"
    /\ Room(OrDefault) /\ board' = Added(OrDefault, Note("stopped"))
    /\ Counted(OrDefault)
    /\ settled' = "silent"
    /\ UNCHANGED <<held, closed, ending, wireVars>>

-----------------------------------------------------------------------------
(* Calls to Slack                                                          *)

\* flush_sticky: a first post or an update; nothing when there is nothing to
\* show.  s is the picture, to the message it goes to.
Draw(s, to) ==
    [kind |-> IF to = None THEN "post" ELSE "update", n |-> calls + 1, ts |-> to,
     round |-> s.round, rows |-> s.rows]

Delete(ts, round) ==
    [kind |-> "delete", n |-> calls + 1, ts |-> ts, round |-> round, rows |-> {}]

Send(cs) ==
    /\ calls + Cardinality(cs) <= MaxCalls
    /\ out' = out \cup cs /\ calls' = calls + Cardinality(cs)

\* mutant: a post that is out does not hold back the next
FlushStickies_Reposts ==
    /\ board # None /\ board.dirty
    /\ board' = [board EXCEPT !.dirty = FALSE]
    /\ Send(IF Drawable(board) THEN {Draw(board, board.posted)} ELSE {})
    /\ UNCHANGED <<settled, held, closed, opened, ending, reports, slack, crossed, faults>>

\* take_dirty: one picture per tick, and none while the first post is out
FlushStickies ==
    /\ board # None /\ board.dirty /\ ~board.posting
    /\ board' = [board EXCEPT !.dirty = FALSE, !.posting = board.posted = None]
    /\ Send(IF Drawable(board) THEN {Draw(board, board.posted)} ELSE {})
    /\ UNCHANGED <<settled, held, closed, opened, ending, reports, slack, crossed, faults>>

\* take_final: what the round still has to show, unless its first post is out
TakeFinal ==
    IF board # None /\ board.dirty /\ ~board.posting /\ Drawable(board)
    THEN {Draw(board, board.posted)} ELSE {}

Ended(how) ==
    ending' = IF board = None THEN ending
              ELSE [ending EXCEPT ![board.round] =
                      [how |-> how, rows |-> IF how = "answered" THEN board.rows ELSE {}]]

\* reply and edit: the last picture, and the message stays as a record
SettleAnswered ==
    /\ Send(TakeFinal)
    /\ Ended("answered")
    /\ board' = None /\ settled' = "answered"
    /\ UNCHANGED <<held, closed, opened, reports, slack, crossed, faults>>

\* no_reply and react: the message goes
SettleSilent ==
    /\ Send(IF board # None /\ board.posted # None THEN {Delete(board.posted, board.round)} ELSE {})
    /\ Ended("silent")
    /\ board' = None /\ settled' = "silent"
    /\ UNCHANGED <<held, closed, opened, reports, slack, crossed, faults>>

\* What a call does to the thread when Slack takes it
Shown(c) == [round |-> c.round, rows |-> c.rows, n |-> c.n, gone |-> FALSE]
Applied(c) ==
    CASE c.kind = "post" -> [m \in DOMAIN slack \cup {c.n} |-> IF m = c.n THEN Shown(c) ELSE slack[m]]
      [] c.kind = "update" -> IF slack[c.ts].gone THEN slack
                              ELSE [slack EXCEPT ![c.ts] = [Shown(c) EXCEPT !.round = slack[c.ts].round]]
      [] OTHER -> [slack EXCEPT ![c.ts].gone = TRUE]

Land(c) ==
    /\ out' = out \ {c}
    /\ slack' = Applied(c)
    /\ reports' = IF c.kind = "post" THEN Append(reports, [round |-> c.round, ts |-> c.n]) ELSE reports
    /\ crossed' = IF c.kind = "update" /\ slack[c.ts].n > c.n THEN crossed \cup {"overtaken"} ELSE crossed
    /\ UNCHANGED <<boardVars, calls, faults>>

\* It does not land, or it lands and is reported as if it had not
Fail(c) ==
    /\ faults < MaxFaults /\ faults' = faults + 1
    /\ out' = out \ {c}
    /\ \/ UNCHANGED <<slack, crossed>>
       \/ c.kind = "post" /\ slack' = Applied(c) /\ crossed' = crossed \cup {"lost"}
    /\ reports' = IF c.kind = "post" THEN Append(reports, [round |-> c.round, ts |-> None]) ELSE reports
    /\ UNCHANGED <<boardVars, calls>>

\* mutant: a post that did not land leaves the board waiting for it
PostFailed_Waits(s) == [s EXCEPT !.dirty = TRUE]

PostFailed(s) == [s EXCEPT !.posting = FALSE, !.dirty = TRUE]

Posted(ts) == [OrDefault EXCEPT !.posted = ts, !.posting = FALSE]

\* on_sticky_posted: the board learns where its message is, and draws what
\* was held back meanwhile
Report ==
    /\ reports # <<>> /\ reports' = Tail(reports)
    /\ crossed' = IF board # None /\ board.round = Head(reports).round THEN crossed
                  ELSE crossed \cup {"late"}
    /\ LET ts == Head(reports).ts
           s == Posted(ts)
       IN  IF ts = None
           THEN /\ board' = IF board = None THEN None ELSE PostFailed(board)
                /\ UNCHANGED <<opened, out, calls>>
           ELSE /\ s.round <= MaxRounds /\ Counted(s)
                /\ board' = [s EXCEPT !.dirty = FALSE]
                /\ Send(IF s.dirty /\ Drawable(s) THEN {Draw(s, ts)} ELSE {})
    /\ UNCHANGED <<settled, held, closed, ending, slack, faults>>

-----------------------------------------------------------------------------
Agent ==
    \/ OnTurnStart \/ OnTurnEnd
    \/ \E t \in Tool, status \in {"pending", "over"} : UpsertTool(t, status)
    \/ PushNarration
    \/ SettleAnswered \/ SettleSilent

Prompt == OnPermTimeout \/ OnInterrupted \/ \E t \in Tool : OnPermDenied(t)

Wire == \E c \in out : Land(c) \/ Fail(c)

\* Behaviours are followed up to the first crossing: beyond it nothing is said
Next == crossed = {} /\ (Agent \/ Prompt \/ FlushStickies \/ Report \/ Wire)

Spec == Init /\ [][Next]_vars

\* The tick comes every half second, and every call to Slack ends
Fairness == WF_vars(FlushStickies) /\ WF_vars(Report) /\ WF_vars(Wire)

FairSpec == Spec /\ Fairness

-----------------------------------------------------------------------------
(* What it must keep                                                       *)

Quiet == out = {} /\ reports = <<>>
Pictures == {slack[m] : m \in DOMAIN slack} \cup out
Messages(r) == {m \in DOMAIN slack : slack[m].round = r}

\* A closing remark never opens a message of its own: what the agent says
\* after its answer is shown only together with a tool that ran after it
\* (open_after_answer, push_narration).
RemarksNeedWork ==
    \A p \in Pictures : \A row \in p.rows :
       row.what = "said" /\ row.after => \E other \in p.rows : other.what \in Tool /\ other.after

\* Nothing the agent does after its turn is over reaches the thread, not even
\* with the next round (on_turn_end, on_turn_start).
NothingTrickles ==
    \A p \in Pictures : \A row \in p.rows : ~row.late

\* A round has one message, as long as no report is late and none is lost
\* (Sticky.posting).
OneMessage == crossed = {} => \A r \in Rounds : Cardinality(Messages(r)) < 2

\* Once every call has landed, an answered round shows its last picture and
\* is not taken away (take_final, settle).
RecordsStay ==
    Quiet /\ crossed = {} /\ faults = 0 =>
       \A r \in Rounds : ending[r].how = "answered" /\ ending[r].rows # {} =>
          \E m \in Messages(r) : ~slack[m].gone /\ slack[m].rows = ending[r].rows

\* Once every call has landed, a round that ended in silence left no message
\* (settle).
SilenceLeavesNothing ==
    Quiet /\ crossed = {} /\ faults = 0 =>
       \A r \in Rounds : ending[r].how = "silent" => \A m \in Messages(r) : slack[m].gone

\* The thread sees one message per round, made of what happened in the round.
OnePictureARound == TypeOK /\ RemarksNeedWork /\ NothingTrickles /\ OneMessage

\* A round ends as its answer says: kept with its last picture, or taken away.
EndsAsAnswered == RecordsStay /\ SilenceLeavesNothing

\* Both: what the thread sees of a round while it runs, and what stays of it.
RoundsShownTrue == OnePictureARound /\ EndsAsAnswered

\* The board always catches up with what it has to show: no post is waited
\* for in vain (take_dirty, post_failed).
Drawn == []<>(board = None \/ ~board.dirty \/ crossed # {} \/ calls = MaxCalls)
=============================================================================
