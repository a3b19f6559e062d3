----------------------------- MODULE BoardProofs ----------------------------
(***************************************************************************)
(* Theorems about Board, for any tools and any bounds.                     *)
(*                                                                         *)
(* The invariant has a part that holds always (types, numbers, rows that   *)
(* may be shown), one that holds while nothing has crossed (one first post *)
(* per round, and a board that knows of it), and one that holds while      *)
(* nothing has failed either (what a round shows last, and what leaves).   *)
(* A step starts where nothing has crossed, so the second part is there to *)
(* rest on; the step that crosses keeps the first alone.                   *)
(***************************************************************************)
EXTENDS Board, FiniteSetTheorems, TLAPS

-----------------------------------------------------------------------------
(* The invariant.                                                          *)

Call == [kind : {"post", "update", "delete"}, n : 1 .. calls, ts : Message \cup {None},
         round : Rounds, rows : SUBSET Row]
Seen == [round : Rounds, rows : SUBSET Row, n : 1 .. calls, gone : BOOLEAN]
Told == [round : Rounds, ts : Message \cup {None}]
Ending == [how : {"open", "answered", "silent"}, rows : SUBSET Row]

BoardTyped ==
    /\ board \in {None} \cup Sticky
    /\ settled \in {"no", "answered", "silent"} /\ held \in BOOLEAN /\ closed \in BOOLEAN
    /\ opened \in 0 .. MaxRounds /\ ending \in [Rounds -> Ending]
    /\ board # None /\ board.posting => board.posted = None

WiresTyped ==
    /\ crossed \subseteq Crossings /\ calls \in 0 .. MaxCalls /\ faults \in 0 .. MaxFaults
    /\ out \subseteq Call /\ reports \in Seq(Told)
    /\ DOMAIN slack \subseteq 1 .. calls /\ \A m \in DOMAIN slack : slack[m] \in Seen

\* A call is told by its number; a post's number is its message's; whatever is not
\* a first post, and whoever knows where a message is, means one that is there
Ids ==
    /\ \A c, d \in out : c.n = d.n => c = d
    /\ \A c \in out : IF c.kind = "post" THEN c.n \notin DOMAIN slack ELSE c.ts \in DOMAIN slack
    /\ \A i \in DOMAIN reports : reports[i].ts # None =>
          reports[i].ts \in DOMAIN slack /\ slack[reports[i].ts].round = reports[i].round
    /\ board # None /\ board.posted # None => board.posted \in DOMAIN slack

\* Rows that may be shown together
Earned(rows) ==
    \A row \in rows : /\ ~row.late
                      /\ row.what = "said" /\ row.after =>
                           \E other \in rows : other.what \in Tool /\ other.after

RowsEarned ==
    /\ \A p \in Pictures : Earned(p.rows)
    /\ board # None => Earned(board.rows)
    /\ held => settled # "no"

\* The first post of a round is out, or its answer on the way back
Awaited(r) ==
    \/ \E c \in out : c.kind = "post" /\ c.round = r
    \/ \E i \in DOMAIN reports : reports[i].round = r

\* A round has one first post: it is out, it is reported and not there, or it is
\* there; and the board knows which
OnePost ==
    /\ \A c, d \in out : c.kind = "post" /\ d.kind = "post" /\ c.round = d.round => c = d
    /\ \A c \in out : c.kind = "post" =>
          /\ \A i \in DOMAIN reports : reports[i].round # c.round
          /\ \A m \in DOMAIN slack : slack[m].round # c.round
    /\ \A i, j \in DOMAIN reports : reports[i].round = reports[j].round => i = j
    /\ \A i \in DOMAIN reports : reports[i].ts = None =>
          \A m \in DOMAIN slack : slack[m].round # reports[i].round
    /\ \A m, k \in DOMAIN slack : slack[m].round = slack[k].round => m = k

BoardKnows ==
    board # None =>
      /\ board.round = opened
      /\ board.dirty \/ board.posting => board.rows # {}
      /\ board.posting => Awaited(board.round)
      /\ ~board.posting =>
           /\ ~Awaited(board.round)
           /\ \A m \in DOMAIN slack : slack[m].round = board.round => board.posted = m
           /\ board.posted # None => slack[board.posted].round = board.round

\* Nothing is about a round to come, and the board's round has not ended
Rounded ==
    /\ \A c \in out : c.round <= opened
    /\ \A i \in DOMAIN reports : reports[i].round <= opened
    /\ \A m \in DOMAIN slack : slack[m].round <= opened
    /\ \A r \in Rounds : ending[r].how # "open" => r <= opened /\ (board # None => board.round # r)

Tickets == OnePost /\ BoardKnows /\ Rounded

\* The newest call about a message, landed or not, shows these rows
Newest(m, rows) ==
    \/ /\ slack[m].rows = rows
       /\ \A d \in out : d.kind = "update" /\ d.ts = m => d.n < slack[m].n
    \/ \E c \in out :
         /\ c.kind = "update" /\ c.ts = m /\ c.rows = rows /\ slack[m].n < c.n
         /\ \A d \in out : d.kind = "update" /\ d.ts = m => d.n <= c.n
Latest(r, rows) ==
    \/ \E c \in out : c.kind = "post" /\ c.round = r /\ c.rows = rows
    \/ \E m \in DOMAIN slack : slack[m].round = r /\ Newest(m, rows)

Leaving(m) == slack[m].gone \/ \E c \in out : c.kind = "delete" /\ c.ts = m

\* Messages of silent rounds leave, and no others; what a round shows last is what
\* it ended with, or what the board holds
EndsMeet ==
    /\ \A i \in DOMAIN reports : reports[i].ts # None
    /\ \A m \in DOMAIN slack : Leaving(m) => ending[slack[m].round].how = "silent"
    /\ \A r \in Rounds : ending[r].how = "answered" /\ ending[r].rows # {} =>
          Awaited(r) \/ Latest(r, ending[r].rows)
    /\ \A r \in Rounds : ending[r].how = "silent" =>
          Awaited(r) \/ \A m \in DOMAIN slack : slack[m].round = r => Leaving(m)
    /\ board # None /\ ~board.dirty /\ board.rows # {} => Latest(board.round, board.rows)

Always == BoardTyped /\ WiresTyped /\ Ids /\ RowsEarned
BInv == /\ Always
        /\ crossed = {} => Tickets
        /\ crossed = {} /\ faults = 0 => EndsMeet

-----------------------------------------------------------------------------
(* Rows.                                                                   *)

LEMMA BoundsAreNumbers ==
    MaxRounds \in Nat /\ MaxRows \in Nat /\ MaxCalls \in Nat /\ MaxFaults \in Nat
BY BoardBoundAssumption

LEMMA NoneIsNoMessage == None \notin Message /\ None \notin Rounds
BY ToolAssumption, BoundsAreNumbers DEF Message, Rounds

LEMMA ARowIs ==
    ASSUME BoardTyped, NEW w \in Tool \cup {"said", "stopped", "expired"}, NEW s \in ToolStatus
    PROVE  /\ ARow(w, s) \in Row /\ ARow(w, s).what = w
           /\ ARow(w, s).after <=> settled # "no"
           /\ ARow(w, s).late <=> closed
<1>1. (settled # "no") \in BOOLEAN /\ closed \in BOOLEAN
  BY DEF BoardTyped
<1> QED
  BY <1>1 DEF ARow, Row

LEMMA NoteIs ==
    ASSUME NEW w \in {"stopped", "expired"}
    PROVE  Note(w) \in Row /\ Note(w).what = w /\ ~Note(w).after /\ ~Note(w).late
BY DEF Note, Row, ToolStatus

LEMMA HeldRowsAre ==
    /\ HeldRows \in SUBSET Row
    /\ \A row \in HeldRows : row.what = "said" /\ ~row.late
    /\ HeldRows # {} => held
BY DEF HeldRows, Row, ToolStatus

\* A tool's row that changes its status is the same row to the reader
LEMMA StatusKeeps ==
    ASSUME NEW rows \in SUBSET Row, NEW t \in Tool, NEW s \in ToolStatus, Earned(rows)
    PROVE  /\ Status(rows, t, s) \in SUBSET Row /\ Earned(Status(rows, t, s))
           /\ rows # {} => Status(rows, t, s) # {}
<1> DEFINE New(row) == IF row.what = t THEN [row EXCEPT !.status = s] ELSE row
<1>1. \A row \in rows : /\ New(row) \in Row /\ New(row).what = row.what
                        /\ New(row).after = row.after /\ New(row).late = row.late
  BY DEF Row
<1>2. Status(rows, t, s) = {New(row) : row \in rows}
  BY DEF Status
<1> HIDE DEF New
<1> QED
  BY <1>1, <1>2 DEF Earned

\* One more row that is no closing remark
LEMMA OneMoreEarned ==
    ASSUME NEW rows, Earned(rows), NEW row, ~row.late, ~(row.what = "said" /\ row.after)
    PROVE  Earned(rows \cup {row})
BY DEF Earned

LEMMA UpsertedEarned ==
    ASSUME BoardTyped, ~closed, NEW rows \in SUBSET Row, NEW t \in Tool, NEW s \in ToolStatus,
           \/ Earned(rows)
           \/ settled # "no" /\ \A row \in rows : row.what = "said" /\ ~row.late
    PROVE  /\ Upserted(rows, t, s) \in SUBSET Row /\ Upserted(rows, t, s) # {}
           /\ Earned(Upserted(rows, t, s))
<1>1. t # "said"
  BY ToolAssumption
<1>2. /\ ARow(t, s) \in Row /\ ARow(t, s).what = t /\ ~ARow(t, s).late
      /\ ARow(t, s).after <=> settled # "no"
  BY ARowIs
<1>3. CASE \E row \in rows : row.what = t
  <2>1. Earned(rows)
    BY <1>1, <1>3
  <2> QED
    BY <1>3, <2>1, StatusKeeps DEF Upserted
<1>4. CASE ~\E row \in rows : row.what = t
  <2>1. Upserted(rows, t, s) = rows \cup {ARow(t, s)}
    BY <1>4 DEF Upserted
  <2>2. Earned(rows \cup {ARow(t, s)})
    BY <1>1, <1>2 DEF Earned
  <2> QED
    BY <1>2, <2>1, <2>2
<1> QED
  BY <1>3, <1>4

-----------------------------------------------------------------------------
(* Steps of the board alone.                                               *)

Redrawn ==
    /\ board # None /\ board'.round = board.round /\ board'.posted = board.posted
    /\ board'.posting = board.posting /\ board'.dirty /\ board'.rows # {}
    /\ opened' = opened
NewRound ==
    /\ board'.round = opened + 1 /\ opened' = opened + 1 /\ board'.posted = None
    /\ ~board'.posting /\ (board'.dirty <=> board'.rows # {})

\* What the board alone may do: nothing, more rows for its round, or a new round
BoardMove ==
    /\ UNCHANGED <<wireVars, ending>>
    /\ \/ UNCHANGED <<board, opened>>
       \/ board' \in Sticky /\ Earned(board'.rows) /\ (Redrawn \/ NewRound)
    /\ settled' \in {"no", "answered", "silent"} /\ held' \in BOOLEAN /\ closed' \in BOOLEAN
    /\ held' => settled' # "no"

LEMMA OrDefaultIs ==
    ASSUME BoardTyped, RowsEarned, BoardKnows, NEW s, s = OrDefault, s.round <= MaxRounds
    PROVE  /\ s \in Sticky /\ Earned(s.rows)
           /\ \/ board # None /\ s = board /\ s.round = opened
              \/ board = None /\ s = Fresh(opened + 1)
<1>1. CASE board = None
  BY <1>1, BoundsAreNumbers DEF OrDefault, Fresh, Sticky, Earned, Rounds, BoardTyped
<1>2. CASE board # None
  BY <1>2 DEF OrDefault, BoardTyped, RowsEarned, BoardKnows
<1> QED
  BY <1>1, <1>2

\* The round s with other rows is on the board
LEMMA PutUp ==
    ASSUME BoardTyped, BoardKnows, NEW s \in Sticky, NEW rows \in SUBSET Row, rows # {}, Earned(rows),
           \/ board # None /\ s = board /\ s.round = opened
           \/ /\ s.round = opened + 1 /\ s.posted = None /\ ~s.posting,
           board' = [s EXCEPT !.rows = rows, !.dirty = TRUE], Counted(s)
    PROVE  board' \in Sticky /\ Earned(board'.rows) /\ (Redrawn \/ NewRound)
<1>1. /\ board' \in Sticky /\ board'.rows = rows /\ board'.dirty
      /\ board'.round = s.round /\ board'.posted = s.posted /\ board'.posting = s.posting
  BY DEF Sticky
<1>2. opened \in Nat
  BY BoundsAreNumbers DEF BoardTyped
<1>3. CASE board # None /\ s = board /\ s.round = opened
  BY <1>1, <1>2, <1>3 DEF Counted, Redrawn
<1>4. CASE s.round = opened + 1 /\ s.posted = None /\ ~s.posting
  <2>1. opened' = opened + 1
    BY <1>2, <1>4 DEF Counted
  <2> QED
    BY <1>1, <1>4, <2>1 DEF NewRound
<1> QED
  BY <1>1, <1>3, <1>4

LEMMA AddedIs ==
    ASSUME BoardTyped, RowsEarned, BoardKnows, Room(OrDefault), NEW row \in Row,
           ~row.late, ~(row.what = "said" /\ row.after),
           board' = Added(OrDefault, row), Counted(OrDefault)
    PROVE  board' \in Sticky /\ Earned(board'.rows) /\ (Redrawn \/ NewRound)
<1> DEFINE s == OrDefault
           rows == s.rows \cup {row}
<1>1. /\ s \in Sticky /\ Earned(s.rows)
      /\ \/ board # None /\ s = board /\ s.round = opened
         \/ board = None /\ s = Fresh(opened + 1)
  BY OrDefaultIs DEF Room
<1>2. board' = [s EXCEPT !.rows = rows, !.dirty = TRUE]
  BY DEF Added
<1>3. rows \in SUBSET Row /\ rows # {} /\ Earned(rows)
  BY <1>1, OneMoreEarned DEF Sticky
<1>4. \/ board # None /\ s = board /\ s.round = opened
      \/ s.round = opened + 1 /\ s.posted = None /\ ~s.posting
  BY <1>1 DEF Fresh
<1> HIDE DEF s, rows
<1>5. Counted(s)
  BY DEF s
<1> QED
  BY <1>1, <1>2, <1>3, <1>4, <1>5, PutUp

LEMMA OnTurnStartMoves == ASSUME BoardTyped, OnTurnStart PROVE BoardMove
<1>1. board' = Fresh(opened + 1) /\ opened + 1 \in Rounds
  BY BoundsAreNumbers DEF OnTurnStart, BoardTyped, Rounds
<1>2. board' \in Sticky /\ Earned(board'.rows) /\ NewRound
  BY <1>1 DEF Fresh, Sticky, Earned, NewRound, OnTurnStart
<1> QED
  BY <1>2 DEF BoardMove, OnTurnStart

LEMMA UpsertMoves ==
    ASSUME BoardTyped, RowsEarned, BoardKnows, NEW t \in Tool, NEW status \in ToolStatus,
           UpsertTool(t, status)
    PROVE  BoardMove
<1> DEFINE s == Base
           rows == Upserted(s.rows, t, status)
<1>1. /\ ~closed /\ s.round <= MaxRounds /\ board' = [s EXCEPT !.rows = rows, !.dirty = TRUE]
      /\ Counted(s) /\ settled' = "no" /\ UNCHANGED <<closed, ending, wireVars>>
      /\ held' = (held /\ settled = "no")
  BY DEF UpsertTool, OpenAfterAnswer
<1>2. /\ s \in Sticky
      /\ \/ Earned(s.rows)
         \/ settled # "no" /\ \A row \in s.rows : row.what = "said" /\ ~row.late
      /\ \/ board # None /\ s = board /\ s.round = opened
         \/ s.round = opened + 1 /\ s.posted = None /\ ~s.posting
  <2>1. CASE settled = "no"
    <3>1. s = OrDefault
      BY <2>1 DEF Base
    <3> QED
      BY <1>1, <3>1, OrDefaultIs DEF Fresh
  <2>2. CASE settled # "no"
    <3>1. s = [Fresh(opened + 1) EXCEPT !.rows = HeldRows]
      BY <2>2 DEF Base
    <3> QED
      <4>1. /\ s = [round |-> opened + 1, rows |-> HeldRows, posted |-> None,
                    posting |-> FALSE, dirty |-> FALSE]
        BY <3>1 DEF Fresh
      <4>2. opened + 1 \in Rounds
        BY <1>1, <4>1, BoundsAreNumbers DEF Rounds, BoardTyped
      <4>3. s \in Sticky
        BY <4>1, <4>2, HeldRowsAre DEF Sticky
      <4> QED
        BY <2>2, <4>1, <4>3, HeldRowsAre
  <2> QED
    BY <2>1, <2>2
<1>3. rows \in SUBSET Row /\ rows # {} /\ Earned(rows)
  BY <1>1, <1>2, UpsertedEarned DEF Sticky
<1> HIDE DEF s, rows
<1>4. board' \in Sticky /\ Earned(board'.rows) /\ (Redrawn \/ NewRound)
  BY <1>1, <1>2, <1>3, PutUp
<1>5. ~held'
  BY <1>1 DEF RowsEarned
<1> QED
  BY <1>1, <1>4, <1>5 DEF BoardMove, BoardTyped

LEMMA PushNarrationMoves == ASSUME BoardTyped, RowsEarned, BoardKnows, PushNarration PROVE BoardMove
<1>1. CASE settled = "answered" /\ held' = TRUE /\ UNCHANGED <<board, opened>>
  BY <1>1 DEF PushNarration, BoardMove, BoardTyped
<1>2. CASE settled = "no" /\ Room(Base) /\ board' = Added(Base, ARow("said", "over"))
           /\ Counted(Base) /\ UNCHANGED held
  <2>1. Base = OrDefault
    BY <1>2 DEF Base
  <2>2. ARow("said", "over") \in Row /\ ~ARow("said", "over").late /\ ~ARow("said", "over").after
    BY <1>2, ARowIs DEF PushNarration, ToolStatus
  <2>3. board' \in Sticky /\ Earned(board'.rows) /\ (Redrawn \/ NewRound)
    BY <1>2, <2>1, <2>2, AddedIs
  <2> QED
    BY <1>2, <2>3 DEF PushNarration, BoardMove, BoardTyped, RowsEarned
<1> QED
  BY <1>1, <1>2 DEF PushNarration

LEMMA NoteMoves ==
    ASSUME BoardTyped, RowsEarned, BoardKnows, OnPermTimeout \/ OnInterrupted PROVE BoardMove
<1>1. PICK w \in {"stopped", "expired"} : board' = Added(OrDefault, Note(w))
  BY DEF OnPermTimeout, OnInterrupted
<1>2. Room(OrDefault) /\ Counted(OrDefault) /\ settled = "no"
  BY DEF OnPermTimeout, OnInterrupted
<1>3. board' \in Sticky /\ Earned(board'.rows) /\ (Redrawn \/ NewRound)
  BY <1>1, <1>2, NoteIs, AddedIs
<1> QED
  BY <1>2, <1>3 DEF OnPermTimeout, OnInterrupted, BoardMove, BoardTyped, RowsEarned

LEMMA OnPermDeniedMoves ==
    ASSUME BoardTyped, RowsEarned, BoardKnows, NEW t \in Tool, OnPermDenied(t) PROVE BoardMove
<1> DEFINE rows == Status(board.rows, t, "over")
<1>1. board \in Sticky /\ board # None /\ board.rows # {} /\ Earned(board.rows)
  BY DEF OnPermDenied, BoardTyped, RowsEarned
<1>2. rows \in SUBSET Row /\ rows # {} /\ Earned(rows)
  BY <1>1, StatusKeeps DEF Sticky, ToolStatus
<1>3. board' = [board EXCEPT !.rows = rows, !.dirty = TRUE]
  BY DEF OnPermDenied
<1> HIDE DEF rows
<1>4. board' \in Sticky /\ Earned(board'.rows) /\ Redrawn
  BY <1>1, <1>2, <1>3 DEF Sticky, Redrawn, OnPermDenied
<1> QED
  BY <1>4 DEF OnPermDenied, BoardMove, BoardTyped, RowsEarned

LEMMA OnTurnEndMoves == ASSUME BoardTyped, OnTurnEnd PROVE BoardMove
BY DEF OnTurnEnd, BoardMove, BoardTyped

LEMMA RoundsAre ==
    ASSUME WiresTyped
    PROVE  /\ \A c \in out : c.round \in Rounds
           /\ \A i \in DOMAIN reports : reports[i] \in Told /\ reports[i].round \in Rounds
           /\ \A m \in DOMAIN slack : slack[m].round \in Rounds
<1>1. \A i \in DOMAIN reports : reports[i] \in Told
  BY DEF WiresTyped
<1> QED
  BY <1>1 DEF WiresTyped, Call, Seen, Told

LEMMA BoardMoveKeeps ==
    ASSUME Always, Tickets, crossed = {}, faults = 0 => EndsMeet, BoardMove
    PROVE  BInv'
<1> USE DEF BoardMove, wireVars
<1>0. /\ BoardTyped /\ WiresTyped /\ Ids /\ RowsEarned /\ OnePost /\ BoardKnows /\ Rounded
      /\ UNCHANGED <<out, reports, slack, crossed, calls, faults, ending>>
  BY DEF Always, Tickets
<1>1. opened \in Nat /\ MaxRounds \in Nat
  BY <1>0, BoundsAreNumbers DEF BoardTyped
<1>2. CASE UNCHANGED <<board, opened>>
  <2>1. Always'
    BY <1>0, <1>2 DEF Always, BoardTyped, WiresTyped, Call, Seen, Ids, RowsEarned, Pictures
  <2>2. Tickets'
    BY <1>0, <1>2 DEF Tickets, OnePost, BoardKnows, Rounded, Awaited
  <2>3. faults = 0 => EndsMeet'
    BY <1>0, <1>2 DEF EndsMeet, Awaited, Latest, Newest, Leaving
  <2> QED
    BY <1>0, <2>1, <2>2, <2>3 DEF BInv
<1>3. CASE board' \in Sticky /\ Earned(board'.rows) /\ (Redrawn \/ NewRound)
  <2>1. BoardTyped'
    <3>1. opened' \in 0 .. MaxRounds
      BY <1>0, <1>1, <1>3 DEF Redrawn, NewRound, Sticky, Rounds, BoardTyped
    <3>2. board'.posting => board'.posted = None
      BY <1>0, <1>3 DEF Redrawn, NewRound, BoardTyped
    <3> QED
      BY <1>0, <1>3, <3>1, <3>2 DEF BoardTyped
  <2>2. WiresTyped' /\ Ids' /\ RowsEarned'
    BY <1>0, <1>3 DEF WiresTyped, Call, Seen, Ids, RowsEarned, Pictures, Redrawn, NewRound
  <2>3. OnePost'
    BY <1>0 DEF OnePost
  <2>4. \A r : Awaited(r)' <=> Awaited(r)
    BY <1>0 DEF Awaited
  <2>5. BoardKnows'
    <3>1. CASE Redrawn
      BY <1>0, <3>1, <2>4 DEF Redrawn, BoardKnows
    <3>2. CASE NewRound
      <4>1. ~Awaited(opened + 1) /\ \A m \in DOMAIN slack : slack[m].round # opened + 1
        BY <1>0, <1>1 DEF Rounded, Awaited, WiresTyped, Call, Seen, Told, Rounds
      <4> QED
        BY <1>0, <3>2, <4>1, <2>4 DEF NewRound, BoardKnows
    <3> QED
      BY <1>3, <3>1, <3>2
  <2>6. Rounded'
    <3>1. CASE Redrawn
      BY <1>0, <3>1 DEF Redrawn, Rounded
    <3>2. CASE NewRound
      <4>1. \A r \in Rounds : r <= opened => r <= opened + 1 /\ r # opened + 1
        BY <1>1 DEF Rounds
      <4>2. /\ \A c \in out : c.round \in Rounds
            /\ \A i \in DOMAIN reports : reports[i].round \in Rounds
            /\ \A m \in DOMAIN slack : slack[m].round \in Rounds
        BY <1>0, RoundsAre
      <4>3. /\ \A c \in out : c.round <= opened + 1
            /\ \A i \in DOMAIN reports : reports[i].round <= opened + 1
            /\ \A m \in DOMAIN slack : slack[m].round <= opened + 1
        BY <1>0, <4>1, <4>2 DEF Rounded
      <4> QED
        BY <1>0, <3>2, <4>1, <4>3 DEF NewRound, Rounded
    <3> QED
      BY <1>3, <3>1, <3>2
  <2>7. ASSUME faults = 0 PROVE EndsMeet'
    <3>1. ~(board' # None /\ ~board'.dirty /\ board'.rows # {})
      BY <1>3 DEF Redrawn, NewRound
    <3> QED
      BY <1>0, <2>7, <3>1 DEF EndsMeet, Awaited, Latest, Newest, Leaving
  <2> QED
    BY <1>0, <2>1, <2>2, <2>3, <2>5, <2>6, <2>7 DEF BInv, Always, Tickets
<1> QED
  BY <1>2, <1>3

-----------------------------------------------------------------------------
(* Calls that are sent.                                                    *)

NewCall == [kind : {"post", "update", "delete"}, n : {calls + 1}, ts : Message \cup {None},
            round : Rounds, rows : SUBSET Row]

Sends(c) == /\ c \in NewCall /\ out' = out \cup {c} /\ calls' = calls + 1 /\ calls' <= MaxCalls
            /\ c.kind # "post" => c.ts \in DOMAIN slack
            /\ Earned(c.rows)
SendsNothing == out' = out /\ calls' = calls

LEMMA SendIs ==
    ASSUME WiresTyped
    PROVE  /\ Send({}) => SendsNothing
           /\ \A c : Send({c}) =>
                  out' = out \cup {c} /\ calls' = calls + 1 /\ calls' <= MaxCalls
<1>1. Cardinality({}) = 0 /\ \A c : Cardinality({c}) = 1
  BY FS_EmptySet, FS_Singleton
<1>2. calls \in Nat
  BY BoundsAreNumbers DEF WiresTyped
<1>3. Send({}) => SendsNothing
  BY <1>1, <1>2 DEF Send, SendsNothing
<1>4. ASSUME NEW c, Send({c})
      PROVE  out' = out \cup {c} /\ calls' = calls + 1 /\ calls' <= MaxCalls
  <2>1. Cardinality({c}) = 1
    BY <1>1
  <2> QED
    BY <1>2, <1>4, <2>1 DEF Send
<1> QED
  BY <1>3, <1>4

LEMMA DrawIs ==
    ASSUME NEW s \in Sticky, NEW to \in Message \cup {None}
    PROVE  /\ Draw(s, to) \in NewCall
           /\ Draw(s, to).kind = IF to = None THEN "post" ELSE "update"
           /\ Draw(s, to).ts = to /\ Draw(s, to).round = s.round /\ Draw(s, to).rows = s.rows
<1>1. (IF to = None THEN "post" ELSE "update") \in {"post", "update", "delete"}
  OBVIOUS
<1> QED
  BY <1>1 DEF Draw, NewCall, Sticky

\* The types and numbers stay right when one call, or none, goes out
LEMMA SentTyped ==
    ASSUME WiresTyped, Ids, UNCHANGED <<slack, crossed, faults>>, reports' \in Seq(Told),
           SendsNothing \/ \E c : Sends(c)
    PROVE  /\ WiresTyped'
           /\ \A c, d \in out' : c.n = d.n => c = d
           /\ \A c \in out' : IF c.kind = "post" THEN c.n \notin DOMAIN slack' ELSE c.ts \in DOMAIN slack'
<1>1. calls \in Nat /\ MaxCalls \in Nat
  BY BoundsAreNumbers DEF WiresTyped
<1>2. CASE SendsNothing
  BY <1>2 DEF SendsNothing, WiresTyped, Call, Seen, Ids
<1>3. ASSUME NEW c, Sends(c)
      PROVE  /\ WiresTyped'
             /\ \A e, d \in out' : e.n = d.n => e = d
             /\ \A d \in out' : IF d.kind = "post" THEN d.n \notin DOMAIN slack' ELSE d.ts \in DOMAIN slack'
  <2>1. calls' \in 0 .. MaxCalls /\ c.n = calls + 1 /\ out' = out \cup {c} /\ calls' = calls + 1
    BY <1>1, <1>3 DEF Sends, NewCall
  <2>2. \A d \in out : d.n \in 1 .. calls
    BY DEF WiresTyped, Call
  <2>3. out' \subseteq Call'
    BY <1>1, <1>3, <2>1 DEF WiresTyped, Call, Sends, NewCall
  <2>4. DOMAIN slack \subseteq 1 .. calls /\ \A m \in DOMAIN slack : slack[m] \in Seen'
    BY <1>1, <2>1 DEF WiresTyped, Seen
  <2>5. WiresTyped'
    BY <1>1, <2>1, <2>3, <2>4 DEF WiresTyped
  <2>6. \A e, d \in out' : e.n = d.n => e = d
    BY <1>1, <2>1, <2>2 DEF Ids
  <2>7. \A d \in out' : IF d.kind = "post" THEN d.n \notin DOMAIN slack' ELSE d.ts \in DOMAIN slack'
    BY <1>1, <1>3, <2>1, <2>4 DEF Ids, Sends
  <2> QED
    BY <2>5, <2>6, <2>7
<1> QED
  BY <1>2, <1>3

LEMMA SentEarned ==
    ASSUME \A p \in Pictures : Earned(p.rows), UNCHANGED slack, SendsNothing \/ \E c : Sends(c)
    PROVE  \A p \in Pictures' : Earned(p.rows)
BY DEF Pictures, Sends, SendsNothing

\* A first post goes out for a round that has none
LEMMA SentOnePost ==
    ASSUME OnePost, UNCHANGED <<slack, reports>>, NEW c, out' = out \cup {c},
           c.kind = "post" => /\ ~Awaited(c.round)
                              /\ \A m \in DOMAIN slack : slack[m].round # c.round
    PROVE  OnePost'
BY DEF OnePost, Awaited

LEMMA SentLatest ==
    ASSUME WiresTyped, NEW c, Sends(c), UNCHANGED slack, NEW r, NEW rows, Latest(r, rows),
           c.kind = "update" => slack[c.ts].round # r
    PROVE  Latest(r, rows)'
<1>1. out' = out \cup {c}
  BY DEF Sends
<1>2. CASE \E d \in out : d.kind = "post" /\ d.round = r /\ d.rows = rows
  BY <1>1, <1>2 DEF Latest
<1>3. ASSUME NEW m \in DOMAIN slack, slack[m].round = r, Newest(m, rows)
      PROVE  Latest(r, rows)'
  <2>1. \A d \in out' : d.kind = "update" /\ d.ts = m => d \in out
    BY <1>1, <1>3
  <2>2. Newest(m, rows)'
    BY <1>1, <1>3, <2>1 DEF Newest
  <2> QED
    BY <1>3, <2>2 DEF Latest
<1> QED
  BY <1>2, <1>3 DEF Latest

LEMMA DrawnLatest ==
    ASSUME WiresTyped, NEW c, Sends(c), UNCHANGED slack, NEW r,
           \/ c.kind = "post" /\ c.round = r
           \/ c.kind = "update" /\ slack[c.ts].round = r
    PROVE  Latest(r, c.rows)'
<1>1. out' = out \cup {c} /\ c.n = calls + 1
  BY DEF Sends, NewCall
<1>2. CASE c.kind = "post" /\ c.round = r
  BY <1>1, <1>2 DEF Latest
<1>3. CASE c.kind = "update" /\ slack[c.ts].round = r
  <2>1. c.ts \in DOMAIN slack /\ slack[c.ts].n \in 1 .. calls /\ calls \in Nat
    BY <1>3, BoundsAreNumbers DEF Sends, WiresTyped, Seen
  <2>2. \A d \in out : d.n \in 1 .. calls
    BY DEF WiresTyped, Call
  <2>3. Newest(c.ts, c.rows)'
    BY <1>1, <1>3, <2>1, <2>2 DEF Newest
  <2> QED
    BY <1>3, <2>1, <2>3 DEF Latest
<1> QED
  BY <1>2, <1>3

LEMMA StillAwaited ==
    ASSUME out \subseteq out', UNCHANGED reports, NEW r, Awaited(r) PROVE Awaited(r)'
BY DEF Awaited

-----------------------------------------------------------------------------
(* What the Bridge sends.                                                  *)

Pre == Always /\ Tickets /\ crossed = {} /\ (faults = 0 => EndsMeet)

LEMMA PreIs ==
    ASSUME Pre
    PROVE  /\ BoardTyped /\ WiresTyped /\ Ids /\ RowsEarned
           /\ OnePost /\ BoardKnows /\ Rounded
           /\ crossed = {} /\ (faults = 0 => EndsMeet)
BY DEF Pre, Always, Tickets

\* The board's picture goes out, as its first post or to its message
LEMMA DrawSends ==
    ASSUME Pre, board # None, Send({Draw(board, board.posted)})
    PROVE  LET c == Draw(board, board.posted) IN
           /\ Sends(c) /\ c.kind = IF board.posted = None THEN "post" ELSE "update"
           /\ c.ts = board.posted /\ c.round = board.round /\ c.rows = board.rows
<1> DEFINE c == Draw(board, board.posted)
<1>1. board \in Sticky /\ board.posted \in Message \cup {None}
  BY PreIs DEF BoardTyped, Sticky
<1>2. /\ c \in NewCall /\ c.kind = IF board.posted = None THEN "post" ELSE "update"
      /\ c.ts = board.posted /\ c.round = board.round /\ c.rows = board.rows
  BY <1>1, DrawIs
<1>3. out' = out \cup {c} /\ calls' = calls + 1 /\ calls' <= MaxCalls
  BY PreIs, SendIs
<1>4. board.posted # None => board.posted \in DOMAIN slack
  BY PreIs DEF Ids
<1>5. Earned(board.rows)
  BY PreIs DEF RowsEarned
<1> HIDE DEF c
<1>6. Sends(c)
  BY <1>2, <1>3, <1>4, <1>5 DEF Sends
<1> QED
  BY <1>2, <1>6 DEF c

LEMMA FlushKeeps == ASSUME Pre, FlushStickies PROVE BInv'
<1>0. /\ BoardTyped /\ WiresTyped /\ Ids /\ RowsEarned /\ OnePost /\ BoardKnows /\ Rounded
      /\ UNCHANGED <<settled, held, closed, opened, ending, reports, slack, crossed, faults>>
      /\ board # None /\ board \in Sticky /\ board.dirty /\ ~board.posting /\ board.rows # {}
      /\ crossed = {}
  BY PreIs DEF FlushStickies, BoardTyped, BoardKnows
<1>1. PICK c : /\ Sends(c) /\ c.kind = IF board.posted = None THEN "post" ELSE "update"
               /\ c.ts = board.posted /\ c.round = board.round /\ c.rows = board.rows
  BY <1>0, DrawSends DEF FlushStickies, Drawable
<1>b. PICK b \in Rounds, shown \in SUBSET Row : b = board.round /\ shown = board.rows
  BY <1>0 DEF Sticky
<1>2. /\ board' \in Sticky
      /\ board'.round = board.round /\ board'.rows = board.rows /\ board'.posted = board.posted
      /\ ~board'.dirty /\ (board'.posting <=> board.posted = None)
  <2>1. CASE board.posted = None
    <3>1. board' = [board EXCEPT !.dirty = FALSE, !.posting = TRUE]
      BY <2>1 DEF FlushStickies
    <3> QED
      BY <1>0, <2>1, <3>1 DEF Sticky
  <2>2. CASE board.posted # None
    <3>1. board' = [board EXCEPT !.dirty = FALSE, !.posting = FALSE]
      BY <2>2 DEF FlushStickies
    <3> QED
      BY <1>0, <2>2, <3>1 DEF Sticky
  <2> QED
    BY <2>1, <2>2
<1>3. out' = out \cup {c}
  BY <1>1 DEF Sends
<1>4. Always'
  <2>1. BoardTyped'
    BY <1>0, <1>2 DEF BoardTyped
  <2>2. /\ WiresTyped'
        /\ \A e, d \in out' : e.n = d.n => e = d
        /\ \A d \in out' : IF d.kind = "post" THEN d.n \notin DOMAIN slack' ELSE d.ts \in DOMAIN slack'
    <3>1. reports' \in Seq(Told)
      BY <1>0 DEF WiresTyped
    <3> QED
      BY <1>0, <1>1, <3>1, SentTyped
  <2>3. Ids'
    BY <1>0, <1>2, <2>2 DEF Ids
  <2>4. RowsEarned'
    <3>1. \A p \in Pictures' : Earned(p.rows)
      BY <1>0, <1>1, SentEarned DEF RowsEarned
    <3> QED
      BY <1>0, <1>2, <3>1 DEF RowsEarned
  <2> QED
    BY <2>1, <2>2, <2>3, <2>4 DEF Always
<1>5. c.kind = "post" => /\ ~Awaited(c.round)
                         /\ \A m \in DOMAIN slack : slack[m].round # c.round
  <2>1. ASSUME c.kind = "post" PROVE board.posted = None
    BY <1>1, <2>1
  <2>2. DOMAIN slack \subseteq Message
    BY <1>0, BoundsAreNumbers DEF WiresTyped, Message
  <2> QED
    BY <1>0, <1>1, <2>1, <2>2, NoneIsNoMessage DEF BoardKnows
<1>6. Tickets'
  <2>1. OnePost'
    BY <1>0, <1>3, <1>5, SentOnePost
  <2>2. BoardKnows'
    <3>1. CASE board.posted = None
      <4>1. Awaited(b)'
        BY <1>1, <1>b, <1>3, <3>1 DEF Awaited
      <4> QED
        BY <1>0, <1>b, <1>2, <3>1, <4>1 DEF BoardKnows
    <3>2. CASE board.posted # None
      <4>1. ~Awaited(b)'
        BY <1>0, <1>1, <1>b, <1>3, <3>2 DEF BoardKnows, Awaited
      <4> QED
        BY <1>0, <1>b, <1>2, <3>2, <4>1 DEF BoardKnows
    <3> QED
      BY <3>1, <3>2
  <2>3. Rounded'
    <3>1. c.round <= opened
      BY <1>0, <1>1, BoundsAreNumbers DEF BoardKnows, BoardTyped
    <3> QED
      BY <1>0, <1>2, <1>3, <3>1 DEF Rounded
  <2> QED
    BY <2>1, <2>2, <2>3 DEF Tickets
<1>7. ASSUME faults = 0 PROVE EndsMeet'
  <2>0. EndsMeet /\ ending' = ending /\ slack' = slack /\ reports' = reports
    BY <1>0, <1>7, PreIs
  <2>1. ASSUME NEW m \in DOMAIN slack PROVE Leaving(m)' <=> Leaving(m)
    BY <1>0, <1>1, <1>3 DEF Leaving
  <2>2. ASSUME NEW r \in Rounds, NEW rows, rows = ending[r].rows,
               ending[r].how = "answered", rows # {}
        PROVE  Awaited(r)' \/ Latest(r, rows)'
    <3>1. board.round # r
      BY <1>0, <2>2 DEF Rounded
    <3>2. c.kind = "update" => slack[c.ts].round # r
      BY <1>0, <1>1, <3>1 DEF BoardKnows
    <3>3. Awaited(r) \/ Latest(r, rows)
      BY <2>0, <2>2 DEF EndsMeet
    <3> QED
      BY <1>0, <1>1, <1>3, <3>2, <3>3, SentLatest, StillAwaited
  <2>3. ASSUME NEW r \in Rounds, ending[r].how = "silent"
        PROVE  Awaited(r)' \/ \A m \in DOMAIN slack : slack[m].round = r => Leaving(m)'
    <3>1. Awaited(r) \/ \A m \in DOMAIN slack : slack[m].round = r => Leaving(m)
      BY <2>0, <2>3 DEF EndsMeet
    <3> QED
      BY <1>0, <1>3, <2>1, <3>1, StillAwaited
  <2>4. Latest(b, shown)'
    <3>1. \/ c.kind = "post" /\ c.round = b
          \/ c.kind = "update" /\ slack[c.ts].round = b
      BY <1>0, <1>1, <1>b DEF BoardKnows
    <3>2. Latest(b, c.rows)'
      BY <1>0, <1>1, <3>1, DrawnLatest
    <3> QED
      BY <1>1, <1>b, <3>2
  <2> QED
    BY <1>b, <1>2, <2>0, <2>1, <2>2, <2>3, <2>4 DEF EndsMeet
<1> QED
  BY <1>0, <1>4, <1>6, <1>7 DEF BInv

\* A round that ends: nothing is on the board, the rest as it was
LEMMA EndedTickets ==
    ASSUME Pre, board' = None, UNCHANGED <<reports, slack, opened>>,
           \/ out' = out
           \/ \E c : /\ out' = out \cup {c} /\ board # None /\ c.round = board.round
                     /\ c.kind = "post" => /\ ~Awaited(c.round)
                                           /\ \A m \in DOMAIN slack : slack[m].round # c.round,
           \A r \in Rounds : ending'[r].how = "open" \/ ending'[r] = ending[r]
                             \/ (board # None /\ r = board.round)
    PROVE  Tickets'
<1>0. OnePost /\ BoardKnows /\ Rounded /\ opened \in Nat
  BY PreIs, BoundsAreNumbers DEF BoardTyped
<1>1. OnePost'
  <2>1. CASE out' = out
    BY <1>0, <2>1 DEF OnePost
  <2>2. CASE out' # out
    BY <1>0, <2>2, SentOnePost
  <2> QED
    BY <2>1, <2>2
<1>2. Rounded'
  <2>1. \A c \in out' : c.round <= opened
    BY <1>0 DEF Rounded, BoardKnows
  <2> QED
    BY <1>0, <2>1 DEF Rounded, BoardKnows
<1> QED
  BY <1>1, <1>2 DEF Tickets, BoardKnows

LEMMA EndedAlways ==
    ASSUME Pre, board' = None, UNCHANGED <<reports, slack, crossed, faults, held, closed, opened>>,
           SendsNothing \/ \E c : Sends(c),
           settled' \in {"answered", "silent"}, ending' \in [Rounds -> Ending]
    PROVE  Always'
<1>0. BoardTyped /\ WiresTyped /\ Ids /\ RowsEarned
  BY PreIs
<1>1. /\ WiresTyped'
      /\ \A e, d \in out' : e.n = d.n => e = d
      /\ \A d \in out' : IF d.kind = "post" THEN d.n \notin DOMAIN slack' ELSE d.ts \in DOMAIN slack'
  <2>1. reports' \in Seq(Told)
    BY <1>0 DEF WiresTyped
  <2> QED
    BY <1>0, <2>1, SentTyped
<1>2. Ids'
  BY <1>0, <1>1 DEF Ids
<1>3. RowsEarned'
  <2>1. \A p \in Pictures' : Earned(p.rows)
    BY <1>0, SentEarned DEF RowsEarned
  <2> QED
    BY <2>1 DEF RowsEarned
<1>4. BoardTyped'
  BY <1>0 DEF BoardTyped
<1> QED
  BY <1>1, <1>2, <1>3, <1>4 DEF Always

LEMMA EndedIs ==
    ASSUME BoardTyped, NEW how \in {"answered", "silent"}, Ended(how)
    PROVE  /\ ending' \in [Rounds -> Ending]
           /\ board = None => ending' = ending
           /\ board # None =>
                /\ board.round \in Rounds /\ ending'[board.round].how = how
                /\ ending'[board.round].rows = IF how = "answered" THEN board.rows ELSE {}
                /\ \A r \in Rounds : r # board.round => ending'[r] = ending[r]
<1>1. CASE board = None
  BY <1>1 DEF Ended, BoardTyped
<1>2. CASE board # None
  <2> DEFINE e == [how |-> how, rows |-> IF how = "answered" THEN board.rows ELSE {}]
  <2>1. board.round \in Rounds /\ board.rows \in SUBSET Row
    BY <1>2 DEF BoardTyped, Sticky
  <2>2. e \in Ending
    BY <2>1 DEF Ending
  <2>3. ending' = [ending EXCEPT ![board.round] = e]
    BY <1>2 DEF Ended
  <2>4. ending' \in [Rounds -> Ending] /\ ending'[board.round] = e
        /\ \A r \in Rounds : r # board.round => ending'[r] = ending[r]
    <3> HIDE DEF e
    <3> QED
      BY <2>1, <2>2, <2>3 DEF BoardTyped
  <2> QED
    BY <1>2, <2>1, <2>4
<1> QED
  BY <1>1, <1>2

LEMMA AnsweredKeeps == ASSUME Pre, SettleAnswered PROVE BInv'
<1>0. /\ BoardTyped /\ WiresTyped /\ Ids /\ RowsEarned /\ OnePost /\ BoardKnows /\ Rounded
      /\ board' = None /\ settled' = "answered" /\ Ended("answered")
      /\ UNCHANGED <<held, closed, opened, reports, slack, crossed, faults>>
      /\ crossed = {}
  BY PreIs DEF SettleAnswered
<1>1. PICK c :
        \/ SendsNothing /\ (board # None => ~board.dirty \/ board.posting \/ board.rows = {})
        \/ /\ board # None /\ board.dirty /\ ~board.posting /\ ~SendsNothing
           /\ Sends(c) /\ c.kind = IF board.posted = None THEN "post" ELSE "update"
           /\ c.ts = board.posted /\ c.round = board.round /\ c.rows = board.rows
  <2>1. CASE board # None /\ board.dirty /\ ~board.posting /\ Drawable(board)
    <3>1. Send({Draw(board, board.posted)})
      BY <2>1 DEF SettleAnswered, TakeFinal
    <3>2. ASSUME NEW c, Sends(c) PROVE ~SendsNothing
      BY <1>0, <3>2, BoundsAreNumbers DEF Sends, SendsNothing, WiresTyped
    <3> QED
      BY <2>1, <3>1, <3>2, DrawSends
  <2>2. CASE ~(board # None /\ board.dirty /\ ~board.posting /\ Drawable(board))
    <3>1. Send({})
      BY <2>2 DEF SettleAnswered, TakeFinal
    <3> QED
      BY <1>0, <2>2, <3>1, SendIs DEF Drawable
  <2> QED
    BY <2>1, <2>2
<1>2. /\ ending' \in [Rounds -> Ending]
      /\ board = None => ending' = ending
      /\ board # None =>
           /\ board.round \in Rounds /\ ending'[board.round].how = "answered"
           /\ ending'[board.round].rows = board.rows
           /\ \A r \in Rounds : r # board.round => ending'[r] = ending[r]
  BY <1>0, EndedIs
<1>3. Always'
  BY <1>0, <1>1, <1>2, EndedAlways
<1>4. ASSUME Sends(c), c.kind = "post", board # None, ~board.posting, c.round = board.round,
             board.posted = None
      PROVE  ~Awaited(c.round) /\ \A m \in DOMAIN slack : slack[m].round # c.round
  <2>1. DOMAIN slack \subseteq Message
    BY <1>0, BoundsAreNumbers DEF WiresTyped, Message
  <2> QED
    BY <1>0, <1>4, <2>1, NoneIsNoMessage DEF BoardKnows
<1>5. Tickets'
  <2>1. CASE SendsNothing
    BY <1>0, <1>2, <2>1, EndedTickets DEF SendsNothing
  <2>2. CASE ~SendsNothing
    <3>1. out' = out \cup {c} /\ board # None /\ c.round = board.round
      BY <1>1, <2>2 DEF Sends
    <3>2. c.kind = "post" => /\ ~Awaited(c.round)
                             /\ \A m \in DOMAIN slack : slack[m].round # c.round
      BY <1>1, <1>4, <2>2
    <3> QED
      BY <1>0, <1>2, <3>1, <3>2, EndedTickets
  <2> QED
    BY <2>1, <2>2
<1>6. ASSUME faults = 0 PROVE EndsMeet'
  <2>0. EndsMeet /\ slack' = slack /\ reports' = reports /\ out \subseteq out'
    BY <1>0, <1>1, <1>6, PreIs DEF Sends, SendsNothing
  <2>1. ASSUME NEW m \in DOMAIN slack PROVE Leaving(m)' <=> Leaving(m)
    BY <1>0, <1>1 DEF Leaving, Sends, SendsNothing
  <2>2. ASSUME NEW r \in Rounds, NEW rows, rows = ending[r].rows,
               board # None => r # board.round, ending[r].how = "answered", rows # {}
        PROVE  Awaited(r)' \/ Latest(r, rows)'
    <3>1. Awaited(r) \/ Latest(r, rows)
      BY <2>0, <2>2 DEF EndsMeet
    <3>2. CASE SendsNothing
      BY <2>0, <3>1, <3>2 DEF SendsNothing, Awaited, Latest, Newest
    <3>3. CASE ~SendsNothing
      <4>1. Sends(c) /\ (c.kind = "update" => slack[c.ts].round # r)
        BY <1>0, <1>1, <2>2, <3>3 DEF BoardKnows
      <4> QED
        BY <1>0, <2>0, <3>1, <4>1, SentLatest, StillAwaited
    <3> QED
      BY <3>2, <3>3
  <2>3. ASSUME board # None, board.rows # {}, NEW b, NEW rows, b = board.round, rows = board.rows
        PROVE  Awaited(b)' \/ Latest(b, rows)'
    <3>1. CASE SendsNothing
      <4>1. ~board.dirty \/ board.posting
        BY <1>1, <2>3, <3>1
      <4>2. Awaited(b) \/ Latest(b, rows)
        BY <1>0, <2>0, <2>3, <4>1 DEF BoardKnows, EndsMeet
      <4> QED
        BY <2>0, <3>1, <4>2 DEF SendsNothing, Awaited, Latest, Newest
    <3>2. CASE ~SendsNothing
      <4>1. \/ c.kind = "post" /\ c.round = b
            \/ c.kind = "update" /\ slack[c.ts].round = b
        BY <1>0, <1>1, <2>3, <3>2 DEF BoardKnows
      <4>2. Sends(c) /\ c.rows = rows
        BY <1>1, <2>3, <3>2
      <4>3. Latest(b, c.rows)'
        BY <1>0, <4>1, <4>2, DrawnLatest
      <4> QED
        BY <4>2, <4>3
    <3> QED
      BY <3>1, <3>2
  <2>4. ASSUME NEW r \in Rounds, ending'[r].how = "silent"
        PROVE  Awaited(r)' \/ \A m \in DOMAIN slack : slack[m].round = r => Leaving(m)'
    <3>1. ending[r].how = "silent"
      BY <1>2, <2>4
    <3>2. Awaited(r) \/ \A m \in DOMAIN slack : slack[m].round = r => Leaving(m)
      BY <2>0, <3>1 DEF EndsMeet
    <3> QED
      BY <2>0, <2>1, <3>2, StillAwaited
  <2>5. ASSUME NEW m \in DOMAIN slack, Leaving(m) PROVE ending'[slack[m].round].how = "silent"
    <3>1. ending[slack[m].round].how = "silent" /\ slack[m].round \in Rounds
      BY <1>0, <2>0, <2>5, RoundsAre DEF EndsMeet
    <3>2. board # None => slack[m].round # board.round
      BY <1>0, <3>1 DEF Rounded
    <3> QED
      BY <1>2, <3>1, <3>2
  <2>6. ASSUME NEW r \in Rounds, NEW rows, rows = ending'[r].rows, ending'[r].how = "answered",
               rows # {}
        PROVE  Awaited(r)' \/ Latest(r, rows)'
    BY <1>2, <2>2, <2>3, <2>6
  <2> QED
    BY <1>0, <2>0, <2>1, <2>4, <2>5, <2>6 DEF EndsMeet
<1> QED
  BY <1>0, <1>3, <1>5, <1>6 DEF BInv


LEMMA DeleteIs ==
    ASSUME WiresTyped, NEW ts \in DOMAIN slack, NEW b \in Rounds, Send({Delete(ts, b)})
    PROVE  \E c : /\ Sends(c) /\ c.kind = "delete" /\ c.ts = ts /\ c.round = b
                  /\ out' = out \cup {c}
<1> DEFINE c == Delete(ts, b)
<1>1. ts \in Message
  BY BoundsAreNumbers DEF WiresTyped, Message
<1>2. c \in NewCall /\ c.kind = "delete" /\ c.ts = ts /\ c.round = b /\ c.rows = {}
  BY <1>1 DEF Delete, NewCall
<1>3. out' = out \cup {c} /\ calls' = calls + 1 /\ calls' <= MaxCalls
  BY SendIs
<1> HIDE DEF c
<1>4. Sends(c)
  BY <1>2, <1>3 DEF Sends, Earned
<1> QED
  BY <1>2, <1>3, <1>4

LEMMA SilentKeeps == ASSUME Pre, SettleSilent PROVE BInv'
<1>0. /\ BoardTyped /\ WiresTyped /\ Ids /\ RowsEarned /\ OnePost /\ BoardKnows /\ Rounded
      /\ board' = None /\ settled' = "silent" /\ Ended("silent")
      /\ UNCHANGED <<held, closed, opened, reports, slack, crossed, faults>>
      /\ crossed = {}
  BY PreIs DEF SettleSilent
<1>b. board # None => board \in Sticky /\ board.round \in Rounds
  BY <1>0 DEF BoardTyped, Sticky
<1>1. PICK c :
        \/ SendsNothing /\ (board = None \/ board.posted = None)
        \/ /\ board # None /\ board.posted # None /\ Sends(c) /\ c.kind = "delete"
           /\ c.ts = board.posted /\ c.round = board.round /\ out' = out \cup {c}
  <2>1. CASE board # None /\ board.posted # None
    <3>1. Send({Delete(board.posted, board.round)})
      BY <2>1 DEF SettleSilent
    <3>2. board.posted \in DOMAIN slack
      BY <1>0, <2>1 DEF Ids
    <3> QED
      BY <1>0, <1>b, <2>1, <3>1, <3>2, DeleteIs
  <2>2. CASE ~(board # None /\ board.posted # None)
    <3>1. Send({})
      BY <2>2 DEF SettleSilent
    <3> QED
      BY <1>0, <2>2, <3>1, SendIs
  <2> QED
    BY <2>1, <2>2
<1>2. /\ ending' \in [Rounds -> Ending]
      /\ board = None => ending' = ending
      /\ board # None =>
           /\ board.round \in Rounds /\ ending'[board.round].how = "silent"
           /\ \A r \in Rounds : r # board.round => ending'[r] = ending[r]
  BY <1>0, EndedIs
<1>3. Always'
  BY <1>0, <1>1, <1>2, EndedAlways
<1>5. Tickets'
  <2>1. CASE SendsNothing
    BY <1>0, <1>2, <2>1, EndedTickets DEF SendsNothing
  <2>2. CASE ~SendsNothing
    <3>1. out' = out \cup {c} /\ board # None /\ c.round = board.round /\ c.kind # "post"
      BY <1>1, <2>2
    <3> QED
      BY <1>0, <1>2, <3>1, EndedTickets
  <2> QED
    BY <2>1, <2>2
<1>6. ASSUME faults = 0 PROVE EndsMeet'
  <2>0. EndsMeet /\ slack' = slack /\ reports' = reports /\ out \subseteq out'
    BY <1>0, <1>1, <1>6, PreIs DEF Sends, SendsNothing
  <2>1. ASSUME NEW m \in DOMAIN slack, Leaving(m) PROVE Leaving(m)'
    BY <2>0, <2>1 DEF Leaving
  <2>2. ASSUME NEW r \in Rounds, NEW rows, rows = ending'[r].rows, ending'[r].how = "answered",
               rows # {}
        PROVE  Awaited(r)' \/ Latest(r, rows)'
    <3>1. ending'[r] = ending[r]
      BY <1>2, <2>2
    <3>2. Awaited(r) \/ Latest(r, rows)
      BY <2>0, <2>2, <3>1 DEF EndsMeet
    <3>3. CASE SendsNothing
      BY <2>0, <3>2, <3>3 DEF SendsNothing, Awaited, Latest, Newest
    <3>4. CASE ~SendsNothing
      <4>1. Sends(c) /\ (c.kind = "update" => slack[c.ts].round # r)
        BY <1>1, <3>4
      <4> QED
        BY <1>0, <2>0, <3>2, <4>1, SentLatest, StillAwaited
    <3> QED
      BY <3>3, <3>4
  <2>3. ASSUME board # None, NEW b, b = board.round
        PROVE  Awaited(b)' \/ \A m \in DOMAIN slack : slack[m].round = b => Leaving(m)'
    <3>1. CASE board.posting
      BY <1>0, <2>0, <2>3, <3>1, StillAwaited DEF BoardKnows
    <3>2. CASE ~board.posting
      <4>1. ASSUME NEW m \in DOMAIN slack, slack[m].round = b PROVE Leaving(m)'
        <5>1. board.posted = m
          BY <1>0, <2>3, <3>2, <4>1 DEF BoardKnows
        <5>2. m \in Message
          BY <1>0, BoundsAreNumbers DEF WiresTyped, Message
        <5>3. board.posted # None
          BY <5>1, <5>2, NoneIsNoMessage
        <5>4. c \in out' /\ c.kind = "delete" /\ c.ts = m
          BY <1>1, <2>3, <5>1, <5>3
        <5> QED
          BY <5>4 DEF Leaving
      <4> QED
        BY <4>1
    <3> QED
      BY <3>1, <3>2
  <2>4. ASSUME NEW r \in Rounds, ending'[r].how = "silent"
        PROVE  Awaited(r)' \/ \A m \in DOMAIN slack : slack[m].round = r => Leaving(m)'
    <3>1. CASE board # None /\ r = board.round
      BY <2>3, <3>1
    <3>2. CASE ~(board # None /\ r = board.round)
      <4>1. ending[r].how = "silent"
        BY <1>2, <2>4, <3>2
      <4>2. Awaited(r) \/ \A m \in DOMAIN slack : slack[m].round = r => Leaving(m)
        BY <2>0, <4>1 DEF EndsMeet
      <4> QED
        BY <2>0, <2>1, <4>2, StillAwaited
    <3> QED
      BY <3>1, <3>2
  <2>5. ASSUME NEW m \in DOMAIN slack, Leaving(m)' PROVE ending'[slack[m].round].how = "silent"
    <3>0. slack[m].round \in Rounds
      BY <1>0, RoundsAre
    <3>1. CASE Leaving(m)
      <4>1. ending[slack[m].round].how = "silent"
        BY <2>0, <3>1 DEF EndsMeet
      <4> QED
        BY <1>2, <3>0, <4>1
    <3>2. CASE ~Leaving(m)
      <4>1. board # None /\ board.posted # None /\ board.posted = m
        BY <1>1, <2>0, <2>5, <3>2 DEF Leaving, SendsNothing
      <4>2. slack[m].round = board.round
        BY <1>0, <4>1 DEF BoardKnows, BoardTyped
      <4> QED
        BY <1>2, <4>1, <4>2
    <3> QED
      BY <3>1, <3>2
  <2> QED
    BY <1>0, <2>0, <2>2, <2>4, <2>5 DEF EndsMeet
<1> QED
  BY <1>0, <1>3, <1>5, <1>6 DEF BInv

-----------------------------------------------------------------------------
(* Calls that land or fail.                                                *)

\* An update or a delete is done with: a message may have changed, none has come
LEMMA DoneWith ==
    ASSUME Pre, NEW c \in out, c.kind # "post", out' = out \ {c},
           UNCHANGED <<boardVars, reports, calls>>,
           crossed' \subseteq Crossings, faults' \in 0 .. MaxFaults,
           DOMAIN slack' = DOMAIN slack,
           \A m \in DOMAIN slack : /\ slack'[m] \in Seen /\ slack'[m].round = slack[m].round
                                   /\ Earned(slack'[m].rows)
    PROVE  Always' /\ Tickets' /\ \A r : Awaited(r)' <=> Awaited(r)
<1>0. /\ BoardTyped /\ WiresTyped /\ Ids /\ RowsEarned /\ OnePost /\ BoardKnows /\ Rounded
      /\ UNCHANGED <<board, settled, held, closed, opened, ending>>
  BY PreIs DEF boardVars
<1>1. BoardTyped'
  BY <1>0 DEF BoardTyped
<1>2. WiresTyped'
  BY <1>0 DEF WiresTyped, Call, Seen
<1>3. Ids'
  BY <1>0, RoundsAre DEF Ids
<1>4. RowsEarned'
  BY <1>0 DEF RowsEarned, Pictures
<1>5. \A r : Awaited(r)' <=> Awaited(r)
  BY DEF Awaited
<1>6. OnePost'
  BY <1>0 DEF OnePost
<1>7. BoardKnows'
  BY <1>0, <1>5 DEF BoardKnows, Ids
<1>8. Rounded'
  BY <1>0 DEF Rounded
<1> QED
  BY <1>1, <1>2, <1>3, <1>4, <1>5, <1>6, <1>7, <1>8 DEF Always, Tickets

LEMMA AppliedPost ==
    ASSUME WiresTyped, Ids, NEW c \in out, c.kind = "post", slack' = Applied(c)
    PROVE  /\ DOMAIN slack' = DOMAIN slack \cup {c.n} /\ c.n \notin DOMAIN slack /\ c.n \in 1 .. calls
           /\ \A m \in DOMAIN slack : slack'[m] = slack[m]
           /\ slack'[c.n] \in Seen /\ slack'[c.n].round = c.round /\ slack'[c.n].rows = c.rows
           /\ slack'[c.n].n = c.n /\ ~slack'[c.n].gone
<1>1. c \in Call /\ c.n \notin DOMAIN slack
  BY DEF WiresTyped, Ids
<1>2. slack' = [m \in DOMAIN slack \cup {c.n} |-> IF m = c.n THEN Shown(c) ELSE slack[m]]
  BY DEF Applied
<1>3. Shown(c) \in Seen /\ Shown(c).round = c.round /\ Shown(c).rows = c.rows
      /\ Shown(c).n = c.n /\ ~Shown(c).gone
  BY <1>1 DEF Call, Seen, Shown
<1> QED
  BY <1>1, <1>2, <1>3 DEF Call

LEMMA AppliedUpdate ==
    ASSUME WiresTyped, Ids, NEW c \in out, c.kind = "update", slack' = Applied(c)
    PROVE  /\ DOMAIN slack' = DOMAIN slack /\ c.ts \in DOMAIN slack
           /\ \A m \in DOMAIN slack : m # c.ts => slack'[m] = slack[m]
           /\ slack'[c.ts] \in Seen /\ slack'[c.ts].round = slack[c.ts].round
           /\ slack'[c.ts].gone = slack[c.ts].gone
           /\ \/ slack[c.ts].gone /\ slack'[c.ts] = slack[c.ts]
              \/ ~slack[c.ts].gone /\ slack'[c.ts].rows = c.rows /\ slack'[c.ts].n = c.n
<1>1. c \in Call /\ c.ts \in DOMAIN slack
  BY DEF WiresTyped, Ids
<1>2. slack[c.ts] \in Seen
  BY <1>1 DEF WiresTyped
<1>3. CASE slack[c.ts].gone
  BY <1>1, <1>2, <1>3 DEF Applied
<1>4. CASE ~slack[c.ts].gone
  <2>1. slack' = [slack EXCEPT ![c.ts] = [Shown(c) EXCEPT !.round = slack[c.ts].round]]
    BY <1>4 DEF Applied
  <2>2. PICK s : s = [Shown(c) EXCEPT !.round = slack[c.ts].round]
    OBVIOUS
  <2>3. s \in Seen /\ s.round = slack[c.ts].round /\ s.rows = c.rows /\ s.n = c.n /\ s.gone = FALSE
    BY <1>1, <1>2, <2>2 DEF Call, Seen, Shown
  <2>4. DOMAIN slack' = DOMAIN slack /\ slack'[c.ts] = s
        /\ \A m \in DOMAIN slack : m # c.ts => slack'[m] = slack[m]
    BY <1>1, <2>1, <2>2
  <2>5. slack[c.ts].gone = FALSE
    BY <1>2, <1>4 DEF Seen
  <2> QED
    BY <1>1, <1>4, <2>3, <2>4, <2>5
<1> QED
  BY <1>3, <1>4

LEMMA AppliedDelete ==
    ASSUME WiresTyped, Ids, NEW c \in out, c.kind = "delete", slack' = Applied(c)
    PROVE  /\ DOMAIN slack' = DOMAIN slack /\ c.ts \in DOMAIN slack
           /\ \A m \in DOMAIN slack :
                 /\ slack'[m] \in Seen /\ slack'[m].round = slack[m].round
                 /\ slack'[m].rows = slack[m].rows /\ slack'[m].n = slack[m].n
                 /\ slack'[m].gone <=> slack[m].gone \/ m = c.ts
<1>1. c.ts \in DOMAIN slack /\ \A m \in DOMAIN slack : slack[m] \in Seen
  BY DEF WiresTyped, Ids
<1>2. slack' = [slack EXCEPT ![c.ts].gone = TRUE]
  BY DEF Applied
<1>3. ASSUME NEW m \in DOMAIN slack, m # c.ts PROVE slack'[m] = slack[m]
  BY <1>1, <1>2, <1>3
<1>4. slack'[c.ts] = [slack[c.ts] EXCEPT !.gone = TRUE] /\ DOMAIN slack' = DOMAIN slack
  BY <1>1, <1>2
<1>5. /\ slack'[c.ts] \in Seen /\ slack'[c.ts].round = slack[c.ts].round
      /\ slack'[c.ts].rows = slack[c.ts].rows /\ slack'[c.ts].n = slack[c.ts].n
      /\ slack'[c.ts].gone
  BY <1>1, <1>4 DEF Seen
<1> QED
  BY <1>1, <1>3, <1>4, <1>5

LEMMA LandUpdateKeeps ==
    ASSUME Pre, NEW c \in out, c.kind = "update", Land(c) PROVE BInv'
<1>0. /\ BoardTyped /\ WiresTyped /\ Ids /\ RowsEarned /\ OnePost /\ BoardKnows /\ Rounded
      /\ crossed = {} /\ out' = out \ {c} /\ slack' = Applied(c)
      /\ UNCHANGED <<boardVars, board, ending, reports, calls, faults>>
  BY PreIs DEF Land, boardVars
<1>1. /\ DOMAIN slack' = DOMAIN slack /\ c.ts \in DOMAIN slack
      /\ \A m \in DOMAIN slack : m # c.ts => slack'[m] = slack[m]
      /\ slack'[c.ts] \in Seen /\ slack'[c.ts].round = slack[c.ts].round
      /\ slack'[c.ts].gone = slack[c.ts].gone
      /\ \/ slack[c.ts].gone /\ slack'[c.ts] = slack[c.ts]
         \/ ~slack[c.ts].gone /\ slack'[c.ts].rows = c.rows /\ slack'[c.ts].n = c.n
  BY <1>0, AppliedUpdate
<1>2. Always' /\ Tickets' /\ \A r : Awaited(r)' <=> Awaited(r)
  <2>1. crossed' \subseteq Crossings /\ faults' \in 0 .. MaxFaults
    BY <1>0 DEF Land, WiresTyped, Crossings
  <2>2. \A m \in DOMAIN slack : slack'[m].round = slack[m].round /\ slack'[m] \in Seen
    BY <1>0, <1>1 DEF WiresTyped
  <2>3. \A m \in DOMAIN slack : Earned(slack[m].rows)
    BY <1>0 DEF RowsEarned, Pictures
  <2>4. Earned(c.rows)
    BY <1>0 DEF RowsEarned, Pictures
  <2>5. \A m \in DOMAIN slack : Earned(slack'[m].rows)
    BY <1>1, <2>3, <2>4
  <2> QED
    BY <1>0, <1>1, <2>1, <2>2, <2>5, DoneWith
<1>3. ASSUME crossed' = {}, faults' = 0 PROVE EndsMeet'
  <2>0. EndsMeet /\ slack[c.ts].n <= c.n /\ c.n \in Nat
    <3>1. c.n \in Nat /\ slack[c.ts].n \in Nat
      BY <1>0, <1>1, BoundsAreNumbers DEF WiresTyped, Call, Seen
    <3> QED
      BY <1>0, <1>3, <3>1, PreIs DEF Land
  <2>1. ASSUME NEW m \in DOMAIN slack PROVE Leaving(m)' <=> Leaving(m)
    BY <1>0, <1>1, <2>1 DEF Leaving
  <2>2. ASSUME NEW r, NEW rows, Latest(r, rows), ~slack[c.ts].gone \/ slack[c.ts].round # r
        PROVE  Latest(r, rows)'
    <3>1. CASE \E d \in out : d.kind = "post" /\ d.round = r /\ d.rows = rows
      BY <1>0, <3>1 DEF Latest
    <3>2. ASSUME NEW m \in DOMAIN slack, slack[m].round = r, Newest(m, rows)
          PROVE  Latest(r, rows)'
      <4>1. slack'[m].round = r
        BY <1>1, <3>2
      <4>2. Newest(m, rows)'
        <5>1. CASE m # c.ts
          BY <1>0, <1>1, <3>2, <5>1 DEF Newest
        <5>2. CASE m = c.ts
          <6>1. slack'[m].rows = c.rows /\ slack'[m].n = c.n
            BY <1>1, <2>2, <3>2, <5>2
          <6>2. PICK e \in out : /\ e.kind = "update" /\ e.ts = m /\ e.rows = rows
                                 /\ \A d \in out : d.kind = "update" /\ d.ts = m => d.n <= e.n
            <7>1. ~(c.n < slack[c.ts].n)
              BY <1>0, <1>1, <2>0, BoundsAreNumbers DEF WiresTyped, Seen
            <7> QED
              BY <3>2, <5>2, <7>1 DEF Newest
          <6>3. \A d \in out : d.n \in Nat
            BY <1>0, BoundsAreNumbers DEF WiresTyped, Call
          <6>4. CASE e = c
            <7>1. \A d \in out' : d.kind = "update" /\ d.ts = m => d.n < c.n
              BY <1>0, <6>2, <6>3, <6>4 DEF Ids
            <7> QED
              BY <6>1, <6>2, <6>4, <7>1 DEF Newest
          <6>5. CASE e # c
            <7>1. e \in out' /\ c.n < e.n
              BY <1>0, <5>2, <6>2, <6>3, <6>5 DEF Ids
            <7>2. \A d \in out' : d.kind = "update" /\ d.ts = m => d.n <= e.n
              BY <1>0, <6>2
            <7> QED
              BY <6>1, <6>2, <7>1, <7>2 DEF Newest
          <6> QED
            BY <6>4, <6>5
        <5> QED
          BY <5>1, <5>2
      <4> QED
        BY <1>1, <4>1, <4>2 DEF Latest
    <3> QED
      BY <2>2, <3>1, <3>2 DEF Latest
  <2>3. slack[c.ts].gone => /\ ending[slack[c.ts].round].how = "silent"
                            /\ board # None => board.round # slack[c.ts].round
    <3>1. slack[c.ts].round \in Rounds
      BY <1>0, <1>1, RoundsAre
    <3> QED
      BY <1>0, <1>1, <2>0, <3>1 DEF EndsMeet, Leaving, Rounded
  <2>4. ASSUME NEW r \in Rounds, NEW rows, rows = ending[r].rows, ending[r].how = "answered",
               rows # {}
        PROVE  Awaited(r)' \/ Latest(r, rows)'
    <3>1. Awaited(r) \/ Latest(r, rows)
      BY <2>0, <2>4 DEF EndsMeet
    <3>2. ~slack[c.ts].gone \/ slack[c.ts].round # r
      BY <2>3, <2>4
    <3> QED
      BY <1>2, <2>2, <3>1, <3>2
  <2>5. ASSUME board # None, ~board.dirty, board.rows # {},
               NEW b, NEW rows, b = board.round, rows = board.rows
        PROVE  Latest(b, rows)'
    <3>1. Latest(b, rows)
      BY <2>0, <2>5 DEF EndsMeet
    <3>2. ~slack[c.ts].gone \/ slack[c.ts].round # b
      BY <2>3, <2>5
    <3> QED
      BY <2>2, <3>1, <3>2
  <2>6. \A m \in DOMAIN slack : slack'[m].round = slack[m].round
    BY <1>1
  <2>7. ASSUME NEW r \in Rounds, ending[r].how = "silent"
        PROVE  Awaited(r)' \/ \A m \in DOMAIN slack : slack[m].round = r => Leaving(m)'
    <3>1. Awaited(r) \/ \A m \in DOMAIN slack : slack[m].round = r => Leaving(m)
      BY <2>0, <2>7 DEF EndsMeet
    <3> QED
      BY <1>2, <2>1, <3>1
  <2> QED
    BY <1>0, <1>1, <2>0, <2>1, <2>4, <2>5, <2>6, <2>7 DEF EndsMeet
<1> QED
  BY <1>2, <1>3 DEF BInv

LEMMA LandDeleteKeeps ==
    ASSUME Pre, NEW c \in out, c.kind = "delete", Land(c) PROVE BInv'
<1>0. /\ BoardTyped /\ WiresTyped /\ Ids /\ RowsEarned /\ OnePost /\ BoardKnows /\ Rounded
      /\ out' = out \ {c} /\ slack' = Applied(c)
      /\ UNCHANGED <<boardVars, board, ending, reports, calls, faults, crossed>>
  BY PreIs DEF Land, boardVars
<1>1. /\ DOMAIN slack' = DOMAIN slack /\ c.ts \in DOMAIN slack
      /\ \A m \in DOMAIN slack :
            /\ slack'[m] \in Seen /\ slack'[m].round = slack[m].round
            /\ slack'[m].rows = slack[m].rows /\ slack'[m].n = slack[m].n
            /\ slack'[m].gone <=> slack[m].gone \/ m = c.ts
  BY <1>0, AppliedDelete
<1>2. Always' /\ Tickets' /\ \A r : Awaited(r)' <=> Awaited(r)
  <2>1. \A m \in DOMAIN slack : Earned(slack[m].rows)
    BY <1>0 DEF RowsEarned, Pictures
  <2>2. \A m \in DOMAIN slack : slack'[m] \in Seen /\ slack'[m].round = slack[m].round
                                /\ Earned(slack'[m].rows)
    BY <1>1, <2>1
  <2>3. crossed' \subseteq Crossings /\ faults' \in 0 .. MaxFaults
    BY <1>0 DEF WiresTyped
  <2> QED
    BY <1>0, <1>1, <2>2, <2>3, DoneWith
<1>3. ASSUME faults = 0 PROVE EndsMeet'
  <2>0. EndsMeet
    BY <1>3, PreIs
  <2>1. ASSUME NEW m \in DOMAIN slack PROVE Leaving(m)' <=> Leaving(m)
    BY <1>0, <1>1, <2>1 DEF Leaving
  <2>2. ASSUME NEW r, NEW rows, Latest(r, rows) PROVE Latest(r, rows)'
    <3>1. CASE \E d \in out : d.kind = "post" /\ d.round = r /\ d.rows = rows
      BY <1>0, <3>1 DEF Latest
    <3>2. ASSUME NEW m \in DOMAIN slack, slack[m].round = r, Newest(m, rows)
          PROVE  Latest(r, rows)'
      <4>1. Newest(m, rows)'
        BY <1>0, <1>1, <3>2 DEF Newest
      <4> QED
        BY <1>1, <3>2, <4>1 DEF Latest
    <3> QED
      BY <2>2, <3>1, <3>2 DEF Latest
  <2>4. ASSUME NEW r \in Rounds, NEW rows, rows = ending[r].rows, ending[r].how = "answered",
               rows # {}
        PROVE  Awaited(r)' \/ Latest(r, rows)'
    <3>1. Awaited(r) \/ Latest(r, rows)
      BY <2>0, <2>4 DEF EndsMeet
    <3> QED
      BY <1>2, <2>2, <3>1
  <2>5. ASSUME board # None, ~board.dirty, board.rows # {},
               NEW b, NEW rows, b = board.round, rows = board.rows
        PROVE  Latest(b, rows)'
    <3>1. Latest(b, rows)
      BY <2>0, <2>5 DEF EndsMeet
    <3> QED
      BY <2>2, <3>1
  <2>6. \A m \in DOMAIN slack : slack'[m].round = slack[m].round
    BY <1>1
  <2>7. ASSUME NEW r \in Rounds, ending[r].how = "silent"
        PROVE  Awaited(r)' \/ \A m \in DOMAIN slack : slack[m].round = r => Leaving(m)'
    <3>1. Awaited(r) \/ \A m \in DOMAIN slack : slack[m].round = r => Leaving(m)
      BY <2>0, <2>7 DEF EndsMeet
    <3> QED
      BY <1>2, <2>1, <3>1
  <2> QED
    BY <1>0, <1>1, <2>0, <2>1, <2>4, <2>5, <2>6, <2>7 DEF EndsMeet
<1> QED
  BY <1>0, <1>2, <1>3 DEF BInv

\* A first post is done with: it is there and reported as it is, or it is not
\* there, or it is there and reported as if it were not
LEMMA PostDone ==
    ASSUME Pre, NEW c \in out, c.kind = "post", out' = out \ {c},
           UNCHANGED <<boardVars, calls>>,
           crossed' \subseteq Crossings, faults' \in 0 .. MaxFaults,
           slack' = slack \/ slack' = Applied(c),
           NEW ts \in {c.n, None}, reports' = Append(reports, [round |-> c.round, ts |-> ts]),
           ts = c.n => slack' = Applied(c)
    PROVE  /\ Always'
           /\ \A r : Awaited(r)' <=> Awaited(r)
           /\ (slack' = slack <=> ts = None) => Tickets'
           /\ DOMAIN reports' = DOMAIN reports \cup {Len(reports) + 1}
           /\ Len(reports) + 1 \notin DOMAIN reports
           /\ \A i \in DOMAIN reports : reports'[i] = reports[i]
           /\ reports'[Len(reports) + 1] = [round |-> c.round, ts |-> ts]
<1>0. /\ BoardTyped /\ WiresTyped /\ Ids /\ RowsEarned /\ OnePost /\ BoardKnows /\ Rounded
      /\ UNCHANGED <<board, settled, held, closed, opened, ending>>
  BY PreIs DEF boardVars
<1>1. c \in Call /\ c.n \in Message /\ c.round \in Rounds /\ reports \in Seq(Told)
      /\ None \notin Message /\ c.n \notin DOMAIN slack /\ DOMAIN slack \subseteq Message
  BY <1>0, BoundsAreNumbers, NoneIsNoMessage DEF WiresTyped, Call, Message, Ids
<1>2. PICK t : t = [round |-> c.round, ts |-> ts]
  OBVIOUS
<1>3. t \in Told /\ t.round = c.round /\ t.ts = ts
  BY <1>1, <1>2 DEF Told
<1>4. reports' = Append(reports, t)
  BY <1>2
<1>5. /\ reports' \in Seq(Told) /\ DOMAIN reports' = DOMAIN reports \cup {Len(reports) + 1}
      /\ Len(reports) + 1 \notin DOMAIN reports
      /\ \A i \in DOMAIN reports : reports'[i] = reports[i]
      /\ reports'[Len(reports) + 1] = t
  BY <1>1, <1>3, <1>4
<1>6. CASE slack' = slack /\ ts = None
  <2>1. BoardTyped' /\ WiresTyped'
    BY <1>0, <1>5, <1>6 DEF BoardTyped, WiresTyped, Call, Seen
  <2>2. Ids'
    BY <1>0, <1>3, <1>5, <1>6 DEF Ids
  <2>3. RowsEarned'
    BY <1>0, <1>6 DEF RowsEarned, Pictures
  <2>4. \A r : Awaited(r)' <=> Awaited(r)
    BY <1>3, <1>5 DEF Awaited
  <2>5. OnePost'
    BY <1>0, <1>3, <1>5, <1>6 DEF OnePost
  <2>6. BoardKnows'
    BY <1>0, <1>6, <2>4 DEF BoardKnows
  <2>7. Rounded'
    BY <1>0, <1>3, <1>5, <1>6 DEF Rounded
  <2> QED
    BY <1>2, <1>5, <1>6, <2>1, <2>2, <2>3, <2>4, <2>5, <2>6, <2>7 DEF Always, Tickets
<1>7. CASE slack' = Applied(c)
  <2>0. /\ DOMAIN slack' = DOMAIN slack \cup {c.n} /\ c.n \notin DOMAIN slack /\ c.n \in 1 .. calls
        /\ \A m \in DOMAIN slack : slack'[m] = slack[m]
        /\ slack'[c.n] \in Seen /\ slack'[c.n].round = c.round /\ slack'[c.n].rows = c.rows
        /\ slack'[c.n].n = c.n /\ ~slack'[c.n].gone
    BY <1>0, <1>7, AppliedPost
  <2>1. BoardTyped'
    BY <1>0 DEF BoardTyped
  <2>w. WiresTyped'
    <3>1. \A m \in DOMAIN slack' : slack'[m] \in Seen
      BY <1>0, <2>0 DEF WiresTyped
    <3>2. DOMAIN slack' \subseteq 1 .. calls
      BY <1>0, <2>0 DEF WiresTyped
    <3> QED
      BY <1>0, <1>5, <3>1, <3>2 DEF WiresTyped, Call, Seen
  <2>2. Ids'
    <3>1. \A e, d \in out' : e.n = d.n => e = d
      BY <1>0 DEF Ids
    <3>2. \A d \in out' : IF d.kind = "post" THEN d.n \notin DOMAIN slack' ELSE d.ts \in DOMAIN slack'
      BY <1>0, <2>0 DEF Ids
    <3>3. \A i \in DOMAIN reports : reports[i].ts # None =>
             reports[i].ts \in DOMAIN slack' /\ slack'[reports[i].ts].round = reports[i].round
      BY <1>0, <2>0 DEF Ids
    <3>4. t.ts # None => t.ts \in DOMAIN slack' /\ slack'[t.ts].round = t.round
      BY <1>3, <2>0
    <3>5. \A i \in DOMAIN reports' : reports'[i].ts # None =>
             reports'[i].ts \in DOMAIN slack' /\ slack'[reports'[i].ts].round = reports'[i].round
      BY <1>5, <3>3, <3>4
    <3>6. board # None /\ board.posted # None => board.posted \in DOMAIN slack'
      BY <1>0, <2>0 DEF Ids
    <3> QED
      BY <1>0, <3>1, <3>2, <3>5, <3>6 DEF Ids
  <2>3. RowsEarned'
    <3>1. \A m \in DOMAIN slack' : Earned(slack'[m].rows)
      BY <1>0, <2>0 DEF RowsEarned, Pictures
    <3> QED
      BY <1>0, <3>1 DEF RowsEarned, Pictures
  <2>4. \A r : Awaited(r)' <=> Awaited(r)
    BY <1>3, <1>5 DEF Awaited
  <2>5. ASSUME ts = c.n PROVE Tickets'
    <3>1. OnePost'
      <4>1. \A e, d \in out' : e.kind = "post" /\ d.kind = "post" /\ e.round = d.round => e = d
        BY <1>0 DEF OnePost
      <4>2. \A d \in out' : d.kind = "post" => d.round # c.round
        BY <1>0 DEF OnePost
      <4>3. \A d \in out' : d.kind = "post" =>
               /\ \A i \in DOMAIN reports' : reports'[i].round # d.round
               /\ \A m \in DOMAIN slack' : slack'[m].round # d.round
        BY <1>0, <1>3, <1>5, <2>0, <4>2 DEF OnePost
      <4>4. \A i, j \in DOMAIN reports' : reports'[i].round = reports'[j].round => i = j
        BY <1>0, <1>3, <1>5 DEF OnePost
      <4>5. \A i \in DOMAIN reports' : reports'[i].ts = None =>
               \A m \in DOMAIN slack' : slack'[m].round # reports'[i].round
        <5>1. t.ts # None
          BY <1>1, <1>3, <2>5
        <5>2. \A i \in DOMAIN reports : reports[i].round # c.round
          BY <1>0 DEF OnePost
        <5>3. \A i \in DOMAIN reports : reports[i].ts = None =>
                 \A m \in DOMAIN slack' : slack'[m].round # reports[i].round
          BY <1>0, <2>0, <5>2 DEF OnePost
        <5> QED
          BY <1>5, <5>1, <5>3
      <4>6. \A m, k \in DOMAIN slack' : slack'[m].round = slack'[k].round => m = k
        BY <1>0, <2>0 DEF OnePost
      <4> QED
        BY <4>1, <4>3, <4>4, <4>5, <4>6 DEF OnePost
    <3>2. BoardKnows'
      <4>1. board # None /\ ~board.posting => c.round # board.round
        BY <1>0 DEF BoardKnows, Awaited
      <4>2. board # None /\ ~board.posting =>
               /\ \A m \in DOMAIN slack' : slack'[m].round = board.round => board.posted = m
               /\ board.posted # None => slack'[board.posted].round = board.round
        BY <1>0, <2>0, <4>1 DEF BoardKnows, Ids
      <4> QED
        BY <1>0, <2>4, <4>2 DEF BoardKnows
    <3>3. Rounded'
      <4>1. \A i \in DOMAIN reports' : reports'[i].round <= opened
        BY <1>0, <1>3, <1>5 DEF Rounded
      <4>2. \A m \in DOMAIN slack' : slack'[m].round <= opened
        BY <1>0, <2>0 DEF Rounded
      <4> QED
        BY <1>0, <4>1, <4>2 DEF Rounded
    <3> QED
      BY <3>1, <3>2, <3>3 DEF Tickets
  <2>6. slack' # slack
    BY <2>0
  <2>7. (slack' = slack <=> ts = None) => ts = c.n
    BY <2>6
  <2> QED
    BY <1>2, <1>5, <2>1, <2>w, <2>2, <2>3, <2>4, <2>5, <2>7 DEF Always
<1> QED
  BY <1>6, <1>7

LEMMA LandPostKeeps ==
    ASSUME Pre, NEW c \in out, c.kind = "post", Land(c) PROVE BInv'
<1>0. /\ BoardTyped /\ WiresTyped /\ Ids /\ RowsEarned /\ OnePost /\ BoardKnows /\ Rounded
      /\ out' = out \ {c} /\ slack' = Applied(c) /\ crossed = {}
      /\ UNCHANGED <<boardVars, board, ending, calls, faults, crossed>>
      /\ reports' = Append(reports, [round |-> c.round, ts |-> c.n])
  BY PreIs DEF Land, boardVars
<1>1. /\ DOMAIN slack' = DOMAIN slack \cup {c.n} /\ c.n \notin DOMAIN slack /\ c.n \in 1 .. calls
      /\ \A m \in DOMAIN slack : slack'[m] = slack[m]
      /\ slack'[c.n].round = c.round /\ slack'[c.n].rows = c.rows
      /\ slack'[c.n].n = c.n /\ ~slack'[c.n].gone
  BY <1>0, AppliedPost
<1>2. c.n # None
  BY <1>0, <1>1, BoundsAreNumbers, NoneIsNoMessage DEF WiresTyped, Message
<1>3. /\ Always' /\ Tickets' /\ \A r : Awaited(r)' <=> Awaited(r)
      /\ DOMAIN reports' = DOMAIN reports \cup {Len(reports) + 1}
      /\ \A i \in DOMAIN reports : reports'[i] = reports[i]
      /\ reports'[Len(reports) + 1] = [round |-> c.round, ts |-> c.n]
  <2>1. crossed' \subseteq Crossings /\ faults' \in 0 .. MaxFaults
    BY <1>0 DEF WiresTyped
  <2>2. slack' # slack
    BY <1>1
  <2> QED
    BY <1>0, <1>2, <2>1, <2>2, PostDone
<1>4. ASSUME faults = 0 PROVE EndsMeet'
  <2>0. EndsMeet
    BY <1>4, PreIs
  <2>1. \A i \in DOMAIN reports' : reports'[i].ts # None
    BY <1>2, <1>3, <2>0 DEF EndsMeet
  <2>2. ASSUME NEW m \in DOMAIN slack PROVE Leaving(m)' <=> Leaving(m)
    BY <1>0, <1>1, <2>2 DEF Leaving
  <2>3. \A d \in out : d.kind # "post" => d.ts # c.n
    BY <1>0, <1>1 DEF Ids
  <2>l. PICK new : new = c.n
    OBVIOUS
  <2>4. ~Leaving(new)'
    BY <1>0, <1>1, <2>3, <2>l DEF Leaving
  <2>5. ASSUME NEW r, NEW rows, Latest(r, rows) PROVE Latest(r, rows)'
    <3>1. ASSUME NEW d \in out, d.kind = "post", d.round = r, d.rows = rows
          PROVE  Latest(r, rows)'
      <4>1. CASE d # c
        BY <1>0, <3>1, <4>1 DEF Latest
      <4>2. CASE d = c
        <5>1. Newest(new, rows)'
          BY <1>0, <1>1, <2>3, <2>l, <3>1, <4>2 DEF Newest
        <5> QED
          BY <1>1, <2>l, <3>1, <4>2, <5>1 DEF Latest
      <4> QED
        BY <4>1, <4>2
    <3>2. ASSUME NEW m \in DOMAIN slack, slack[m].round = r, Newest(m, rows)
          PROVE  Latest(r, rows)'
      <4>1. Newest(m, rows)'
        BY <1>0, <1>1, <3>2 DEF Newest
      <4> QED
        BY <1>1, <3>2, <4>1 DEF Latest
    <3> QED
      BY <2>5, <3>1, <3>2 DEF Latest
  <2>6. ASSUME NEW r \in Rounds, NEW rows, rows = ending[r].rows, ending[r].how = "answered",
               rows # {}
        PROVE  Awaited(r)' \/ Latest(r, rows)'
    <3>1. Awaited(r) \/ Latest(r, rows)
      BY <2>0, <2>6 DEF EndsMeet
    <3> QED
      BY <1>3, <2>5, <3>1
  <2>7. ASSUME board # None, ~board.dirty, board.rows # {},
               NEW b, NEW rows, b = board.round, rows = board.rows
        PROVE  Latest(b, rows)'
    <3>1. Latest(b, rows)
      BY <2>0, <2>7 DEF EndsMeet
    <3> QED
      BY <2>5, <3>1
  <2>8. ASSUME NEW r \in Rounds, ending[r].how = "silent"
        PROVE  Awaited(r)' \/ \A m \in DOMAIN slack' : slack'[m].round = r => Leaving(m)'
    <3>1. CASE Awaited(r)
      BY <1>3, <3>1
    <3>2. CASE ~Awaited(r)
      <4>1. c.round # r
        BY <3>2 , <1>0 DEF Awaited
      <4>2. \A m \in DOMAIN slack : slack[m].round = r => Leaving(m)
        BY <2>0, <2>8, <3>2 DEF EndsMeet
      <4> QED
        BY <1>1, <2>2, <4>1, <4>2
    <3> QED
      BY <3>1, <3>2
  <2>9. ASSUME NEW m \in DOMAIN slack', Leaving(m)' PROVE ending[slack'[m].round].how = "silent"
    <3>1. m \in DOMAIN slack
      BY <1>1, <2>4, <2>9, <2>l
    <3> QED
      BY <1>1, <2>0, <2>2, <2>9, <3>1 DEF EndsMeet
  <2> QED
    BY <1>0, <2>1, <2>6, <2>7, <2>8, <2>9 DEF EndsMeet
<1> QED
  BY <1>0, <1>3, <1>4 DEF BInv

LEMMA FailKeeps ==
    ASSUME Pre, NEW c \in out, Fail(c) PROVE BInv'
<1>0. /\ BoardTyped /\ WiresTyped /\ Ids /\ RowsEarned /\ OnePost /\ BoardKnows /\ Rounded
      /\ crossed = {} /\ out' = out \ {c} /\ UNCHANGED <<boardVars, calls>>
      /\ c \in Call
  BY PreIs DEF Fail, WiresTyped
<1>1. faults' \in 0 .. MaxFaults /\ faults' # 0
  BY <1>0, BoundsAreNumbers DEF Fail, WiresTyped
<1>2. crossed' \subseteq Crossings
  BY <1>0 DEF Fail, WiresTyped, Crossings
<1>3. CASE c.kind # "post"
  <2>1. slack' = slack /\ reports' = reports
    BY <1>3 DEF Fail
  <2>2. \A m \in DOMAIN slack : slack[m] \in Seen /\ Earned(slack[m].rows)
    BY <1>0 DEF WiresTyped, RowsEarned, Pictures
  <2>3. Always' /\ Tickets'
    BY <1>0, <1>1, <1>2, <1>3, <2>1, <2>2, DoneWith
  <2> QED
    BY <1>1, <2>3 DEF BInv
<1>4. CASE c.kind = "post"
  <2>1. /\ reports' = Append(reports, [round |-> c.round, ts |-> None])
        /\ \/ slack' = slack /\ crossed' = crossed
           \/ slack' = Applied(c) /\ crossed' # {}
    BY <1>4 DEF Fail
  <2>2. None # c.n
    BY <1>0, BoundsAreNumbers, NoneIsNoMessage DEF WiresTyped, Call, Message
  <2>3. Always' /\ ((slack' = slack <=> None = None) => Tickets')
    BY <1>0, <1>1, <1>2, <1>4, <2>1, <2>2, PostDone
  <2> QED
    BY <1>1, <2>1, <2>3 DEF BInv
<1> QED
  BY <1>3, <1>4

-----------------------------------------------------------------------------
(* The answer to a first post.                                             *)

LEMMA TailIs ==
    ASSUME WiresTyped, reports # <<>>, reports' = Tail(reports)
    PROVE  /\ Head(reports) \in Told /\ 1 \in DOMAIN reports /\ Head(reports) = reports[1]
           /\ reports' \in Seq(Told)
           /\ \A i \in DOMAIN reports' : i + 1 \in DOMAIN reports /\ reports'[i] = reports[i + 1] /\ i + 1 # 1
           /\ \A i \in DOMAIN reports : i # 1 => i - 1 \in DOMAIN reports' /\ reports'[i - 1] = reports[i]
BY DEF WiresTyped

LEMMA PostedIs ==
    ASSUME Pre, NEW ts \in DOMAIN slack, NEW s, s = Posted(ts), s.round <= MaxRounds
    PROVE  /\ s \in Sticky /\ Earned(s.rows) /\ s.posted = ts /\ s.posting = FALSE
           /\ s.round \in Rounds
           /\ board # None => s.round = board.round /\ s.rows = board.rows /\ s.dirty = board.dirty
<1>1. BoardTyped /\ RowsEarned /\ BoardKnows /\ ts \in Message
  BY PreIs, BoundsAreNumbers DEF WiresTyped, Message
<1>2. PICK d : d = OrDefault
  OBVIOUS
<1>3. s = [d EXCEPT !.posted = ts, !.posting = FALSE]
  BY <1>2 DEF Posted
<1>4. CASE board # None
  <2>1. d = board /\ board \in Sticky /\ Earned(board.rows)
    BY <1>1, <1>2, <1>4 DEF OrDefault, BoardTyped, RowsEarned
  <2> QED
    BY <1>1, <1>3, <1>4, <2>1 DEF Sticky
<1>5. CASE board = None
  <2>1. d = [round |-> opened + 1, rows |-> {}, posted |-> None, posting |-> FALSE, dirty |-> FALSE]
    BY <1>2, <1>5 DEF OrDefault, Fresh
  <2>2. s = [round |-> opened + 1, rows |-> {}, posted |-> ts, posting |-> FALSE, dirty |-> FALSE]
    BY <1>3, <2>1
  <2>3. opened + 1 \in Rounds
    BY <1>1, <2>2, BoundsAreNumbers DEF BoardTyped, Rounds
  <2> QED
    BY <1>1, <1>5, <2>2, <2>3 DEF Sticky, Earned
<1> QED
  BY <1>4, <1>5

\* A round's post is answered: the round is awaited no more, the others are as before
LEMMA ReportTickets ==
    ASSUME Pre, Report, board # None, board.round = Head(reports).round, NEW b, b = board.round
    PROVE  /\ board.posting /\ ~Awaited(b)'
           /\ \A r : r # b /\ Awaited(r) => Awaited(r)'
           /\ out \subseteq out' /\ \A c \in out' : c.kind = "post" => c \in out
<1>0. /\ WiresTyped /\ Ids /\ OnePost /\ BoardKnows /\ reports # <<>> /\ reports' = Tail(reports)
      /\ BoardTyped
  BY PreIs DEF Report
<1>1. /\ 1 \in DOMAIN reports /\ Head(reports) = reports[1] /\ Head(reports) \in Told
      /\ \A i \in DOMAIN reports' : i + 1 \in DOMAIN reports /\ reports'[i] = reports[i + 1] /\ i + 1 # 1
      /\ \A i \in DOMAIN reports : i # 1 => i - 1 \in DOMAIN reports' /\ reports'[i - 1] = reports[i]
  BY <1>0, TailIs
<1>2. Awaited(b)
  BY <1>1 DEF Awaited
<1>3. board.posting
  BY <1>0, <1>2 DEF BoardKnows
<1>4. out \subseteq out' /\ \A c \in out' : c.kind = "post" => c \in out
  <2>1. CASE Head(reports).ts = None
    BY <2>1 DEF Report
  <2>2. CASE Head(reports).ts # None
    <3>1. CASE Send({})
      BY <1>0, <3>1, SendIs DEF SendsNothing
    <3>2. PICK s, ts : ts # None /\ (Send({Draw(s, ts)}) \/ Send({}))
      BY <2>2 DEF Report
    <3>3. PICK c : c = Draw(s, ts)
      OBVIOUS
    <3>4. c.kind = "update"
      BY <3>2, <3>3 DEF Draw
    <3>5. CASE Send({c})
      <4>1. out' = out \cup {c}
        BY <1>0, <3>5, SendIs
      <4> QED
        BY <3>4, <4>1
    <3> QED
      BY <3>1, <3>2, <3>3, <3>5
  <2> QED
    BY <2>1, <2>2
<1>5. ~Awaited(b)'
  <2>1. \A c \in out : c.kind = "post" => c.round # b
    BY <1>0, <1>1 DEF OnePost
  <2>2. \A i \in DOMAIN reports' : reports'[i].round # b
    BY <1>0, <1>1 DEF OnePost
  <2> QED
    BY <1>4, <2>1, <2>2 DEF Awaited
<1>6. ASSUME NEW r, r # b, Awaited(r) PROVE Awaited(r)'
  <2>1. CASE \E c \in out : c.kind = "post" /\ c.round = r
    BY <1>4, <2>1 DEF Awaited
  <2>2. ASSUME NEW i \in DOMAIN reports, reports[i].round = r PROVE Awaited(r)'
    <3>1. i # 1
      BY <1>1, <1>6, <2>2
    <3> QED
      BY <1>1, <2>2, <3>1 DEF Awaited
  <2> QED
    BY <1>6, <2>1, <2>2 DEF Awaited
<1> QED
  BY <1>3, <1>4, <1>5, <1>6

\* The message of the sticky s is known to be ts; c is the picture held back, if any
Learnt(ts, s, c) ==
    /\ s \in Sticky /\ Earned(s.rows) /\ s.posted = ts /\ s.posting = FALSE /\ s.round \in Rounds
    /\ board # None => s.round = board.round /\ s.rows = board.rows /\ s.dirty = board.dirty
    /\ board' = [s EXCEPT !.dirty = FALSE] /\ Counted(s)
    /\ \/ SendsNothing /\ ~(s.dirty /\ s.rows # {})
       \/ Sends(c) /\ c.kind = "update" /\ c.ts = ts /\ c.rows = s.rows /\ c.round = s.round

\* The board learns where its message is, and draws what was held back
LEMMA LearnsWhere ==
    ASSUME Pre, Report, NEW ts, ts = Head(reports).ts, ts # None
    PROVE  \E s, c : Learnt(ts, s, c)
<1>0. WiresTyped /\ Ids /\ reports # <<>> /\ reports' = Tail(reports)
  BY PreIs DEF Report
<1>1. ts \in DOMAIN slack
  BY <1>0, TailIs DEF Ids
<1>2. PICK s : s = Posted(ts)
  OBVIOUS
<1>3. /\ s.round <= MaxRounds /\ board' = [s EXCEPT !.dirty = FALSE] /\ Counted(s)
      /\ Send(IF s.dirty /\ Drawable(s) THEN {Draw(s, ts)} ELSE {})
  BY <1>2 DEF Report
<1>4. /\ s \in Sticky /\ Earned(s.rows) /\ s.posted = ts /\ s.posting = FALSE /\ s.round \in Rounds
      /\ board # None => s.round = board.round /\ s.rows = board.rows /\ s.dirty = board.dirty
  BY <1>1, <1>2, <1>3, PostedIs, ZenonT(40)
<1>5. CASE s.dirty /\ s.rows # {}
  <2>1. PICK c : c = Draw(s, ts)
    OBVIOUS
  <2>2. c \in NewCall /\ c.kind = "update" /\ c.ts = ts /\ c.round = s.round /\ c.rows = s.rows
    <3>1. ts \in Message
      BY <1>0, <1>1, BoundsAreNumbers DEF WiresTyped, Message
    <3> QED
      BY <1>4, <2>1, <3>1, DrawIs
  <2>3. Send({c})
    BY <1>3, <1>5, <2>1 DEF Drawable
  <2>4. Sends(c)
    BY <1>0, <1>1, <1>4, <2>2, <2>3, SendIs DEF Sends
  <2> QED
    BY <1>3, <1>4, <1>5, <2>2, <2>4 DEF Learnt
<1>6. CASE ~(s.dirty /\ s.rows # {})
  <2>1. SendsNothing
    BY <1>0, <1>3, <1>6, SendIs DEF Drawable
  <2> QED
    BY <1>3, <1>4, <1>6, <2>1 DEF Learnt
<1> QED
  BY <1>5, <1>6

LEMMA ReportAlways == ASSUME Pre, Report PROVE Always'
<1>0. /\ BoardTyped /\ WiresTyped /\ Ids /\ RowsEarned
      /\ UNCHANGED <<settled, held, closed, ending, slack, faults>>
      /\ reports # <<>> /\ reports' = Tail(reports)
      /\ crossed' \subseteq Crossings
  BY PreIs DEF Report, Crossings, WiresTyped
<1>1. /\ Head(reports) \in Told /\ 1 \in DOMAIN reports /\ Head(reports) = reports[1]
      /\ reports' \in Seq(Told)
      /\ \A i \in DOMAIN reports' : i + 1 \in DOMAIN reports /\ reports'[i] = reports[i + 1]
  BY <1>0, TailIs
<1>2. \A i \in DOMAIN reports' : reports'[i].ts # None =>
          reports'[i].ts \in DOMAIN slack /\ slack[reports'[i].ts].round = reports'[i].round
  BY <1>0, <1>1 DEF Ids
<1>3. CASE Head(reports).ts = None
  <2>1. UNCHANGED <<opened, out, calls>> /\ board' = IF board = None THEN None ELSE PostFailed(board)
    BY <1>3 DEF Report
  <2>2. CASE board = None
    <3>1. board' = None
      BY <2>1, <2>2
    <3>2. BoardTyped' /\ WiresTyped'
      BY <1>0, <1>1, <2>1, <3>1 DEF BoardTyped, WiresTyped, Call, Seen
    <3> QED
      BY <1>0, <1>2, <2>1, <3>1, <3>2 DEF Always, Ids, RowsEarned, Pictures
  <2>3. CASE board # None
    <3>1. board' = [board EXCEPT !.posting = FALSE, !.dirty = TRUE] /\ board \in Sticky
      BY <1>0, <2>1, <2>3 DEF PostFailed, BoardTyped
    <3>2. /\ board' \in Sticky /\ board'.posted = board.posted /\ board'.rows = board.rows
          /\ board'.posting = FALSE
      BY <3>1 DEF Sticky
    <3>3. BoardTyped' /\ WiresTyped'
      BY <1>0, <1>1, <2>1, <3>2 DEF BoardTyped, WiresTyped, Call, Seen
    <3>4. Ids'
      BY <1>0, <1>2, <2>1, <2>3, <3>2 DEF Ids
    <3>5. RowsEarned'
      BY <1>0, <2>1, <2>3, <3>2 DEF RowsEarned, Pictures
    <3> QED
      BY <3>3, <3>4, <3>5 DEF Always
  <2> QED
    BY <2>2, <2>3
<1>4. CASE Head(reports).ts # None
  <2>t. PICK ts : ts = Head(reports).ts
    OBVIOUS
  <2>1. PICK s, c :
             /\ s \in Sticky /\ Earned(s.rows) /\ s.posted = ts /\ s.posting = FALSE /\ s.round \in Rounds
             /\ board' = [s EXCEPT !.dirty = FALSE] /\ Counted(s)
             /\ SendsNothing \/ Sends(c)
    BY <1>4, <2>t, LearnsWhere DEF Learnt
  <2>2. /\ board' \in Sticky /\ board'.posted = ts /\ board'.rows = s.rows /\ board'.posting = FALSE
        /\ opened' \in 0 .. MaxRounds
    <3>1. board' \in Sticky /\ board'.posted = ts /\ board'.rows = s.rows /\ board'.posting = FALSE
      BY <2>1 DEF Sticky
    <3>2. opened' \in 0 .. MaxRounds
      BY <1>0, <2>1, BoundsAreNumbers DEF Counted, BoardTyped, Rounds
    <3> QED
      BY <3>1, <3>2
  <2>3. BoardTyped'
    BY <1>0, <2>2 DEF BoardTyped
  <2>4. /\ \A e, d \in out' : e.n = d.n => e = d
        /\ \A d \in out' : IF d.kind = "post" THEN d.n \notin DOMAIN slack' ELSE d.ts \in DOMAIN slack'
        /\ WiresTyped'
    <3>1. CASE SendsNothing
      BY <1>0, <1>1, <3>1 DEF SendsNothing, WiresTyped, Call, Seen, Ids
    <3>2. CASE Sends(c)
      <4>1. /\ calls \in Nat /\ MaxCalls \in Nat /\ calls' = calls + 1 /\ calls' \in 0 .. MaxCalls
            /\ c.n = calls + 1 /\ out' = out \cup {c}
        BY <1>0, <3>2, BoundsAreNumbers DEF Sends, NewCall, WiresTyped
      <4>2. \A d \in out : d.n \in 1 .. calls
        BY <1>0 DEF WiresTyped, Call
      <4>3. out' \subseteq Call'
        BY <1>0, <3>2, <4>1 DEF WiresTyped, Call, Sends, NewCall
      <4>4. DOMAIN slack \subseteq 1 .. calls /\ \A m \in DOMAIN slack : slack[m] \in Seen'
        BY <1>0, <4>1 DEF WiresTyped, Seen
      <4>5. WiresTyped'
        BY <1>0, <1>1, <4>1, <4>3, <4>4 DEF WiresTyped
      <4>6. \A e, d \in out' : e.n = d.n => e = d
        BY <1>0, <4>1, <4>2 DEF Ids
      <4>7. \A d \in out' : IF d.kind = "post" THEN d.n \notin DOMAIN slack' ELSE d.ts \in DOMAIN slack'
        BY <1>0, <3>2, <4>1, <4>4 DEF Ids, Sends
      <4> QED
        BY <4>5, <4>6, <4>7
    <3> QED
      BY <2>1, <3>1, <3>2
  <2>5. Ids'
    <3>1. ts \in DOMAIN slack
      BY <1>0, <1>1, <1>4, <2>t DEF Ids
    <3> QED
      BY <1>0, <1>2, <2>2, <2>4, <3>1 DEF Ids
  <2>6. RowsEarned'
    <3>1. \A p \in Pictures' : Earned(p.rows)
      BY <1>0, <2>1, SentEarned DEF RowsEarned
    <3> QED
      BY <1>0, <2>1, <2>2, <3>1 DEF RowsEarned
  <2> QED
    BY <2>3, <2>4, <2>5, <2>6 DEF Always
<1> QED
  BY <1>3, <1>4

LEMMA ReportKeeps == ASSUME Pre, Report PROVE BInv'
<1>1. Always'
  BY ReportAlways
<1>2. CASE ~(board # None /\ board.round = Head(reports).round)
  <2>1. crossed' # {}
    BY <1>2 DEF Report
  <2> QED
    BY <1>1, <2>1 DEF BInv
<1>3. CASE board # None /\ board.round = Head(reports).round
  <2>0. /\ BoardTyped /\ WiresTyped /\ Ids /\ RowsEarned /\ OnePost /\ BoardKnows /\ Rounded
        /\ UNCHANGED <<settled, held, closed, ending, slack, faults, crossed>> /\ crossed = {}
        /\ reports # <<>> /\ reports' = Tail(reports)
        /\ board \in Sticky
    BY <1>3, PreIs DEF Report, BoardTyped
  <2>b. PICK b \in Rounds, shown \in SUBSET Row : b = board.round /\ shown = board.rows
    BY <2>0 DEF Sticky
  <2>1. /\ board.posting /\ ~Awaited(b)' /\ board.rows # {} /\ board.posted = None
        /\ \A r : r # b /\ Awaited(r) => Awaited(r)'
        /\ out \subseteq out' /\ \A c \in out' : c.kind = "post" => c \in out
    BY <1>3, <2>0, <2>b, ReportTickets DEF BoardKnows, BoardTyped
  <2>2. /\ Head(reports) \in Told /\ 1 \in DOMAIN reports /\ Head(reports) = reports[1]
        /\ \A i \in DOMAIN reports' : i + 1 \in DOMAIN reports /\ reports'[i] = reports[i + 1] /\ i + 1 # 1
    BY <2>0, TailIs
  <2>3. OnePost'
    <3>1. \A c, d \in out' : c.kind = "post" /\ d.kind = "post" /\ c.round = d.round => c = d
      BY <2>0, <2>1 DEF OnePost
    <3>2. \A c \in out' : c.kind = "post" =>
            /\ \A i \in DOMAIN reports' : reports'[i].round # c.round
            /\ \A m \in DOMAIN slack' : slack'[m].round # c.round
      BY <2>0, <2>1, <2>2 DEF OnePost
    <3>3. \A i, j \in DOMAIN reports' : reports'[i].round = reports'[j].round => i = j
      <4>1. \A i \in DOMAIN reports' : i \in Nat
        BY <1>1 DEF Always, WiresTyped
      <4> QED
        BY <2>0, <2>2, <4>1 DEF OnePost
    <3>4. \A i \in DOMAIN reports' : reports'[i].ts = None =>
             \A m \in DOMAIN slack' : slack'[m].round # reports'[i].round
      BY <2>0, <2>2 DEF OnePost
    <3>5. \A m, k \in DOMAIN slack' : slack'[m].round = slack'[k].round => m = k
      BY <2>0 DEF OnePost
    <3> QED
      BY <3>1, <3>2, <3>3, <3>4, <3>5 DEF OnePost
  <2>4. opened \in Nat /\ b = opened
    BY <2>0, <2>b, <1>3, BoundsAreNumbers DEF BoardTyped, BoardKnows
  <2>5. \A i \in DOMAIN reports' : reports'[i].round <= opened
    BY <2>0, <2>2 DEF Rounded
  <2>6. CASE Head(reports).ts = None
    <3>1. board' = [board EXCEPT !.posting = FALSE, !.dirty = TRUE] /\ UNCHANGED <<opened, out, calls>>
      BY <1>3, <2>6 DEF Report, PostFailed
    <3>2. /\ board'.round = b /\ board'.rows = shown /\ board'.posted = None
          /\ board'.posting = FALSE /\ board'.dirty = TRUE
      BY <2>0, <2>1, <2>b, <3>1 DEF Sticky
    <3>3. \A m \in DOMAIN slack : slack[m].round # b
      BY <1>3, <2>0, <2>2, <2>6, <2>b DEF OnePost
    <3>4. BoardKnows'
      BY <2>0, <2>1, <2>4, <2>b, <3>1, <3>2, <3>3 DEF BoardKnows
    <3>5. Rounded'
      BY <1>3, <2>0, <2>5, <2>b, <3>1, <3>2 DEF Rounded
    <3>6. faults # 0
      BY <2>0, <2>2, <2>6, PreIs DEF EndsMeet
    <3> QED
      BY <1>1, <2>0, <2>3, <3>4, <3>5, <3>6 DEF BInv, Tickets
  <2>7. CASE Head(reports).ts # None
    <3>t. PICK ts : ts = Head(reports).ts
      OBVIOUS
    <3>1. PICK s, c :
             /\ s \in Sticky /\ s.posted = ts /\ s.posting = FALSE
             /\ s.round = board.round /\ s.rows = board.rows /\ s.dirty = board.dirty
             /\ board' = [s EXCEPT !.dirty = FALSE] /\ Counted(s)
             /\ \/ SendsNothing /\ ~(s.dirty /\ s.rows # {})
                \/ Sends(c) /\ c.kind = "update" /\ c.ts = ts /\ c.rows = s.rows /\ c.round = s.round
      <4>1. PICK s, c : Learnt(ts, s, c)
        BY <2>7, <3>t, LearnsWhere
      <4> QED
        BY <1>3, <4>1 DEF Learnt
    <3>2. /\ board' \in Sticky /\ board'.round = b /\ board'.rows = shown /\ board'.posted = ts
          /\ board'.posting = FALSE /\ board'.dirty = FALSE /\ opened' = opened
      <4>1. board' \in Sticky /\ board'.round = b /\ board'.rows = shown /\ board'.posted = ts
            /\ board'.posting = FALSE /\ board'.dirty = FALSE
        BY <2>b, <3>1 DEF Sticky
      <4>2. opened' = opened
        BY <2>4, <2>b, <3>1 DEF Counted
      <4> QED
        BY <4>1, <4>2
    <3>3. ts \in DOMAIN slack /\ slack[ts].round = b
      BY <1>3, <2>0, <2>2, <2>7, <2>b, <3>t DEF Ids
    <3>4. BoardKnows'
      <4>1. \A m \in DOMAIN slack : slack[m].round = b => ts = m
        BY <2>0, <3>3 DEF OnePost
      <4> QED
        BY <2>0, <2>1, <2>4, <3>2, <3>3, <4>1 DEF BoardKnows
    <3>5. Rounded'
      <4>1. \A d \in out' : d.round <= opened
        BY <2>0, <2>4, <2>b, <3>1 DEF Rounded, Sends, SendsNothing
      <4> QED
        BY <1>3, <2>0, <2>5, <2>b, <3>2, <4>1 DEF Rounded
    <3>6. ASSUME faults = 0 PROVE EndsMeet'
      <4>0. EndsMeet
        BY <3>6, PreIs
      <4>1. \A i \in DOMAIN reports' : reports'[i].ts # None
        BY <2>2, <4>0 DEF EndsMeet
      <4>2. ASSUME NEW m \in DOMAIN slack PROVE Leaving(m)' <=> Leaving(m)
        BY <2>0, <3>1 DEF Leaving, Sends, SendsNothing
      <4>3. ASSUME NEW r, NEW rows, r # b, Latest(r, rows) PROVE Latest(r, rows)'
        <5>1. CASE SendsNothing
          BY <2>0, <4>3, <5>1 DEF SendsNothing, Latest, Newest
        <5>2. CASE Sends(c) /\ c.ts = ts
          <6>1. slack[c.ts].round # r
            BY <3>3, <4>3, <5>2
          <6> QED
            BY <2>0, <4>3, <5>2, <6>1, SentLatest
        <5> QED
          BY <3>1, <5>1, <5>2
      <4>4. ASSUME NEW r \in Rounds, NEW rows, rows = ending[r].rows, ending[r].how = "answered",
                   rows # {}
            PROVE  Awaited(r)' \/ Latest(r, rows)'
        <5>1. r # b
          BY <1>3, <2>0, <2>b, <4>4 DEF Rounded
        <5>2. Awaited(r) \/ Latest(r, rows)
          BY <4>0, <4>4 DEF EndsMeet
        <5> QED
          BY <2>1, <4>3, <5>1, <5>2
      <4>5. ASSUME NEW r \in Rounds, ending[r].how = "silent"
            PROVE  Awaited(r)' \/ \A m \in DOMAIN slack : slack[m].round = r => Leaving(m)'
        <5>1. r # b
          BY <1>3, <2>0, <2>b, <4>5 DEF Rounded
        <5>2. Awaited(r) \/ \A m \in DOMAIN slack : slack[m].round = r => Leaving(m)
          BY <4>0, <4>5 DEF EndsMeet
        <5> QED
          BY <2>1, <4>2, <5>1, <5>2
      <4>6. Latest(b, shown)'
        <5>1. CASE SendsNothing /\ ~(s.dirty /\ s.rows # {})
          <6>1. Latest(b, shown)
            BY <1>3, <2>1, <2>b, <3>1, <4>0, <5>1 DEF EndsMeet
          <6>2. Latest(b, shown)' <=> Latest(b, shown)
            BY <2>0, <5>1 DEF SendsNothing, Latest, Newest
          <6> QED
            BY <6>1, <6>2
        <5>2. CASE Sends(c) /\ c.kind = "update" /\ c.ts = ts /\ c.rows = s.rows
          <6>1. Latest(b, c.rows)'
            BY <2>0, <3>3, <5>2, DrawnLatest
          <6> QED
            BY <2>b, <3>1, <5>2, <6>1
        <5> QED
          BY <3>1, <5>1, <5>2
      <4> QED
        BY <2>0, <3>2, <4>0, <4>1, <4>2, <4>4, <4>5, <4>6 DEF EndsMeet
    <3> QED
      BY <1>1, <2>0, <2>3, <3>4, <3>5, <3>6 DEF BInv, Tickets
  <2> QED
    BY <2>6, <2>7
<1> QED
  BY <1>2, <1>3

-----------------------------------------------------------------------------
(* The invariant holds, and says what the thread shows.                    *)

LEMMA Starts == Init => BInv
<1> SUFFICES ASSUME Init PROVE BInv
  OBVIOUS
<1> USE DEF Init
<1>1. BoardTyped
  <2>1. [how |-> "open", rows |-> {}] \in Ending
    BY DEF Ending
  <2>2. ending \in [Rounds -> Ending]
    BY <2>1
  <2>3. opened \in 0 .. MaxRounds
    BY BoundsAreNumbers
  <2> QED
    BY <2>2, <2>3 DEF BoardTyped
<1>w. WiresTyped
  <2>1. DOMAIN slack = {} /\ reports \in Seq(Told)
    OBVIOUS
  <2> QED
    BY <2>1, BoundsAreNumbers DEF WiresTyped
<1>2. Ids /\ RowsEarned /\ Tickets
  BY DEF Ids, RowsEarned, Pictures, Tickets, OnePost, BoardKnows, Rounded
<1>3. EndsMeet
  BY DEF EndsMeet
<1> QED
  BY <1>1, <1>w, <1>2, <1>3 DEF BInv, Always

LEMMA Steps == BInv /\ [Next]_vars => BInv'
<1> SUFFICES ASSUME BInv, [Next]_vars PROVE BInv'
  OBVIOUS
<1>1. CASE UNCHANGED vars
  <2>1. Always'
    BY <1>1 DEF vars, BInv, Always, BoardTyped, WiresTyped, Call, Seen, Ids, RowsEarned, Pictures
  <2>2. crossed = {} => Tickets'
    BY <1>1 DEF vars, BInv, Tickets, OnePost, BoardKnows, Rounded, Awaited
  <2>3. crossed = {} /\ faults = 0 => EndsMeet'
    BY <1>1 DEF vars, BInv, EndsMeet, Awaited, Latest, Newest, Leaving
  <2> QED
    BY <1>1, <2>1, <2>2, <2>3 DEF vars, BInv
<1>2. CASE Next
  <2>0. Pre /\ BoardTyped /\ RowsEarned /\ BoardKnows
    BY <1>2 DEF Next, BInv, Pre, Always, Tickets
  <2>1. CASE BoardMove
    BY <2>0, <2>1, BoardMoveKeeps DEF Pre
  <2>2. CASE OnTurnStart \/ OnTurnEnd
    BY <2>0, <2>1, <2>2, OnTurnStartMoves, OnTurnEndMoves
  <2>3. ASSUME NEW t \in Tool, NEW status \in {"pending", "over"}, UpsertTool(t, status)
        PROVE  BInv'
    BY <2>0, <2>1, <2>3, UpsertMoves DEF ToolStatus
  <2>4. CASE PushNarration
    BY <2>0, <2>1, <2>4, PushNarrationMoves
  <2>5. CASE SettleAnswered \/ SettleSilent
    BY <2>0, <2>5, AnsweredKeeps, SilentKeeps
  <2>6. CASE OnPermTimeout \/ OnInterrupted
    BY <2>0, <2>1, <2>6, NoteMoves
  <2>7. ASSUME NEW t \in Tool, OnPermDenied(t) PROVE BInv'
    BY <2>0, <2>1, <2>7, OnPermDeniedMoves
  <2>8. CASE FlushStickies \/ Report
    BY <2>0, <2>8, FlushKeeps, ReportKeeps
  <2>9. ASSUME NEW c \in out, Land(c) \/ Fail(c) PROVE BInv'
    <3>1. c.kind \in {"post", "update", "delete"}
      BY <2>0 DEF Pre, Always, WiresTyped, Call
    <3> QED
      BY <2>0, <2>9, <3>1, LandPostKeeps, LandUpdateKeeps, LandDeleteKeeps, FailKeeps
  <2> QED
    BY <1>2, <2>2, <2>3, <2>4, <2>5, <2>6, <2>7, <2>8, <2>9 DEF Next, Agent, Prompt, Wire
<1> QED
  BY <1>1, <1>2

LEMMA ShowsTrue == BInv => RoundsShownTrue
<1> SUFFICES ASSUME BInv PROVE RoundsShownTrue
  OBVIOUS
<1>0. BoardTyped /\ WiresTyped /\ Ids /\ RowsEarned
  BY DEF BInv, Always
<1>1. TypeOK
  <2>1. /\ board \in {None} \cup Sticky /\ settled \in {"no", "answered", "silent"}
        /\ held \in BOOLEAN /\ closed \in BOOLEAN /\ opened \in 0 .. MaxRounds
        /\ DOMAIN ending = Rounds /\ (board # None /\ board.posting => board.posted = None)
    BY <1>0 DEF BoardTyped
  <2>2. \A c \in out : c.n \in 1 .. MaxCalls /\ c.kind \in {"post", "update", "delete"}
    BY <1>0, BoundsAreNumbers DEF WiresTyped, Call
  <2>3. \A i \in DOMAIN reports : reports[i].ts \in Message \cup {None}
    <3>1. \A i \in DOMAIN reports : reports[i] \in Told
      BY <1>0 DEF WiresTyped
    <3> QED
      BY <3>1 DEF Told
  <2>4. /\ DOMAIN slack \subseteq Message /\ crossed \subseteq Crossings
        /\ calls \in 0 .. MaxCalls /\ faults \in 0 .. MaxFaults
    BY <1>0, BoundsAreNumbers DEF WiresTyped, Message
  <2> QED
    BY <2>1, <2>2, <2>3, <2>4 DEF TypeOK
<1>2. RemarksNeedWork /\ NothingTrickles
  BY <1>0 DEF RemarksNeedWork, NothingTrickles, RowsEarned, Earned
<1>3. OneMessage
  <2> SUFFICES ASSUME crossed = {}, NEW r \in Rounds PROVE Cardinality(Messages(r)) < 2
    BY DEF OneMessage
  <2>1. \A m, k \in Messages(r) : m = k
    BY DEF BInv, Tickets, OnePost, Messages
  <2>2. Messages(r) = {} \/ \E m : Messages(r) = {m}
    BY <2>1
  <2>3. Cardinality({}) = 0 /\ \A m : Cardinality({m}) = 1
    BY FS_EmptySet, FS_Singleton
  <2>4. CASE Messages(r) = {}
    BY <2>3, <2>4
  <2>5. ASSUME NEW m, Messages(r) = {m} PROVE Cardinality(Messages(r)) < 2
    <3>1. Cardinality({m}) = 1
      BY <2>3
    <3> QED
      BY <2>5, <3>1
  <2> QED
    BY <2>2, <2>4, <2>5
<1>4. RecordsStay
  <2> SUFFICES ASSUME Quiet, crossed = {}, faults = 0, NEW r \in Rounds,
                      ending[r].how = "answered", ending[r].rows # {}
               PROVE  \E m \in Messages(r) : ~slack[m].gone /\ slack[m].rows = ending[r].rows
    BY DEF RecordsStay
  <2>1. EndsMeet /\ out = {} /\ reports = <<>>
    BY DEF BInv, Quiet
  <2>2. ~Awaited(r)
    BY <2>1 DEF Awaited
  <2>3. Latest(r, ending[r].rows)
    BY <2>1, <2>2 DEF EndsMeet
  <2>4. PICK m \in DOMAIN slack : slack[m].round = r /\ slack[m].rows = ending[r].rows
    BY <2>1, <2>3 DEF Latest, Newest
  <2>5. ~slack[m].gone
    BY <2>1, <2>4 DEF EndsMeet, Leaving
  <2> QED
    BY <2>4, <2>5 DEF Messages
<1>5. SilenceLeavesNothing
  <2> SUFFICES ASSUME Quiet, crossed = {}, faults = 0, NEW r \in Rounds, ending[r].how = "silent",
                      NEW m \in Messages(r)
               PROVE  slack[m].gone
    BY DEF SilenceLeavesNothing
  <2>1. EndsMeet /\ out = {} /\ reports = <<>>
    BY DEF BInv, Quiet
  <2>2. ~Awaited(r)
    BY <2>1 DEF Awaited
  <2>3. Leaving(m)
    BY <2>1, <2>2 DEF EndsMeet, Messages
  <2> QED
    BY <2>1, <2>3 DEF Leaving
<1> QED
  BY <1>1, <1>2, <1>3, <1>4, <1>5 DEF RoundsShownTrue, OnePictureARound, EndsAsAnswered

\* For any tools and bounds: the thread sees one message per round, made of what
\* happened in the round, and once every call has landed an answered round shows
\* its last picture and a silent one has left nothing (sticky.rs, take_dirty,
\* take_final, settle, on_sticky_posted).
THEOREM RoundsAlwaysShownTrue == Spec => []RoundsShownTrue
<1>1. Spec => []BInv
  BY Starts, Steps, PTL DEF Spec
<1> QED
  BY <1>1, ShowsTrue, PTL
=============================================================================
