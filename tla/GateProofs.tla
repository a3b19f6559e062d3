----------------------------- MODULE GateProofs -----------------------------
(***************************************************************************)
(* Who is let in, and where it goes: GateHolds for any number of threads   *)
(* and events, any limit and any size of the memory, and FrontHolds (see   *)
(* there).                                                                 *)
(*                                                                         *)
(* GateHolds is not inductive.  That bots are stopped needs the count in   *)
(* threads.json to keep up with the bot messages really answered, and a    *)
(* thread at the limit to be paused.  That nothing is answered twice needs *)
(* every event still to come again to be in the memory, young enough to    *)
(* outlast what Slack sends before it, or to be a command of an older      *)
(* process.                                                                *)
(*                                                                         *)
(* Last, the file all of this is read from: SettingsHold for every set of  *)
(* keys and editors and every number of changes (see there).               *)
(***************************************************************************)
EXTENDS Gate, Front, Settings, TLAPS

Events == [event : Message, taken : BOOLEAN, left : 0 .. DedupCap - 1]

\* The count in threads.json keeps up, and no entry counts nothing
CountKeepsUp ==
    \A t \in Thread :
        /\ ~row[t].known => row[t] = NoEntry
        /\ t \notin Dm /\ row[t].streak >= LoopLimit => row[t].paused
        /\ t \notin Dm /\ t \notin eased =>
              bots[t] <= row[t].streak + 1 /\ (~row[t].known => bots[t] = 0)

\* It is remembered until Slack hands it over for the last time
InMemory(k, left) == \E i \in 1 .. Len(dedup) : dedup[i] = k /\ (Len(dedup) - i) + left <= DedupCap - 1

OutOfDate(e) == e.kind = "command" /\ e.key <= born

AgainIsKnown ==
    \A x \in again : x.event.key <= posts /\ (x.taken => OutOfDate(x.event) \/ InMemory(x.event.key, x.left))

Inv == GateTypeOK /\ CountKeepsUp /\ OnlyInvited /\ AgainIsKnown /\ AnsweredOnce

\* What on_inbound touches, but for the memory and the events to come
Rows ==
    /\ row \in [Thread -> Entry] /\ bots \in [Thread -> Nat]
    /\ eased \subseteq Thread /\ invited \subseteq Thread
    /\ CountKeepsUp /\ OnlyInvited
-----------------------------------------------------------------------------
(* on_inbound                                                              *)

\* What one thread's row, count and marks must be
Fits(t, r, n, easy, asked) ==
    /\ r \in Entry /\ n \in Nat
    /\ ~r.known => r = NoEntry
    /\ t \notin Dm /\ r.streak >= LoopLimit => r.paused
    /\ t \notin Dm /\ ~easy => n <= r.streak + 1 /\ (~r.known => n = 0)
    /\ r.known => asked

LEMMA RowsFit ==
    Rows <=> /\ row \in [Thread -> Entry] /\ bots \in [Thread -> Nat]
             /\ eased \subseteq Thread /\ invited \subseteq Thread
             /\ \A t \in Thread : Fits(t, row[t], bots[t], t \in eased, t \in invited)
<1>1. ASSUME NEW t \in Thread, row \in [Thread -> Entry], bots \in [Thread -> Nat]
      PROVE  row[t] \in Entry /\ bots[t] \in Nat
  BY <1>1
<1> QED
  BY <1>1, Zenon DEF Rows, CountKeepsUp, OnlyInvited, Fits

\* One thread's row, count and marks are replaced by some that fit
LEMMA OneRow ==
    ASSUME NEW t \in Thread, NEW r, NEW n, NEW easy \in SUBSET Thread, NEW asked \in SUBSET Thread,
           Rows, Fits(t, r, n, t \in easy, t \in asked),
           row' = [row EXCEPT ![t] = r], bots' = [bots EXCEPT ![t] = n],
           eased' = easy, invited' = asked,
           \A u \in Thread \ {t} : (u \in easy <=> u \in eased) /\ (u \in asked <=> u \in invited)
    PROVE  Rows'
<1>1. r \in Entry /\ n \in Nat
  BY DEF Fits
<1>2. row' \in [Thread -> Entry] /\ bots' \in [Thread -> Nat]
  BY <1>1 DEF Rows
<1>3. row'[t] = r /\ bots'[t] = n
  BY DEF Rows
<1>4. ASSUME NEW u \in Thread PROVE Fits(u, row'[u], bots'[u], u \in eased', u \in invited')
  <2>1. CASE u = t
    BY <1>3, <2>1
  <2>2. CASE u # t
    <3>1. row'[u] = row[u] /\ bots'[u] = bots[u] /\ (u \in eased' <=> u \in eased) /\ (u \in invited' <=> u \in invited)
      BY <2>2 DEF Rows
    <3>2. Fits(u, row[u], bots[u], u \in eased, u \in invited)
      BY RowsFit
    <3> QED
      BY <3>1, <3>2 DEF Fits
  <2> QED
    BY <2>1, <2>2
<1>5. CountKeepsUp'
  BY <1>4 DEF CountKeepsUp, Fits
<1>6. OnlyInvited'
  BY <1>4 DEF OnlyInvited, Fits
<1> QED
  BY <1>2, <1>5, <1>6 DEF Rows

\* A bot's message counted, a person's ending the count
LEMMA CountsFit ==
    ASSUME GateGiven, NEW q \in Entry
    PROVE  /\ Rested(q) \in Entry /\ Rested(q).known = q.known
           /\ q.known => Rested(q).streak = 0
           /\ ~q.known => Rested(q) = q /\ Bumped(q) = q
           /\ q.streak < LoopLimit =>
                 /\ Bumped(q) \in Entry /\ Bumped(q).known = q.known
                 /\ q.known => Bumped(q).streak = q.streak + 1
                 /\ q.known /\ q.streak + 1 >= LoopLimit => Bumped(q).paused
<1>1. q.known \in BOOLEAN /\ q.paused \in BOOLEAN /\ q.streak \in 0 .. LoopLimit /\ LoopLimit \in Nat \ {0}
  BY DEF Entry, GateGiven
<1>2. CASE ~q.known
  BY <1>1, <1>2 DEF Bumped, Rested
<1>3. CASE q.known
  <2>1. Rested(q) = [q EXCEPT !.streak = 0, !.paused = FALSE]
    BY <1>3 DEF Rested
  <2>1a. Rested(q) = [known |-> q.known, paused |-> FALSE, streak |-> 0]
    BY <2>1 DEF Entry
  <2>1b. Rested(q) \in Entry
    BY <1>1, <2>1a DEF Entry
  <2>2. Rested(q) \in Entry /\ Rested(q).known = q.known /\ Rested(q).streak = 0
    BY <2>1a, <2>1b
  <2>3. CASE q.streak + 1 >= LoopLimit
    <3>1. Bumped(q) = [q EXCEPT !.streak = q.streak + 1, !.paused = TRUE]
      BY <1>3, <2>3 DEF Bumped
    <3>2. Bumped(q) = [known |-> q.known, paused |-> TRUE, streak |-> q.streak + 1]
      BY <3>1 DEF Entry
    <3>3. Bumped(q).known = q.known /\ Bumped(q).streak = q.streak + 1 /\ Bumped(q).paused
      BY <3>2
    <3>4. q.streak < LoopLimit => Bumped(q) \in Entry
      BY <1>1, <3>2 DEF Entry
    <3> QED
      BY <1>3, <2>2, <3>3, <3>4
  <2>4. CASE ~(q.streak + 1 >= LoopLimit)
    <3>1. Bumped(q) = [q EXCEPT !.streak = q.streak + 1]
      BY <1>3, <2>4 DEF Bumped
    <3>2. Bumped(q) = [known |-> q.known, paused |-> q.paused, streak |-> q.streak + 1]
      BY <3>1 DEF Entry
    <3>3. Bumped(q).known = q.known /\ Bumped(q).streak = q.streak + 1
      BY <3>2
    <3>4. q.streak < LoopLimit => Bumped(q) \in Entry
      BY <1>1, <3>2 DEF Entry
    <3> QED
      BY <1>3, <2>2, <2>4, <3>3, <3>4
  <2> QED
    BY <2>3, <2>4
<1> QED
  BY <1>1, <1>2, <1>3

LEMMA MessageFields ==
    ASSUME NEW e \in Message
    PROVE  /\ e.key \in 1 .. MaxPosts /\ e.thread \in Thread /\ e.by \in Author
           /\ e.bot \in BOOLEAN /\ e.kind \in EventKind /\ e.mention \in BOOLEAN
  BY DEF Message

\* An answered event leaves the thread a row that fits, with an entry or without
LEMMA AnswerFits ==
    ASSUME GateGiven, Rows, NEW e \in Message, Answers(e), NEW r,
           \/ r = Counted(e)
           \/ r = [Counted(e) EXCEPT !.known = TRUE],
           Marked(e, r)
    PROVE  Rows'
<1> DEFINE t == e.thread
           q == row[t]
           n == IF Human(e) THEN 0 ELSE IF e.bot THEN bots[t] + 1 ELSE bots[t]
           easy == IF Uncounted(e, r) THEN eased \cup {t} ELSE IF Human(e) THEN eased \ {t} ELSE eased
           asked == IF (e.mention \/ t \in Dm) /\ (Owners(e) \/ e.bot) THEN invited \cup {t} ELSE invited
<1>1. /\ t \in Thread /\ e.bot \in BOOLEAN /\ e.by \in Author /\ LoopLimit \in Nat \ {0}
  BY MessageFields DEF GateGiven
<1>2. Fits(t, q, bots[t], t \in eased, t \in invited)
  BY <1>1, RowsFit
<1>3. q \in [known : BOOLEAN, paused : BOOLEAN, streak : 0 .. LoopLimit] /\ bots[t] \in Nat
  BY <1>2 DEF Fits, Entry
<1>4. q.known \in BOOLEAN /\ q.paused \in BOOLEAN /\ q.streak \in 0 .. LoopLimit
  BY <1>3
<1>5. t \notin Dm /\ e.bot => ~q.paused
  BY DEF Answers, Looping
<1>6. t \notin Dm /\ e.bot => q.streak < LoopLimit
  BY <1>1, <1>2, <1>4, <1>5 DEF Fits
<1>7. t \in Dm => ~e.bot
  BY DEF Answers, Passes
<1>8. t \in asked \/ (t \notin Dm /\ q.known /\ t \in invited)
  BY <1>2, <1>4 DEF Answers, Passes, Reachable, IsActive, Fits
<1>9. \/ t \in Dm /\ Counted(e) = q
      \/ t \notin Dm /\ e.bot /\ Counted(e) = Bumped(q)
      \/ t \notin Dm /\ ~e.bot /\ Counted(e) = Rested(q)
  BY DEF Counted
<1>9a. q \in Entry
  BY <1>2 DEF Fits
<1>10. Counted(e) \in Entry
  BY <1>6, <1>9, <1>9a, CountsFit
<1>11. Counted(e).known = q.known /\ (~q.known => Counted(e) = q)
  BY <1>6, <1>9, <1>9a, CountsFit
<1>12. r \in Entry
  BY <1>10 DEF Entry
<1>13. r.streak = Counted(e).streak /\ r.paused = Counted(e).paused /\ (~r.known => r = q /\ r = Counted(e))
  BY <1>10, <1>11 DEF Entry
<1>14. n \in Nat
  BY <1>3
<1>15. ~r.known => r = NoEntry
  BY <1>2, <1>11, <1>13 DEF Fits
<1>16. ASSUME t \notin Dm PROVE r.streak >= LoopLimit => r.paused
  <2>1. CASE ~q.known
    BY <1>2, <1>11, <1>13, <1>16, <2>1 DEF Fits
  <2>2. CASE q.known /\ e.bot
    BY <1>6, <1>9, <1>9a, <1>13, <1>16, <2>2, CountsFit
  <2>3. CASE q.known /\ ~e.bot
    <3>1. r.streak = 0
      BY <1>9, <1>9a, <1>13, <1>16, <2>3, CountsFit
    <3> QED
      BY <1>1, <3>1
  <2> QED
    BY <1>1, <1>4, <2>1, <2>2, <2>3
<1>17. ASSUME t \notin Dm, t \notin easy PROVE n <= r.streak + 1 /\ (~r.known => n = 0)
  <2>1. ~Uncounted(e, r)
    BY <1>17
  <2>2. CASE Human(e)
    BY <1>12, <2>2 DEF Entry
  <2>3. CASE ~Human(e)
    <3>1. e.bot /\ r.known
      BY <1>1, <2>1, <2>3 DEF Uncounted
    <3>2. n = bots[t] + 1 /\ t \notin eased
      BY <1>17, <2>1, <2>3, <3>1
    <3>3. CASE q.known
      <4>1. r.streak = q.streak + 1
        BY <1>6, <1>9, <1>9a, <1>13, <1>17, <3>1, <3>3, CountsFit
      <4> QED
        BY <1>2, <1>4, <1>17, <3>1, <3>2, <4>1 DEF Fits
    <3>4. CASE ~q.known
      <4>1. bots[t] = 0
        BY <1>2, <1>17, <3>2, <3>4 DEF Fits
      <4> QED
        BY <1>12, <3>1, <3>2, <4>1 DEF Entry
    <3> QED
      BY <1>4, <3>3, <3>4
  <2> QED
    BY <2>2, <2>3
<1>18. r.known => t \in asked
  BY <1>8
<1>19. Fits(t, r, n, t \in easy, t \in asked)
  BY <1>12, <1>14, <1>15, <1>16, <1>17, <1>18 DEF Fits
<1>20. /\ easy \in SUBSET Thread /\ asked \in SUBSET Thread
       /\ \A u \in Thread \ {t} : (u \in easy <=> u \in eased) /\ (u \in asked <=> u \in invited)
  BY <1>1 DEF Rows
<1>21. /\ row' = [row EXCEPT ![t] = r] /\ bots' = [bots EXCEPT ![t] = n]
       /\ eased' = easy /\ invited' = asked
  BY DEF Marked
<1> HIDE DEF t, q, n, easy, asked
<1> QED
  BY <1>1, <1>19, <1>20, <1>21, OneRow

LEMMA EntryFits == ASSUME GateGiven PROVE NoEntry \in Entry
<1>1. LoopLimit \in Nat
  BY DEF GateGiven
<1> QED
  BY <1>1 DEF NoEntry, Entry

\* The rows, whatever comes in
LEMMA InboundRows ==
    ASSUME GateGiven, Rows, waiting \subseteq Message, NEW e \in Message, OnInbound(e)
    PROVE  Rows' /\ waiting' \subseteq Message
<1>1. CASE Drop(e)
  BY <1>1 DEF Drop, Rows, CountKeepsUp, OnlyInvited
<1>2. CASE DeleteRoot(e)
  <2> DEFINE t == e.thread
             easy == eased \ {t}
             asked == invited \ {t}
  <2>1. t \in Thread
    BY MessageFields
  <2>2. Fits(t, NoEntry, 0, t \in easy, t \in asked)
    <3>1. NoEntry.known = FALSE /\ NoEntry.streak = 0
      BY DEF NoEntry
    <3>2. LoopLimit \in Nat \ {0}
      BY DEF GateGiven
    <3> QED
      BY <3>1, <3>2, EntryFits DEF Fits
  <2>3. /\ easy \in SUBSET Thread /\ asked \in SUBSET Thread
        /\ \A u \in Thread \ {t} : (u \in easy <=> u \in eased) /\ (u \in asked <=> u \in invited)
    BY DEF Rows
  <2>4. /\ row' = [row EXCEPT ![t] = NoEntry] /\ bots' = [bots EXCEPT ![t] = 0]
        /\ eased' = easy /\ invited' = asked /\ waiting' \subseteq Message
    BY <1>2 DEF DeleteRoot
  <2> HIDE DEF t, easy, asked
  <2> QED
    BY <2>1, <2>2, <2>3, <2>4, OneRow
<1>3. CASE HandleCommand(e)
  <2> DEFINE r == [Counted(e) EXCEPT !.known = TRUE]
  <2>1. Answers(e) /\ Marked(e, r) /\ waiting' = waiting
    BY <1>3 DEF HandleCommand
  <2>2. \/ r = Counted(e)
        \/ r = [Counted(e) EXCEPT !.known = TRUE]
    OBVIOUS
  <2> HIDE DEF r
  <2> QED
    BY <2>1, <2>2, AnswerFits
<1>4. CASE Refuse(e)
  <2> DEFINE r == Counted(e)
  <2>1. Answers(e) /\ Marked(e, r) /\ waiting' = waiting
    BY <1>4 DEF Refuse
  <2>2. \/ r = Counted(e)
        \/ r = [Counted(e) EXCEPT !.known = TRUE]
    OBVIOUS
  <2> HIDE DEF r
  <2> QED
    BY <2>1, <2>2, AnswerFits
<1>5. CASE Accept(e)
  <2> DEFINE r == [Counted(e) EXCEPT !.known = TRUE]
  <2>1. Answers(e) /\ Marked(e, r) /\ waiting' \subseteq Message
    BY <1>5 DEF Accept
  <2>2. \/ r = Counted(e)
        \/ r = [Counted(e) EXCEPT !.known = TRUE]
    OBVIOUS
  <2> HIDE DEF r
  <2> QED
    BY <2>1, <2>2, AnswerFits
<1> QED
  BY <1>1, <1>2, <1>3, <1>4, <1>5 DEF OnInbound

-----------------------------------------------------------------------------
(* The memory                                                              *)

LEMMA AppendIs ==
    ASSUME NEW S, NEW s \in Seq(S), NEW x \in S
    PROVE  /\ Append(s, x) \in Seq(S) /\ Len(Append(s, x)) = Len(s) + 1
           /\ \A i \in 1 .. Len(s) : Append(s, x)[i] = s[i]
           /\ Append(s, x)[Len(s) + 1] = x
  OBVIOUS

MemoryOK == dedup \in Seq(1 .. MaxPosts) /\ Len(dedup) <= DedupCap

LEMMA InboundMemory ==
    ASSUME NEW e \in Message, OnInbound(e)
    PROVE  dedup' = IF Seen(e.key) THEN dedup ELSE Remember(e.key)
<1>1. Answers(e) => ~Seen(e.key)
  BY DEF Answers
<1>2. Deletes(e) => ~Seen(e.key)
  BY DEF Deletes
<1> QED
  BY <1>1, <1>2 DEF OnInbound, Drop, DeleteRoot, HandleCommand, Refuse, Accept

\* The memory keeps its size, has the event, and lets the others age by one at most
LEMMA MemoryAges ==
    ASSUME GateGiven, MemoryOK, NEW e \in Message,
           dedup' = IF Seen(e.key) THEN dedup ELSE Remember(e.key)
    PROVE  /\ MemoryOK'
           /\ ~Seen(e.key) => \A left \in 0 .. DedupCap - 1 : InMemory(e.key, left)'
           /\ \A k, left : left \in 0 .. DedupCap - 1 /\ InMemory(k, left) =>
                  /\ Seen(e.key) => InMemory(k, left)'
                  /\ left > 0 => InMemory(k, left - 1)'
<1>1. e.key \in 1 .. MaxPosts /\ DedupCap \in Nat \ {0}
  BY MessageFields DEF GateGiven
<1>2. CASE Seen(e.key)
  <2>1. dedup' = dedup
    BY <1>2
  <2> QED
    BY <1>1, <1>2, <2>1 DEF MemoryOK, InMemory
<1>3. CASE ~Seen(e.key)
  <2> DEFINE rest == IF Len(dedup) >= DedupCap THEN Tail(dedup) ELSE dedup
             gone == IF Len(dedup) >= DedupCap THEN 1 ELSE 0
  <2>1. dedup' = Append(rest, e.key)
    BY <1>3 DEF Remember
  <2>2. /\ rest \in Seq(1 .. MaxPosts) /\ Len(rest) = Len(dedup) - gone /\ gone \in {0, 1}
        /\ Len(rest) <= DedupCap - 1 /\ Len(dedup) <= DedupCap
        /\ gone = 1 => Len(dedup) = DedupCap
        /\ \A i \in 1 .. Len(rest) : rest[i] = dedup[i + gone]
    <3>1. Len(dedup) \in Nat
      BY DEF MemoryOK
    <3>2. CASE Len(dedup) >= DedupCap
      <4>1. dedup # <<>>
        BY <1>1, <3>2
      <4>2. rest = Tail(dedup) /\ gone = 1
        BY <3>2
      <4> QED
        BY <1>1, <3>1, <3>2, <4>1, <4>2 DEF MemoryOK
    <3>3. CASE ~(Len(dedup) >= DedupCap)
      BY <1>1, <3>1, <3>3 DEF MemoryOK
    <3> QED
      BY <3>2, <3>3
  <2> HIDE DEF rest, gone
  <2>3. /\ dedup' \in Seq(1 .. MaxPosts) /\ Len(dedup') = Len(rest) + 1
        /\ \A i \in 1 .. Len(rest) : dedup'[i] = rest[i]
        /\ dedup'[Len(rest) + 1] = e.key
    <3>1. rest \in Seq(1 .. MaxPosts) /\ e.key \in 1 .. MaxPosts
      BY <1>1, <2>2
    <3>2. /\ Append(rest, e.key) \in Seq(1 .. MaxPosts) /\ Len(Append(rest, e.key)) = Len(rest) + 1
          /\ \A i \in 1 .. Len(rest) : Append(rest, e.key)[i] = rest[i]
          /\ Append(rest, e.key)[Len(rest) + 1] = e.key
      BY <3>1, AppendIs, Zenon
    <3> DEFINE d == Append(rest, e.key)
    <3>3. dedup' = d
      BY <2>1
    <3>4. /\ d \in Seq(1 .. MaxPosts) /\ Len(d) = Len(rest) + 1
          /\ \A i \in 1 .. Len(rest) : d[i] = rest[i]
          /\ d[Len(rest) + 1] = e.key
      BY <3>2
    <3> HIDE DEF d
    <3> QED
      BY <3>3, <3>4
  <2>4. MemoryOK'
    BY <1>1, <2>2, <2>3 DEF MemoryOK
  <2>5. ASSUME NEW left \in 0 .. DedupCap - 1 PROVE InMemory(e.key, left)'
    <3>1. Len(dedup') \in 1 .. Len(dedup') /\ dedup'[Len(dedup')] = e.key
      BY <2>2, <2>3
    <3> QED
      BY <1>1, <2>3, <3>1 DEF InMemory
  <2>6. ASSUME NEW k, NEW left, left \in 0 .. DedupCap - 1, InMemory(k, left), left > 0
        PROVE  InMemory(k, left - 1)'
    <3>1. PICK i \in 1 .. Len(dedup) : dedup[i] = k /\ (Len(dedup) - i) + left <= DedupCap - 1
      BY <2>6 DEF InMemory
    <3>2. i - gone \in 1 .. Len(rest)
      BY <1>1, <2>2, <2>6, <3>1
    <3>3. dedup'[i - gone] = k
      BY <2>2, <2>3, <3>1, <3>2
    <3>4. i - gone \in 1 .. Len(dedup') /\ (Len(dedup') - (i - gone)) + (left - 1) <= DedupCap - 1
      BY <1>1, <2>2, <2>3, <2>6, <3>1, <3>2, SMTT(20)
    <3> QED
      BY <3>3, <3>4 DEF InMemory
  <2> QED
    BY <1>3, <2>4, <2>5, <2>6
<1> QED
  BY <1>2, <1>3

-----------------------------------------------------------------------------
(* What Slack sends                                                        *)

LEMMA InboundIsMessage ==
    ASSUME NEW t \in Thread, NEW k \in 1 .. MaxPosts
    PROVE  InboundOf(t, k) \subseteq Message
<1>1. Sent(t, k) \subseteq Message
  BY DEF Sent, Message
<1> QED
  BY <1>1 DEF InboundOf, MessageOf, ChangeOf, ReactionOf

LEMMA InboundKey ==
    ASSUME NEW t, NEW k, NEW e \in InboundOf(t, k)
    PROVE  e.key = k
<1>1. e \in Sent(t, k)
  BY DEF InboundOf, MessageOf, ChangeOf, ReactionOf
<1> QED
  BY <1>1 DEF Sent

LEMMA ParkedIsMessage == ASSUME NEW m \in Message PROVE DrainPending(m) \in Message
<1>1. /\ "post" \in EventKind /\ FALSE \in BOOLEAN
      /\ m \in [key : 1 .. MaxPosts, thread : Thread, by : Author, bot : BOOLEAN, kind : EventKind, mention : BOOLEAN]
  BY DEF EventKind, Message
<1> HIDE DEF EventKind, Author
<1> QED
  BY <1>1 DEF DrainPending, Message

\* An event to come again: what it is, and that it will be known if it was taken
Known(x) ==
    /\ x \in Events /\ x.event.key <= posts
    /\ x.taken => OutOfDate(x.event) \/ InMemory(x.event.key, x.left)

LEMMA KnownAgain ==
    ASSUME again \subseteq Events
    PROVE  AgainIsKnown <=> \A x \in again : Known(x)
  BY Zenon DEF AgainIsKnown, Known

\* Events to come stay known while one is taken up
LEMMA AgedKnown ==
    ASSUME GateGiven, MemoryOK, NEW e \in Message, OnInbound(e),
           NEW others, \A x \in others : Known(x),
           born' = born, posts \in Nat, posts' \in Nat, posts <= posts'
    PROVE  MemoryOK' /\ \A x \in Aged(e, others) : Known(x)'
<1>1. dedup' = IF Seen(e.key) THEN dedup ELSE Remember(e.key)
  BY InboundMemory
<1>2. /\ MemoryOK'
      /\ \A k, left : left \in 0 .. DedupCap - 1 /\ InMemory(k, left) =>
             /\ Seen(e.key) => InMemory(k, left)'
             /\ left > 0 => InMemory(k, left - 1)'
  BY <1>1, MemoryAges
<1>3. DedupCap \in Nat \ {0}
  BY DEF GateGiven
<1>4. CASE Seen(e.key)
  <2> SUFFICES ASSUME NEW x \in others PROVE Known(x)'
    BY <1>2, <1>4 DEF Aged
  <2>1. Known(x)
    OBVIOUS
  <2>2. x.left \in 0 .. DedupCap - 1 /\ x.event \in Message
    BY <2>1 DEF Known, Events
  <2>3. x.event.key \in Nat
    BY <2>2, MessageFields
  <2>4. x.taken /\ InMemory(x.event.key, x.left) => InMemory(x.event.key, x.left)'
    BY <1>2, <1>4, <2>2
  <2> QED
    BY <2>1, <2>3, <2>4 DEF Known, OutOfDate
<1>5. CASE ~Seen(e.key)
  <2> SUFFICES ASSUME NEW y \in others, y.left > 0, NEW x, x = [y EXCEPT !.left = @ - 1]
               PROVE  Known(x)'
    BY <1>2, <1>5 DEF Aged
  <2>1. Known(y)
    OBVIOUS
  <2>2. y \in [event : Message, taken : BOOLEAN, left : 0 .. DedupCap - 1]
    BY <2>1 DEF Known, Events
  <2>3. y.left \in 0 .. DedupCap - 1 /\ y.event \in Message
    BY <2>2
  <2>4. x = [event |-> y.event, taken |-> y.taken, left |-> y.left - 1]
    BY <2>2
  <2>5. x \in Events
    BY <1>3, <2>2, <2>3, <2>4 DEF Events
  <2>6. x.event = y.event /\ x.taken = y.taken /\ x.left = y.left - 1
    BY <2>4
  <2>7. y.event.key \in Nat
    BY <2>3, MessageFields
  <2>8. InMemory(y.event.key, y.left) => InMemory(y.event.key, y.left - 1)'
    BY <1>2, <2>3
  <2>9. x.event.key <= posts'
    BY <2>1, <2>6, <2>7 DEF Known
  <2>10. x.taken => OutOfDate(x.event)' \/ InMemory(x.event.key, x.left)'
    BY <2>1, <2>6, <2>8 DEF Known, OutOfDate
  <2> QED
    BY <2>5, <2>9, <2>10 DEF Known
<1> QED
  BY <1>2, <1>4, <1>5

-----------------------------------------------------------------------------
(* The steps                                                               *)

\* Inv, as the lemmas take it apart
Others ==
    /\ parked \subseteq Message /\ born \in 0 .. MaxPosts /\ posts \in 0 .. MaxPosts
    /\ downs \in 0 .. MaxDowns /\ twice = FALSE

LEMMA Parts ==
    Inv <=> Rows /\ waiting \subseteq Message /\ MemoryOK /\ Others /\ \A x \in again : Known(x)
<1>1. again \subseteq Events <=> \A x \in again : x \in Events
  OBVIOUS
<1>2. GateTypeOK => again \subseteq Events
  BY DEF GateTypeOK, Events
<1>3. (\A x \in again : Known(x)) <=> again \subseteq Events /\ AgainIsKnown
  BY <1>1, Zenon DEF Known, AgainIsKnown
<1>4. Inv => Rows /\ waiting \subseteq Message /\ MemoryOK /\ Others /\ again \subseteq Events /\ AgainIsKnown
  BY <1>2 DEF Inv, GateTypeOK, Rows, MemoryOK, Others, AnsweredOnce
<1>5. Rows /\ waiting \subseteq Message /\ MemoryOK /\ Others /\ again \subseteq Events /\ AgainIsKnown => Inv
  BY DEF Inv, GateTypeOK, Rows, MemoryOK, Others, AnsweredOnce, Events
<1> QED
  BY <1>3, <1>4, <1>5

LEMMA PartsNext ==
    ASSUME Rows', waiting' \subseteq Message, MemoryOK', Others', \A x \in again' : Known(x)'
    PROVE  Inv'
<1>1. again' \subseteq Events
  BY DEF Known
<1>2. AgainIsKnown'
  BY Zenon DEF Known, AgainIsKnown
<1>3. GateTypeOK'
  BY <1>1 DEF GateTypeOK, Rows, MemoryOK, Others, Events
<1> QED
  BY <1>2, <1>3 DEF Inv, Rows, Others, AnsweredOnce

\* What is known stays known while nothing happens but events
LEMMA StaysKnown ==
    ASSUME NEW x, Known(x), UNCHANGED <<dedup, born>>, posts \in Nat, posts' \in Nat, posts <= posts'
    PROVE  Known(x)'
<1>1. x.event \in Message
  BY DEF Known, Events
<1>2. x.event.key \in Nat
  BY <1>1, MessageFields
<1> QED
  BY <1>2 DEF Known, OutOfDate, InMemory

\* What is taken for the last time is known
LEMMA TakenIsKnown ==
    ASSUME GateGiven, Inv, NEW x \in again, Answers(x.event)
    PROVE  ~x.taken
<1>1. Known(x)
  BY Parts
<1>2. ~Seen(x.event.key) /\ ~Stale(x.event)
  BY DEF Answers
<1>3. ~OutOfDate(x.event)
  BY <1>2 DEF Stale, OutOfDate
<1>4. ~InMemory(x.event.key, x.left)
  <2>1. \A i \in 1 .. Len(dedup) : i \in DOMAIN dedup
    BY Parts DEF MemoryOK
  <2> QED
    BY <1>2, <2>1 DEF Seen, InMemory
<1> QED
  BY <1>1, <1>3, <1>4 DEF Known

LEMMA StartsTrue == ASSUME GateGiven, GateInit PROVE Inv
<1>1. MaxPosts \in Nat /\ MaxDowns \in Nat /\ LoopLimit \in Nat \ {0} /\ DedupCap \in Nat \ {0}
  BY DEF GateGiven
<1>2. Rows
  <2>1. NoEntry.known = FALSE /\ NoEntry.streak = 0
    BY DEF NoEntry
  <2>2. row \in [Thread -> Entry] /\ bots \in [Thread -> Nat] /\ eased \subseteq Thread /\ invited \subseteq Thread
    BY EntryFits DEF GateInit
  <2>3. ASSUME NEW t \in Thread PROVE row[t] = NoEntry /\ bots[t] = 0
    BY DEF GateInit
  <2>4. CountKeepsUp
    BY <1>1, <2>1, <2>3 DEF CountKeepsUp
  <2>5. OnlyInvited
    BY <2>1, <2>3 DEF OnlyInvited
  <2> QED
    BY <2>2, <2>4, <2>5 DEF Rows
<1>3. waiting \subseteq Message /\ MemoryOK /\ Others /\ again = {}
  BY <1>1 DEF GateInit, MemoryOK, Others
<1> QED
  BY <1>2, <1>3, Parts

LEMMA PostKeeps == ASSUME GateGiven, Inv, NEW t \in Thread, Post(t) PROVE Inv'
<1>1. /\ Rows /\ waiting \subseteq Message /\ MemoryOK /\ Others /\ \A x \in again : Known(x)
  BY Parts
<1>2. posts' = posts + 1 /\ posts' \in 1 .. MaxPosts /\ posts \in Nat /\ UNCHANGED <<parked, born, downs, twice>>
  BY <1>1 DEF Post, Others, GateGiven
<1>3. PICK e \in InboundOf(t, posts + 1) :
          /\ OnInbound(e)
          /\ \/ again' = Aged(e, again)
             \/ Cardinality(again) < MaxLate /\ again' = Aged(e, again) \cup {Redelivery(e, Answers(e))}
  BY DEF Post
<1>4. e \in Message /\ e.key = posts + 1
  BY <1>2, InboundIsMessage, InboundKey
<1>5. Rows' /\ waiting' \subseteq Message
  BY <1>1, <1>3, <1>4, InboundRows
<1>6. MemoryOK' /\ \A x \in Aged(e, again) : Known(x)'
  BY <1>1, <1>2, <1>3, <1>4, AgedKnown
<1>7. Others'
  BY <1>1, <1>2 DEF Others
<1>8. ASSUME NEW x, x = Redelivery(e, Answers(e)) PROVE Known(x)'
  <2>1. DedupCap \in Nat \ {0}
    BY DEF GateGiven
  <2>2. x = [event |-> e, taken |-> Answers(e), left |-> DedupCap - 1]
    BY <1>8 DEF Redelivery
  <2>3. Answers(e) \in BOOLEAN
    BY DEF Answers
  <2>4. x.event = e /\ x.taken = Answers(e) /\ x.left = DedupCap - 1
    BY <2>2
  <2>5. x \in Events
    BY <1>4, <2>1, <2>2, <2>3 DEF Events
  <2>6. Answers(e) => InMemory(e.key, DedupCap - 1)'
    <3>1. dedup' = IF Seen(e.key) THEN dedup ELSE Remember(e.key)
      BY <1>3, <1>4, InboundMemory
    <3>2. Answers(e) => ~Seen(e.key)
      BY DEF Answers
    <3>3. DedupCap - 1 \in 0 .. DedupCap - 1
      BY <2>1
    <3> QED
      BY <1>1, <1>4, <3>1, <3>2, <3>3, MemoryAges
  <2> QED
    BY <1>2, <1>4, <2>4, <2>5, <2>6 DEF Known
<1>9. \A x \in again' : Known(x)'
  BY <1>3, <1>6, <1>8
<1> QED
  BY <1>5, <1>6, <1>7, <1>9, PartsNext

LEMMA PostLateKeeps == ASSUME GateGiven, Inv, NEW t \in Thread, PostLate(t) PROVE Inv'
<1>1. /\ Rows /\ waiting \subseteq Message /\ MemoryOK /\ Others /\ \A x \in again : Known(x)
  BY Parts
<1>2. /\ posts' = posts + 1 /\ posts' \in 1 .. MaxPosts /\ posts \in Nat
      /\ UNCHANGED <<row, parked, waiting, dedup, born, downs, bots, eased, invited, twice>>
  BY <1>1 DEF PostLate, Others, GateGiven
<1>3. PICK e \in InboundOf(t, posts + 1) : again' = again \cup {Redelivery(e, FALSE)}
  BY DEF PostLate
<1>4. e \in Message /\ e.key = posts + 1
  BY <1>2, InboundIsMessage, InboundKey
<1>5. ASSUME NEW x, x = Redelivery(e, FALSE) PROVE Known(x)'
  <2>1. DedupCap \in Nat \ {0} /\ x = [event |-> e, taken |-> FALSE, left |-> DedupCap - 1]
    BY <1>5 DEF GateGiven, Redelivery
  <2>2. x \in Events /\ x.event = e /\ x.taken = FALSE
    BY <1>4, <2>1 DEF Events
  <2> QED
    BY <1>2, <1>4, <2>2 DEF Known
<1>6. \A x \in again' : Known(x)'
  <2>1. ASSUME NEW x \in again PROVE Known(x)'
    BY <1>1, <1>2, StaysKnown
  <2> QED
    BY <1>3, <1>5, <2>1
<1>7. Rows' /\ waiting' \subseteq Message /\ MemoryOK' /\ Others'
  BY <1>1, <1>2 DEF Rows, CountKeepsUp, OnlyInvited, MemoryOK, Others
<1> QED
  BY <1>6, <1>7, PartsNext

LEMMA ComesLateKeeps == ASSUME GateGiven, Inv, ComesLate PROVE Inv'
<1>1. /\ Rows /\ waiting \subseteq Message /\ MemoryOK /\ Others /\ \A x \in again : Known(x)
  BY Parts
<1>2. PICK x \in again :
          /\ OnInbound(x.event)
          /\ again' = Aged(x.event, again \ {x})
          /\ twice' = (twice \/ (x.taken /\ Answers(x.event)))
  BY DEF ComesLate
<1>3. UNCHANGED <<parked, born, posts, downs>> /\ posts \in Nat
  BY <1>1 DEF ComesLate, Others
<1>4. x.event \in Message
  BY <1>1 DEF Known, Events
<1>5. Rows' /\ waiting' \subseteq Message
  BY <1>1, <1>2, <1>4, InboundRows
<1>6. MemoryOK' /\ \A y \in again' : Known(y)'
  BY <1>1, <1>2, <1>3, <1>4, AgedKnown
<1>7. twice' = FALSE
  <2>1. ~(x.taken /\ Answers(x.event))
    BY TakenIsKnown
  <2> QED
    BY <1>1, <1>2, <2>1 DEF Others
<1> QED
  BY <1>1, <1>3, <1>5, <1>6, <1>7, PartsNext DEF Others

LEMMA HandedOnKeeps == ASSUME GateGiven, Inv, HandedOn PROVE Inv'
<1>1. /\ Rows /\ waiting \subseteq Message /\ MemoryOK /\ Others /\ \A x \in again : Known(x)
  BY Parts
<1>2. /\ waiting' \subseteq waiting
      /\ UNCHANGED <<row, parked, dedup, born, posts, again, downs, bots, eased, invited, twice>>
  BY DEF HandedOn
<1>3. \A x \in again' : Known(x)'
  BY <1>1, <1>2, StaysKnown DEF Others
<1>4. Rows' /\ waiting' \subseteq Message /\ MemoryOK' /\ Others'
  BY <1>1, <1>2 DEF Rows, CountKeepsUp, OnlyInvited, MemoryOK, Others
<1> QED
  BY <1>3, <1>4, PartsNext

LEMMA GateRestartKeeps == ASSUME GateGiven, Inv, GateRestart PROVE Inv'
<1>1. /\ Rows /\ waiting \subseteq Message /\ MemoryOK /\ Others /\ \A x \in again : Known(x)
  BY Parts
<1>2. /\ waiting' = {} /\ dedup' = <<>> /\ born' = posts /\ downs' = downs + 1 /\ downs < MaxDowns
      /\ UNCHANGED <<row, posts, bots, eased, invited, twice>>
      /\ again' = {[x EXCEPT !.taken = @ /\ x.event.kind = "command"] : x \in again}
  BY DEF GateRestart
<1>3. parked' \subseteq Message
  <2>1. \A m \in waiting : DrainPending(m) \in Message
    BY <1>1, ParkedIsMessage
  <2> QED
    BY <1>1, <2>1 DEF GateRestart, Others
<1>4. ASSUME NEW y \in again,
             NEW x, x = [y EXCEPT !.taken = @ /\ y.event.kind = "command"]
      PROVE  Known(x)'
  <2>1. Known(y) /\ y \in [event : Message, taken : BOOLEAN, left : 0 .. DedupCap - 1]
    BY <1>1 DEF Known, Events
  <2>2. x = [event |-> y.event, taken |-> (y.taken /\ y.event.kind = "command"), left |-> y.left]
    BY <1>4, <2>1
  <2>3. (y.taken /\ y.event.kind = "command") \in BOOLEAN
    OBVIOUS
  <2>4. x \in Events
    BY <2>1, <2>2, <2>3 DEF Events
  <2>5. x.event = y.event /\ (x.taken => y.event.kind = "command")
    BY <2>2
  <2> QED
    BY <1>2, <2>1, <2>4, <2>5 DEF Known, OutOfDate
<1>5. \A x \in again' : Known(x)'
  BY <1>2, <1>4
<1>6. Rows' /\ waiting' \subseteq Message /\ MemoryOK'
  BY <1>1, <1>2 DEF Rows, CountKeepsUp, OnlyInvited, MemoryOK, GateGiven
<1>7. Others'
  BY <1>1, <1>2, <1>3 DEF Others, GateGiven
<1> QED
  BY <1>5, <1>6, <1>7, PartsNext

LEMMA ResumeParkedKeeps == ASSUME GateGiven, Inv, ResumeParked PROVE Inv'
<1>1. /\ Rows /\ waiting \subseteq Message /\ MemoryOK /\ Others /\ \A x \in again : Known(x)
  BY Parts
<1>2. PICK m \in parked :
          /\ OnInbound(m)
          /\ parked' = parked \ {m}
          /\ again' = {IF Answers(m) /\ x.event.key = m.key THEN [x EXCEPT !.taken = TRUE] ELSE x : x \in Aged(m, again)}
  BY DEF ResumeParked
<1>3. UNCHANGED <<born, posts, downs, twice>> /\ posts \in Nat /\ m \in Message
  BY <1>1 DEF ResumeParked, Others
<1>4. Rows' /\ waiting' \subseteq Message
  BY <1>1, <1>2, <1>3, InboundRows
<1>5. MemoryOK' /\ \A x \in Aged(m, again) : Known(x)'
  BY <1>1, <1>2, <1>3, AgedKnown
<1>6. ASSUME NEW y \in Aged(m, again), Answers(m), y.event.key = m.key,
             NEW x, x = [y EXCEPT !.taken = TRUE]
      PROVE  Known(x)'
  <2>1. Known(y)' /\ y \in [event : Message, taken : BOOLEAN, left : 0 .. DedupCap - 1]
    BY <1>5 DEF Known, Events
  <2>2. x = [event |-> y.event, taken |-> TRUE, left |-> y.left]
    BY <1>6, <2>1
  <2>3. x \in Events
    BY <2>1, <2>2 DEF Events
  <2>4. x.event = y.event /\ x.left = y.left /\ y.left \in 0 .. DedupCap - 1
    BY <2>1, <2>2
  <2>5. InMemory(m.key, y.left)'
    <3>1. dedup' = IF Seen(m.key) THEN dedup ELSE Remember(m.key)
      BY <1>2, <1>3, InboundMemory
    <3>2. ~Seen(m.key)
      BY <1>6 DEF Answers
    <3> QED
      BY <1>1, <1>3, <2>4, <3>1, <3>2, MemoryAges
  <2> QED
    BY <1>6, <2>1, <2>3, <2>4, <2>5 DEF Known
<1>7. \A x \in again' : Known(x)'
  BY <1>2, <1>5, <1>6
<1> QED
  BY <1>1, <1>2, <1>3, <1>4, <1>5, <1>7, PartsNext DEF Others

LEMMA InvStays == ASSUME GateGiven, Inv, [GateNext]_gateVars PROVE Inv'
<1>1. CASE UNCHANGED gateVars
  <2>1. /\ Rows /\ waiting \subseteq Message /\ MemoryOK /\ Others /\ \A x \in again : Known(x)
    BY Parts
  <2>2. \A x \in again' : Known(x)'
    BY <1>1, <2>1, StaysKnown DEF gateVars, Others
  <2>3. Rows' /\ waiting' \subseteq Message /\ MemoryOK' /\ Others'
    BY <1>1, <2>1 DEF gateVars, Rows, CountKeepsUp, OnlyInvited, MemoryOK, Others
  <2> QED
    BY <2>2, <2>3, PartsNext
<1>2. CASE GateNext
  BY <1>2, PostKeeps, PostLateKeeps, ComesLateKeeps, HandedOnKeeps, GateRestartKeeps, ResumeParkedKeeps DEF GateNext
<1> QED
  BY <1>1, <1>2

LEMMA InvSays == ASSUME GateGiven, Inv PROVE GateHolds
<1>1. LoopIsBroken
  <2> SUFFICES ASSUME NEW t \in Thread \ Dm, t \notin eased PROVE bots[t] <= LoopLimit + 1
    BY DEF LoopIsBroken
  <2>1. bots[t] <= row[t].streak + 1 /\ bots[t] \in Nat /\ row[t].streak \in 0 .. LoopLimit /\ LoopLimit \in Nat
    BY DEF Inv, CountKeepsUp, GateTypeOK, Entry, GateGiven
  <2> QED
    BY <2>1
<1> QED
  BY <1>1 DEF GateHolds, Inv

\* However many threads, events and restarts there are: between two words of a
\* person no more than the limit's bot messages are answered in a thread, and one;
\* the bot is only where the owner, or a bot he allowed, asked for it; and nothing
\* Slack hands over again is answered again (gate, bump_bot_streak, pause,
\* mark_thread_seen, RecentDeliveries, stale_reason).
THEOREM GateAlwaysHolds == ASSUME GateGiven PROVE GateSpec => []GateHolds
<1>1. GateInit => Inv
  BY StartsTrue
<1>2. Inv /\ [GateNext]_gateVars => Inv'
  BY InvStays
<1>3. Inv => GateHolds
  BY InvSays
<1> QED
  BY <1>1, <1>2, <1>3, PTL DEF GateSpec
-----------------------------------------------------------------------------
(***************************************************************************)
(* FrontHolds for any number of people, machines, threads and events.  To  *)
(* be inductive it needs that whoever was told within the minute counts as *)
(* told: a complaint that is held back relies on it.  The state falls into *)
(* four parts a step may touch one at a time: the claims, what is bound,   *)
(* the threads, the complaints.                                            *)
(***************************************************************************)

\* Whoever was told within the minute counts as told
FrontInv == FrontTypeOK /\ OneOwner /\ BoundKnowsOwner /\ ServedByOne /\ NoSilence /\ said \subseteq notified

ClaimsRight ==
    /\ ownerId \in Writer \cup {Nothing} /\ pendingSelection \in Writer \cup {Nothing}
    /\ showed \subseteq Writer /\ owners \subseteq Writer /\ lost \subseteq Loss
    /\ OneOwner

Bound ==
    /\ routes \in [Place -> Machines \cup {Gateway, Nothing}]
    /\ linked \subseteq Machines /\ knows \subseteq Machines /\ lost \subseteq Loss
    /\ breaks \in 0 .. MaxBreaks /\ BoundKnowsOwner

Threads ==
    /\ kept \in [Topic -> Machines \cup {Gateway, Nothing}] /\ written \subseteq Topic
    /\ served \in [Topic -> SUBSET (Machines \cup {Gateway})] /\ lost \subseteq Loss
    /\ ServedByOne

Complaints == said \subseteq Place /\ missed \subseteq notified /\ notified \subseteq Place /\ said \subseteq notified

LEMMA FrontInvIs ==
    /\ FrontInv => ClaimsRight /\ Bound /\ Threads /\ Complaints /\ taken \in 0 .. MaxSeen
    /\ ClaimsRight /\ Bound /\ Threads /\ Complaints /\ taken \in 0 .. MaxSeen => FrontInv
  BY DEF FrontInv, FrontTypeOK, NoSilence, ClaimsRight, Bound, Threads, Complaints

LEMMA FrontInvNext ==
    ASSUME ClaimsRight', Bound', Threads', Complaints', (taken \in 0 .. MaxSeen)'
    PROVE  FrontInv'
  BY DEF FrontInv, FrontTypeOK, NoSilence, ClaimsRight, Bound, Threads, Complaints
-----------------------------------------------------------------------------
(* What an event can be                                                    *)

LEMMA EventsAre ==
    ASSUME FrontGiven, NEW e \in Event
    PROVE  e.place \in Place /\ e.thread \in Topic \cup {Nothing}
<1>1. ASSUME NEW t \in Topic PROVE t[1] \in Place
  BY <1>1 DEF FrontGiven
<1>2. CASE e \in UserMessage
  BY <1>2 DEF UserMessage
<1>3. CASE e \notin UserMessage
  BY <1>1, <1>3 DEF Event, Other
<1> QED
  BY <1>2, <1>3

\* While nobody is the owner, a command in direct messages comes from the person
\* they are with
LEMMA CommandsAreTheirs ==
    ASSUME FrontGiven, NEW e \in Event, ownerId = Nothing, Onboarding(e)
    PROVE  e.by = e.place /\ e.by \in Writer
<1>1. e.what # "reaction" /\ ~e.api /\ e.by # Nothing /\ e.place \in Writer
  BY DEF Onboarding, IsACommandCandidate, IsMessage, SpeaksAsABot, Private
<1>2. e \in UserMessage /\ Said(e)
  BY <1>1 DEF Event, Other, Said
<1> QED
  BY <1>1, <1>2 DEF Said
-----------------------------------------------------------------------------
(* bind_and_link                                                           *)

LEMMA BindKeeps ==
    ASSUME FrontGiven, Bound, NEW b \in Machines \cup {Gateway}, NEW p \in Place, Bind(b, p)
    PROVE  Bound' /\ lost \subseteq lost' /\ lost' \subseteq lost \cup Machines
<1>0. breaks \in 0 .. MaxBreaks /\ MaxBreaks \in Nat /\ Machines \subseteq Loss /\ Gateway \notin Machines
  BY DEF Bound, FrontGiven, Loss
<1>1. Fails => breaks' \in 0 .. MaxBreaks
  BY <1>0 DEF Fails
<1>2. CASE /\ routes' = [routes EXCEPT ![p] = b]
           /\ \/ b \in linked /\ knows' = knows \cup {b} /\ UNCHANGED <<linked, lost, breaks>>
              \/ /\ b \in linked /\ Fails /\ linked' = linked \ {b} /\ lost' = lost \cup ({b} \ knows)
                 /\ UNCHANGED knows
              \/ b = Gateway /\ UNCHANGED <<linked, knows, lost, breaks>>
  <2>1. knows \cup lost \subseteq knows' \cup lost' /\ (b \in Machines => b \in knows' \cup lost')
    BY <1>0, <1>2
  <2>2. routes' \in [Place -> Machines \cup {Gateway, Nothing}]
    BY <1>2 DEF Bound
  <2>3. ASSUME NEW q \in Place, routes'[q] \in Machines PROVE routes'[q] \in knows' \cup lost'
    <3>1. CASE q = p
      BY <1>2, <2>1, <2>3, <3>1 DEF Bound
    <3>2. CASE q # p
      BY <1>2, <2>1, <2>3, <3>2 DEF Bound, BoundKnowsOwner
    <3> QED
      BY <3>1, <3>2
  <2>4. linked' \subseteq Machines /\ knows' \subseteq Machines /\ lost' \subseteq Loss /\ breaks' \in 0 .. MaxBreaks
    BY <1>0, <1>1, <1>2 DEF Bound
  <2>5. lost \subseteq lost' /\ lost' \subseteq lost \cup Machines
    BY <1>0, <1>2 DEF Bound
  <2> QED
    BY <2>2, <2>3, <2>4, <2>5 DEF Bound, BoundKnowsOwner
<1>3. CASE Fails /\ knows' = knows \cup ({b} \ {Gateway}) /\ UNCHANGED <<routes, linked, lost>>
  BY <1>0, <1>1, <1>3 DEF Bound, BoundKnowsOwner
<1> QED
  BY <1>2, <1>3 DEF Bind

\* More may be lost at any time: the claims and the threads are judged by it
LEMMA LosingKeepsClaims ==
    ASSUME ClaimsRight, lost \subseteq lost', lost' \subseteq Loss,
           UNCHANGED <<ownerId, pendingSelection, showed, owners>>
    PROVE  ClaimsRight'
  BY DEF ClaimsRight, OneOwner

LEMMA LosingKeepsThreads ==
    ASSUME Threads, lost \subseteq lost', lost' \subseteq Loss, UNCHANGED <<kept, written, served>>
    PROVE  Threads'
  BY DEF Threads, ServedByOne

LEMMA LosingKeepsBound ==
    ASSUME Bound, lost \subseteq lost', lost' \subseteq Loss, UNCHANGED <<routes, linked, knows, breaks>>
    PROVE  Bound'
  BY DEF Bound, BoundKnowsOwner

LEMMA ComplaintsStay == ASSUME Complaints, UNCHANGED <<said, missed, notified>> PROVE Complaints'
  BY DEF Complaints
-----------------------------------------------------------------------------
(* answer_own_commands                                                     *)

\* The gateway takes the place itself, or its owner is asked for a machine
LEMMA AloneKeeps ==
    ASSUME FrontGiven, Bound, NEW p \in Place, UNCHANGED <<linked, knows>>,
           lost \subseteq lost', lost' \subseteq Loss, breaks' \in 0 .. MaxBreaks,
           routes' = [routes EXCEPT ![p] = Gateway] \/ UNCHANGED routes
    PROVE  Bound'
<1>1. Gateway \notin Machines
  BY DEF FrontGiven
<1>2. routes' \in [Place -> Machines \cup {Gateway, Nothing}]
  BY DEF Bound
<1>3. ASSUME NEW q \in Place, routes'[q] \in Machines PROVE routes'[q] = routes[q]
  BY <1>1, <1>3 DEF Bound
<1> QED
  BY <1>2, <1>3 DEF Bound, BoundKnowsOwner

LEMMA AnswerOwnCommandsKeeps ==
    ASSUME FrontGiven, ClaimsRight, Bound, Threads, Complaints, NEW e \in Event, AnswerOwnCommands(e)
    PROVE  ClaimsRight' /\ Bound' /\ Threads' /\ Complaints'
<1>0. e.place \in Place /\ UNCHANGED <<kept, written, said, served, missed, notified>>
  BY EventsAre DEF AnswerOwnCommands
<1>t. Threads /\ lost \subseteq Loss /\ Machines \subseteq Loss
  BY DEF Threads, Loss
<1>c. Complaints'
  BY <1>0, ComplaintsStay
<1>1. CASE JustAnswered(e)
  <2>1. UNCHANGED <<routes, ownerId, pendingSelection, linked, knows, breaks, showed, owners, lost>>
    BY <1>1 DEF JustAnswered, access
  <2> QED
    BY <1>0, <1>t, <1>c, <2>1, LosingKeepsClaims, LosingKeepsThreads, LosingKeepsBound
<1>2. CASE Selected(e)
  <2>1. e.text \in Machines \cup {Gateway} /\ pendingSelection \in Place /\ Bind(e.text, pendingSelection)
    BY <1>2 DEF Selected, Awaits, Online, Bound, ClaimsRight, Place
  <2>2. Bound' /\ lost \subseteq lost' /\ lost' \subseteq Loss
    BY <2>1, <1>t, BindKeeps
  <2>3. ClaimsRight'
    BY <1>2, <2>2 DEF Selected, ClaimsRight, OneOwner
  <2> QED
    BY <1>0, <1>t, <1>c, <2>2, <2>3, LosingKeepsThreads
<1>3. CASE Claimed(e)
  <2>1. ownerId = Nothing /\ e.by = e.place /\ e.by \in Writer /\ Nothing \notin Writer
    BY <1>3, CommandsAreTheirs DEF Claimed, Claims, AnswerOwnCommands, FrontGiven, Place
  <2>2. owners = {}
    BY <2>1 DEF ClaimsRight, OneOwner
  <2>3. ClaimsRight'
    <3>1. /\ ownerId' = e.by /\ owners' = {e.by} /\ showed' = showed \cup {e.by} /\ lost' = lost
          /\ pendingSelection' \in {Nothing, e.by}
      BY <1>3, <2>1, <2>2 DEF Claimed
    <3> QED
      BY <2>1, <3>1 DEF ClaimsRight, OneOwner
  <2>4. Bound'
    BY <1>0, <1>3, <1>t, AloneKeeps DEF Claimed, Bound
  <2> QED
    BY <1>0, <1>3, <1>t, <1>c, <2>3, <2>4, LosingKeepsThreads DEF Claimed
<1>4. CASE ClaimNotSaved(e)
  <2>1. ownerId = Nothing /\ e.by = e.place /\ e.by \in Writer /\ Nothing \notin Writer
    BY <1>4, CommandsAreTheirs DEF ClaimNotSaved, Claims, AnswerOwnCommands, FrontGiven, Place
  <2>2. lost' = lost \cup {"claim"} /\ lost' \subseteq Loss /\ lost \subseteq lost'
    BY <1>4, <1>t DEF ClaimNotSaved, Loss
  <2>3. ClaimsRight'
    <3>1. UNCHANGED <<ownerId, owners>> /\ showed' = showed \cup {e.by} /\ pendingSelection' \in {Nothing, e.by}
      BY <1>4, <2>1 DEF ClaimNotSaved
    <3> QED
      BY <2>1, <2>2, <3>1 DEF ClaimsRight, OneOwner
  <2>4. breaks' \in 0 .. MaxBreaks
    BY <1>4 DEF ClaimNotSaved, Fails, Bound, FrontGiven
  <2>5. Bound'
    BY <1>0, <1>4, <2>2, <2>4, AloneKeeps DEF ClaimNotSaved
  <2> QED
    BY <1>0, <1>t, <1>c, <2>2, <2>3, <2>5, LosingKeepsThreads
<1> QED
  BY <1>1, <1>2, <1>3, <1>4 DEF AnswerOwnCommands
-----------------------------------------------------------------------------
(* on_event, on_click                                                      *)

\* A thread with a machine goes to it, and every answer is a machine or this one
LEMMA DecideIs ==
    ASSUME Bound, Threads, NEW p \in Place, NEW t \in Topic \cup {Nothing}
    PROVE  /\ Decide(p, t) \in Machines \cup {Gateway}
           /\ t # Nothing /\ kept[t] # Nothing => Decide(p, t) = kept[t]
<1>1. routes[p] \in Machines \cup {Gateway, Nothing}
  BY DEF Bound
<1>2. t # Nothing => t \in Topic /\ kept[t] \in Machines \cup {Gateway, Nothing}
  BY DEF Threads
<1> QED
  BY <1>1, <1>2 DEF Decide

\* Whether or not the thread is kept with this event, what its machine is given
\* counts as its own
LEMMA GivingKeepsThreads ==
    ASSUME FrontGiven, Bound, Threads, NEW p \in Place, NEW t \in Topic \cup {Nothing}, NEW keep \in BOOLEAN,
           keep => t # Nothing /\ kept[t] = Nothing, NEW b, b = Decide(p, t), Remembers(t, b, keep), UNCHANGED lost,
           Got(t, b) \/ UNCHANGED served
    PROVE  Threads'
<1>1. b \in Machines \cup {Gateway} /\ b # Nothing /\ (t # Nothing /\ kept[t] # Nothing => b = kept[t])
  BY DecideIs DEF FrontGiven
<1>2. kept' = (IF keep THEN [kept EXCEPT ![t] = b] ELSE kept) /\ UNCHANGED written
  BY DEF Remembers
<1>3. kept' \in [Topic -> Machines \cup {Gateway, Nothing}] /\ written' \subseteq Topic /\ lost' \subseteq Loss
  BY <1>1, <1>2 DEF Threads
<1>4. ASSUME NEW s \in Topic \ lost
      PROVE  served[s] \subseteq {kept'[s]}
  <2>1. served[s] \subseteq {kept[s]} /\ served[s] \subseteq Machines \cup {Gateway}
    BY <1>4 DEF Threads, ServedByOne
  <2>2. CASE kept[s] = Nothing
    BY <2>1, <2>2 DEF FrontGiven
  <2>3. CASE kept[s] # Nothing
    BY <1>2, <2>1, <2>3 DEF Threads
  <2> QED
    BY <2>2, <2>3
<1>5. t # Nothing /\ kept'[t] # Nothing => t \in Topic /\ kept'[t] = b
  BY <1>1, <1>2 DEF Threads
<1>6. served' \in [Topic -> SUBSET (Machines \cup {Gateway})]
  BY <1>1, <1>5 DEF Got, Threads
<1>7. ASSUME NEW s \in Topic \ lost
      PROVE  served'[s] \subseteq {kept'[s]}
  <2>1. served'[s] = served[s] \/ (s = t /\ kept'[t] = b /\ served'[s] = served[s] \cup {b})
    BY <1>5, <1>7 DEF Got, Threads
  <2> QED
    BY <1>4, <1>7, <2>1
<1> QED
  BY <1>3, <1>6, <1>7 DEF Threads, ServedByOne

LEMMA CannotDeliverKeeps ==
    ASSUME Complaints, NEW e, e.place \in Place, CannotDeliver(e)
    PROVE  Complaints'
  BY DEF CannotDeliver, Tell, Complaints

LEMMA DeliveredKeeps ==
    ASSUME Complaints, NEW p \in Place, Delivered(p)
    PROVE  Complaints'
  BY DEF Delivered, Complaints

LEMMA CutKeepsBound ==
    ASSUME FrontGiven, Bound, NEW b, Fails, linked' = linked \ {b}, UNCHANGED <<routes, knows, lost>>
    PROVE  Bound'
<1>1. breaks' \in 0 .. MaxBreaks
  BY DEF Fails, Bound, FrontGiven
<1> QED
  BY <1>1 DEF Bound, BoundKnowsOwner

LEMMA OnEventKeeps ==
    ASSUME FrontGiven, ClaimsRight, Bound, Threads, Complaints, NEW e \in Event, OnEvent(e)
    PROVE  ClaimsRight' /\ Bound' /\ Threads' /\ Complaints'
<1> DEFINE b == Decide(e.place, e.thread)
           keep == e.thread # Nothing /\ kept[e.thread] = Nothing /\ BringsInTheBot(e)
<1>1. e.place \in Place /\ e.thread \in Topic \cup {Nothing}
  BY EventsAre
<1>2. Remembers(e.thread, b, keep) /\ UNCHANGED lost
  BY DEF OnEvent
<1>3. \/ b \in Online /\ Delivered(e.place) /\ Got(e.thread, b) /\ UNCHANGED <<linked, breaks>>
      \/ b \in linked /\ Fails /\ linked' = linked \ {b} /\ CannotDeliver(e)
      \/ b \notin Online /\ CannotDeliver(e) /\ UNCHANGED <<linked, breaks>>
  BY DEF OnEvent
<1>4. UNCHANGED <<ownerId, routes, pendingSelection, knows, showed, owners>>
  BY <1>2 DEF Remembers, access
<1>5. keep \in BOOLEAN /\ (keep => e.thread # Nothing /\ kept[e.thread] = Nothing)
  OBVIOUS
<1>6. Got(e.thread, b) \/ UNCHANGED served
  BY <1>3 DEF CannotDeliver
<1>7. Threads'
  <2> HIDE DEF keep
  <2> QED
    BY <1>1, <1>2, <1>5, <1>6, GivingKeepsThreads
<1> HIDE DEF b, keep
<1>8. Complaints'
  BY <1>1, <1>3, CannotDeliverKeeps, DeliveredKeeps
<1>9. lost \subseteq Loss
  BY DEF Bound
<1>10. Bound'
  BY <1>2, <1>3, <1>4, <1>9, CutKeepsBound, LosingKeepsBound
<1>11. ClaimsRight'
  BY <1>2, <1>4, <1>9, LosingKeepsClaims
<1> QED
  BY <1>7, <1>8, <1>10, <1>11

LEMMA OnClickKeeps ==
    ASSUME FrontGiven, ClaimsRight, Bound, Threads, Complaints, NEW t \in Topic, OnClick(t)
    PROVE  ClaimsRight' /\ Bound' /\ Threads' /\ Complaints'
<1> DEFINE p == t[1]
           b == Decide(p, t)
<1>1. p \in Place /\ t \in Topic \cup {Nothing}
  BY DEF FrontGiven
<1>2. Remembers(t, b, FALSE) /\ UNCHANGED lost
  BY DEF OnClick
<1>3. \/ b = Gateway /\ Got(t, b) /\ UNCHANGED <<linked, said, missed, notified, breaks>>
      \/ b \in linked /\ Delivered(p) /\ Got(t, b) /\ UNCHANGED <<linked, breaks>>
      \/ b \in linked /\ Fails /\ linked' = linked \ {b} /\ UNCHANGED <<said, served, missed, notified>>
      \/ b \notin Online /\ Tell(p) /\ UNCHANGED <<linked, served, missed, breaks>>
  BY DEF OnClick
<1>4. UNCHANGED <<ownerId, routes, pendingSelection, knows, showed, owners>>
  BY <1>2 DEF Remembers, access
<1>5. Got(t, b) \/ UNCHANGED served
  BY <1>3
<1>6. Threads'
  BY <1>1, <1>2, <1>5, GivingKeepsThreads
<1> HIDE DEF p, b
<1>7. Complaints'
  <2>1. Tell(p) /\ UNCHANGED missed => Complaints'
    BY <1>1 DEF Tell, Complaints
  <2> QED
    BY <1>1, <1>3, <2>1, DeliveredKeeps, ComplaintsStay
<1>8. lost \subseteq Loss
  BY DEF Bound
<1>9. Bound'
  BY <1>2, <1>3, <1>4, <1>8, CutKeepsBound, LosingKeepsBound
<1>10. ClaimsRight'
  BY <1>2, <1>4, <1>8, LosingKeepsClaims
<1> QED
  BY <1>6, <1>7, <1>9, <1>10

LEMMA FromSlackKeeps == ASSUME FrontGiven, FrontInv, FromSlack PROVE FrontInv'
<1>1. ClaimsRight /\ Bound /\ Threads /\ Complaints /\ taken \in 0 .. MaxSeen
  BY FrontInvIs
<1>2. taken' \in 0 .. MaxSeen
  BY <1>1 DEF FromSlack, FrontGiven
<1>3. ClaimsRight' /\ Bound' /\ Threads' /\ Complaints'
  BY <1>1, AnswerOwnCommandsKeeps, OnEventKeeps, OnClickKeeps DEF FromSlack
<1> QED
  BY <1>2, <1>3, FrontInvNext
-----------------------------------------------------------------------------
(* What goes on meanwhile                                                  *)

LEMMA RepointKeeps ==
    ASSUME FrontGiven, FrontInv, NEW p \in Place, NEW b \in Machines \cup {Gateway}, Repoint(p, b)
    PROVE  FrontInv'
<1>1. ClaimsRight /\ Bound /\ Threads /\ Complaints /\ taken \in 0 .. MaxSeen
  BY FrontInvIs
<1>2. taken' \in 0 .. MaxSeen
  BY <1>1 DEF Repoint, FrontGiven
<1>3. Bound' /\ lost \subseteq lost' /\ lost' \subseteq Loss
  BY <1>1, BindKeeps DEF Repoint, Bound, Loss
<1>4. UNCHANGED <<ownerId, pendingSelection, kept, written, said, showed, owners, served, missed, notified>>
  BY DEF Repoint
<1>5. ClaimsRight' /\ Threads' /\ Complaints'
  BY <1>1, <1>3, <1>4, LosingKeepsClaims, LosingKeepsThreads, ComplaintsStay
<1> QED
  BY <1>2, <1>3, <1>5, FrontInvNext

LEMMA LinkKeeps ==
    ASSUME FrontInv, NEW b \in Machines, LinkUp(b) \/ LinkDown(b)
    PROVE  FrontInv'
<1>1. linked' \subseteq Machines
  BY DEF LinkUp, LinkDown, FrontInv, FrontTypeOK
<1>2. UNCHANGED <<desk, complaints, taken, breaks, claims, served, lost>>
  BY DEF LinkUp, LinkDown
<1> QED
  BY <1>1, <1>2
  DEF FrontInv, FrontTypeOK, OneOwner, BoundKnowsOwner, ServedByOne, NoSilence, desk, access, complaints, claims

LEMMA MinutePassesKeeps ==
    ASSUME FrontInv, NEW p \in Place, MinutePasses(p)
    PROVE  FrontInv'
<1>1. said' \subseteq said
  BY DEF MinutePasses
<1>2. UNCHANGED <<desk, linked, taken, breaks, claims, served, missed, notified, lost>>
  BY DEF MinutePasses
<1> QED
  BY <1>1, <1>2
  DEF FrontInv, FrontTypeOK, OneOwner, BoundKnowsOwner, ServedByOne, NoSilence, desk, access, claims

LEMMA NoteThreadRoutesKeeps ==
    ASSUME FrontInv, NEW t \in Topic, NoteThreadRoutes(t)
    PROVE  FrontInv'
<1>1. written' \subseteq Topic
  BY DEF NoteThreadRoutes, FrontInv, FrontTypeOK
<1>2. UNCHANGED <<access, pendingSelection, kept, linked, complaints, knows, taken, breaks, claims, served, lost>>
  BY DEF NoteThreadRoutes
<1> QED
  BY <1>1, <1>2
  DEF FrontInv, FrontTypeOK, OneOwner, BoundKnowsOwner, ServedByOne, NoSilence, access, complaints, claims

LEMMA FrontRestartKeeps == ASSUME FrontGiven, FrontInv, FrontRestart PROVE FrontInv'
<1>1. ClaimsRight /\ Bound /\ Threads /\ Complaints /\ taken \in 0 .. MaxSeen
  BY FrontInvIs
<1> DEFINE unwritten == {t \in Topic : kept[t] # Nothing /\ t \notin written}
<1>2. /\ pendingSelection' = Nothing /\ said' = {} /\ linked' = {} /\ Fails /\ lost' = lost \cup unwritten
      /\ kept' = [t \in Topic |-> IF t \in written THEN kept[t] ELSE Nothing]
      /\ UNCHANGED <<ownerId, routes, written, knows, taken, showed, owners, served, missed, notified>>
  BY DEF FrontRestart, access
<1>3. lost \subseteq lost' /\ lost' \subseteq Loss
  BY <1>1, <1>2 DEF Bound, Loss
<1>4. ClaimsRight'
  BY <1>1, <1>2, <1>3 DEF ClaimsRight, OneOwner
<1>5. breaks' \in 0 .. MaxBreaks
  BY <1>1, <1>2 DEF Fails, Bound, FrontGiven
<1>6. Bound'
  BY <1>1, <1>2, <1>3, <1>5 DEF Bound, BoundKnowsOwner
<1>7. Threads'
  <2>1. kept' \in [Topic -> Machines \cup {Gateway, Nothing}]
    BY <1>1, <1>2 DEF Threads
  <2>2. ASSUME NEW t \in Topic \ lost' PROVE kept'[t] = kept[t] /\ t \notin lost
    BY <1>2, <2>2
  <2> QED
    BY <1>1, <1>2, <1>3, <2>1, <2>2 DEF Threads, ServedByOne
<1>8. Complaints' /\ taken' \in 0 .. MaxSeen
  BY <1>1, <1>2 DEF Complaints
<1> QED
  BY <1>4, <1>6, <1>7, <1>8, FrontInvNext
-----------------------------------------------------------------------------
LEMMA FrontStartsTrue == ASSUME FrontGiven, FrontInit PROVE FrontInv
<1>1. taken = 0 /\ breaks = 0 /\ 0 \in 0 .. MaxSeen /\ 0 \in 0 .. MaxBreaks
  BY DEF FrontInit, FrontGiven
<1>2. ASSUME NEW p \in Place PROVE routes[p] \notin Machines
  BY <1>2 DEF FrontInit, FrontGiven
<1> QED
  BY <1>1, <1>2 DEF FrontInit, FrontInv, FrontTypeOK, OneOwner, BoundKnowsOwner, ServedByOne, NoSilence

LEMMA FrontInvStays == ASSUME FrontGiven, FrontInv, [FrontNext]_frontVars PROVE FrontInv'
<1>1. CASE UNCHANGED frontVars
  BY <1>1
  DEF FrontInv, FrontTypeOK, OneOwner, BoundKnowsOwner, ServedByOne, NoSilence, frontVars, desk, access,
      complaints, claims
<1>2. CASE FrontNext
  BY <1>2, FromSlackKeeps, FrontRestartKeeps, MinutePassesKeeps, RepointKeeps, LinkKeeps, NoteThreadRoutesKeeps
  DEF FrontNext
<1> QED
  BY <1>1, <1>2

\* However many people, machines, threads and events there are, and whichever links,
\* saves and gateways fail: one person who showed the connection string is the owner
\* for good; a machine that is given a place was told of him, or the link went; a
\* thread the bot is in is served by one machine; and a request that could not be
\* delivered has somebody told (DmOnboardingCtx::decide, bind_and_link,
\* Delivery::decide, NoticeCooldown).
THEOREM FrontAlwaysHolds == ASSUME FrontGiven PROVE FrontSpec => []FrontHolds
<1>1. FrontInit => FrontInv
  BY FrontStartsTrue
<1>2. FrontInv /\ [FrontNext]_frontVars => FrontInv'
  BY FrontInvStays
<1>3. FrontInv => FrontHolds
  BY DEF FrontInv, FrontHolds
<1> QED
  BY <1>1, <1>2, <1>3, PTL DEF FrontSpec

-----------------------------------------------------------------------------
(* The settings on file (Settings).                                        *)


AllKeys == Keys \cup {Pools}

Rewrite == [pc : {"idle", "waiting", "loaded", "read"}, key : AllKeys, val : Nat,
            patch : BOOLEAN, here : BOOLEAN, copy : [Keys -> Nat], root : [AllKeys -> Nat]]

Types ==
    /\ file \in [AllKeys -> Nat] /\ latest \in [AllKeys -> Nat] /\ mem \in [Keys -> Nat]
    /\ task \in [Task -> Rewrite]
    /\ lock \in Editors \cup {Nobody}
    /\ reload \in BOOLEAN /\ behind \in BOOLEAN /\ overlap \in BOOLEAN
    /\ changes \in [changes : Nat, fails : Nat]

\* The lock is held by the one editor that is past it; only a folder set on the
\* gateway itself waits for it with a copy in hand
Serial ==
    /\ \A e \in Editors : task[e].pc \in {"loaded", "read"} <=> lock = e
    /\ \A t \in Task : task[t].pc = "waiting" => task[t].here /\ ~task[t].patch

\* What a rewrite in hand will put down differs from the file in its own key only
Faithful(x) ==
    /\ x.pc = "read" => x.root = file
    /\ x.pc # "idle" /\ ~x.patch =>
          /\ x.key \in Keys /\ x.copy[x.key] = x.val
          /\ \A k \in Keys \ {x.key} : x.copy[k] = file[k]
          /\ x.val = 0 => x.key \in Skipped /\ file[x.key] = 0

Kept == ~overlap => file = latest /\ \A t \in Task : Faithful(task[t])

KeptInv == Types /\ Serial /\ Kept

Loop == task["loop"]

\* While no note is on its way, the loop's copy is the file, and so is the one
\* it is about to write, but for the key it changes
LoopKnows ==
    /\ Loop.pc # "idle" /\ Loop.patch => Loop.key = Pools
    /\ ~reload /\ ~behind =>
          /\ Loop.pc = "idle" \/ Loop.patch => \A k \in Keys : mem[k] = file[k]
          /\ Loop.pc = "read" => Loop.root = file
          /\ Loop.pc # "idle" /\ ~Loop.patch =>
                /\ Loop.key \in Keys /\ Loop.copy[Loop.key] # 0
                /\ \A k \in Keys \ {Loop.key} : Loop.copy[k] = file[k]

LoopInv == KeptInv /\ LoopKnows

-----------------------------------------------------------------------------
(* A rewrite taken up, one key of which changes.                           *)

LEMMA KeyFacts == ASSUME Apart PROVE Pools \notin Keys /\ Skipped \subseteq Keys /\ Pools \in AllKeys
  BY DEF Apart, Pools, AllKeys

LEMMA IdleType == NoRewrite \in Rewrite
  BY DEF NoRewrite, Rewrite, Settled, AllKeys

LEMMA OnDiskType == Types => OnDisk \in [Keys -> Nat] /\ \A k \in Keys : OnDisk[k] = file[k]
  BY DEF Types, OnDisk, AllKeys

LEMMA LoadsEffect ==
  ASSUME Types, NEW t \in Task, NEW from \in [Keys -> Nat], NEW k \in Keys, NEW v \in Nat,
         Loads(t, from, k, v)
  PROVE  /\ task' \in [Task -> Rewrite]
         /\ \A u \in Task \ {t} : task'[u] = task[u]
         /\ task'[t].pc = "loaded" /\ task'[t].key = k /\ task'[t].val = v
         /\ ~task'[t].patch /\ task'[t].copy[k] = v
         /\ \A j \in Keys \ {k} : task'[t].copy[j] = from[j]
  <1> DEFINE x == [NoRewrite EXCEPT !.pc = "loaded", !.key = k, !.val = v, !.copy = [from EXCEPT ![k] = v]]
  <1>1. x \in Rewrite
    BY DEF NoRewrite, Rewrite, Settled, AllKeys
  <1>2. /\ x.pc = "loaded" /\ x.key = k /\ x.val = v /\ ~x.patch
        /\ x.copy[k] = v /\ \A j \in Keys \ {k} : x.copy[j] = from[j]
    BY DEF NoRewrite
  <1>3. task' = [task EXCEPT ![t] = x]
    BY DEF Loads
  <1> HIDE DEF x
  <1> QED BY <1>1, <1>2, <1>3 DEF Types

LEMMA PatchesEffect ==
  ASSUME Types, NEW t \in Task, NEW k \in AllKeys, NEW v \in Nat, Patches(t, k, v)
  PROVE  /\ task' \in [Task -> Rewrite]
         /\ \A u \in Task \ {t} : task'[u] = task[u]
         /\ task'[t].pc = "loaded" /\ task'[t].key = k /\ task'[t].val = v /\ task'[t].patch
  <1> DEFINE x == [NoRewrite EXCEPT !.pc = "loaded", !.key = k, !.val = v, !.patch = TRUE]
  <1>1. x \in Rewrite
    BY DEF NoRewrite, Rewrite, Settled, AllKeys
  <1>2. x.pc = "loaded" /\ x.key = k /\ x.val = v /\ x.patch
    BY DEF NoRewrite
  <1>3. task' = [task EXCEPT ![t] = x]
    BY DEF Patches
  <1> HIDE DEF x
  <1> QED BY <1>1, <1>2, <1>3 DEF Types

LEMMA CountEffect == ASSUME Types, Changes PROVE changes' \in [changes : Nat, fails : Nat] /\ Fresh \in Nat /\ Fresh # 0
  BY DEF Types, Changes, Fresh

-----------------------------------------------------------------------------
(* Nothing is lost but by rewrites that crossed.                           *)

LEMMA KeptInit == ASSUME Apart, SettingsInit PROVE KeptInv
  <1>1. Types
    BY IdleType DEF SettingsInit, Types, Settled, AllKeys
  <1>2. \A t \in Task : task[t] = NoRewrite /\ task[t].pc = "idle"
    BY DEF SettingsInit, NoRewrite
  <1>3. Serial
    BY <1>2 DEF Serial, SettingsInit, Task, Apart
  <1>4. Kept
    BY <1>2 DEF Kept, Faithful, SettingsInit
  <1> QED BY <1>1, <1>3, <1>4 DEF KeptInv

LEMMA TakesUp ==
  ASSUME Apart, KeptInv, NEW t \in Task, NEW from \in [Keys -> Nat], NEW k \in Keys, NEW v \in Nat,
         Loads(t, from, k, v), UNCHANGED <<file, latest>>,
         ~overlap' => ~overlap /\ from = OnDisk /\ (v = 0 => k \in Skipped /\ file[k] = 0)
  PROVE  Kept'
  <1> SUFFICES ASSUME ~overlap' PROVE file' = latest' /\ \A u \in Task : Faithful(task[u])'
    BY DEF Kept
  <1>0. Types
    BY DEF KeptInv
  <1>1. file = latest /\ \A u \in Task : Faithful(task[u])
    BY DEF KeptInv, Kept
  <1>2. /\ \A u \in Task \ {t} : task'[u] = task[u]
        /\ task'[t].pc = "loaded" /\ task'[t].key = k /\ task'[t].val = v
        /\ ~task'[t].patch /\ task'[t].copy[k] = v
        /\ \A j \in Keys \ {k} : task'[t].copy[j] = from[j]
    BY <1>0, LoadsEffect
  <1>3. \A u \in Task \ {t} : Faithful(task[u])'
    BY <1>1, <1>2 DEF Faithful
  <1>4. \A j \in Keys : OnDisk[j] = file[j]
    BY <1>0, OnDiskType
  <1>5. Faithful(task[t])'
    BY <1>2, <1>4 DEF Faithful
  <1> QED BY <1>1, <1>3, <1>5

LEMMA TakesUpPatch ==
  ASSUME Apart, KeptInv, NEW t \in Task, NEW k \in AllKeys, NEW v \in Nat,
         Patches(t, k, v), UNCHANGED <<file, latest, overlap>>
  PROVE  Kept'
  <1>1. Types
    BY DEF KeptInv
  <1>2. /\ \A u \in Task \ {t} : task'[u] = task[u]
        /\ task'[t].pc = "loaded" /\ task'[t].patch
    BY <1>1, PatchesEffect
  <1> QED BY <1>2 DEF KeptInv, Kept, Faithful

\* Tasks that are not the gateway's never touch its lock
LEMMA OthersLeaveTheLock ==
  ASSUME Apart, KeptInv, NEW t \in {"loop", "pump", "cli"}, UNCHANGED lock,
         \A u \in Task \ {t} : task'[u] = task[u], task'[t].pc = "loaded"
  PROVE  Serial'
  <1>1. \A e \in Editors : e \in Task \ {t}
    BY DEF Apart, Task
  <1>2. t \in Task
    BY DEF Task
  <1> QED BY <1>1, <1>2 DEF KeptInv, Serial

\* An editor that gets the lock with a rewrite of one setting
LEMMA EditorsLock ==
  ASSUME Apart, KeptInv, NEW e \in Editors, Locked(e), 
         \A u \in Task \ {e} : task'[u] = task[u], task'[e].pc = "loaded"
  PROVE  Serial'
  <1>1. \A d \in Editors : d \in Task
    BY DEF Task
  <1> QED BY <1>1 DEF KeptInv, Serial, Locked, Apart

\* The loop, the pump or the command line begins to save a whole copy
LEMMA SavesAWhole ==
  ASSUME Apart, KeptInv, NEW t \in {"loop", "pump", "cli"}, NEW from \in [Keys -> Nat],
         NEW k \in Keys, NEW v \in Nat, Changes, Loads(t, from, k, v),
         UNCHANGED <<file, mem, latest, lock, reload, behind>>, overlap' \in BOOLEAN,
         ~overlap' => ~overlap /\ from = OnDisk /\ (v = 0 => k \in Skipped /\ file[k] = 0)
  PROVE  KeptInv'
  <1>1. Types /\ t \in Task
    BY DEF KeptInv, Task
  <1>2. /\ task' \in [Task -> Rewrite] /\ \A u \in Task \ {t} : task'[u] = task[u]
        /\ task'[t].pc = "loaded"
    BY <1>1, LoadsEffect
  <1>3. Types'
    BY <1>1, <1>2, CountEffect DEF Types
  <1>4. Serial'
    BY <1>2, OthersLeaveTheLock
  <1>5. Kept'
    BY <1>1, TakesUp
  <1> QED BY <1>3, <1>4, <1>5 DEF KeptInv

LEMMA OwnerCommandKeeps == ASSUME Apart, KeptInv, OwnerCommand PROVE KeptInv'
  <1>1. Types /\ Fresh \in Nat /\ Fresh # 0 /\ mem \in [Keys -> Nat]
    BY CountEffect DEF KeptInv, OwnerCommand, Types
  <1>2. PICK k \in Keys : Loads("loop", mem, k, Fresh)
    BY DEF OwnerCommand
  <1>3. overlap' \in BOOLEAN /\ (~overlap' => ~overlap /\ mem = OnDisk)
    BY <1>1 DEF OwnerCommand, Types
  <1> QED BY <1>1, <1>2, <1>3, SavesAWhole DEF OwnerCommand

LEMMA PumpChangesKeeps == ASSUME Apart, KeptInv, PumpChanges PROVE KeptInv'
  <1>1. Types /\ Fresh \in Nat /\ Fresh # 0 /\ overlap \in BOOLEAN
    BY CountEffect DEF KeptInv, PumpChanges, Types
  <1>2. OnDisk \in [Keys -> Nat]
    BY <1>1, OnDiskType
  <1>3. PICK k \in Keys : Loads("pump", OnDisk, k, Fresh)
    BY DEF PumpChanges
  <1> QED BY <1>1, <1>2, <1>3, SavesAWhole DEF PumpChanges

LEMMA CliChangesKeeps == ASSUME Apart, KeptInv, CliChanges PROVE KeptInv'
  <1>1. Types /\ Fresh \in Nat /\ Fresh # 0 /\ overlap \in BOOLEAN
    BY CountEffect DEF KeptInv, CliChanges, Types
  <1>2. OnDisk \in [Keys -> Nat]
    BY <1>1, OnDiskType
  <1>3. PICK k \in Skipped, v \in {0, Fresh} :
           Loads("cli", OnDisk, k, v) /\ overlap' = (overlap \/ (v = 0 /\ file[k] # 0))
    BY DEF CliChanges
  <1>4. k \in Keys /\ v \in Nat
    BY <1>1, KeyFacts
  <1>5. overlap' = (overlap \/ (v = 0 /\ file[k] # 0)) /\ Loads("cli", OnDisk, k, v)
    BY <1>3
  <1>6. overlap' \in BOOLEAN
    BY <1>1, <1>5
  <1>7. ~overlap' => ~overlap /\ (v = 0 => file[k] = 0)
    BY <1>5
  <1> QED BY <1>2, <1>4, <1>5, <1>6, <1>7, SavesAWhole DEF CliChanges

LEMMA SavePoolsKeeps == ASSUME Apart, KeptInv, SavePools PROVE KeptInv'
  <1>1. Types /\ Fresh \in Nat /\ Pools \in AllKeys /\ "loop" \in Task
    BY CountEffect, KeyFacts DEF KeptInv, SavePools, Task
  <1>2. /\ task' \in [Task -> Rewrite] /\ \A u \in Task \ {"loop"} : task'[u] = task[u]
        /\ task'["loop"].pc = "loaded"
    BY <1>1, PatchesEffect DEF SavePools
  <1>3. Types'
    BY <1>1, <1>2, CountEffect DEF Types, SavePools
  <1>4. Serial'
    BY <1>2, OthersLeaveTheLock DEF SavePools
  <1>5. Kept'
    BY <1>1, TakesUpPatch DEF SavePools
  <1> QED BY <1>3, <1>4, <1>5 DEF KeptInv

LEMMA EditAccessKeeps ==
  ASSUME Apart, KeptInv, NEW e \in Editors, EditAccess(e)
  PROVE  KeptInv'
  <1>1. /\ Types /\ Fresh \in Nat /\ Fresh # 0 /\ e \in Task /\ task[e].pc = "idle" /\ Locked(e)
        /\ overlap \in BOOLEAN
    BY CountEffect DEF KeptInv, EditAccess, Task, Quiet, Types
  <1>2. OnDisk \in [Keys -> Nat]
    BY <1>1, OnDiskType
  <1>3. PICK k \in Keys : Loads(e, OnDisk, k, Fresh)
    BY DEF EditAccess
  <1>4. /\ task' \in [Task -> Rewrite] /\ \A u \in Task \ {e} : task'[u] = task[u]
        /\ task'[e].pc = "loaded"
    BY <1>1, <1>2, <1>3, LoadsEffect
  <1>5. Types'
    BY <1>1, <1>4, CountEffect DEF Types, EditAccess, Locked
  <1>6. Serial'
    BY <1>1, <1>4, EditorsLock
  <1>7. Kept'
    BY <1>1, <1>2, <1>3, TakesUp DEF EditAccess
  <1> QED BY <1>5, <1>6, <1>7 DEF KeptInv

LEMMA EndUpdateKeeps ==
  ASSUME Apart, KeptInv, NEW e \in Editors, EndUpdate(e)
  PROVE  KeptInv'
  <1>1. Types /\ e \in Task /\ task[e].pc = "idle" /\ Locked(e)
    BY DEF KeptInv, EndUpdate, Task, Quiet
  <1>2. PICK k \in Skipped : Patches(e, k, 0)
    BY DEF EndUpdate, ClearKey
  <1>3. k \in AllKeys /\ 0 \in Nat
    BY KeyFacts DEF AllKeys
  <1>4. /\ task' \in [Task -> Rewrite] /\ \A u \in Task \ {e} : task'[u] = task[u]
        /\ task'[e].pc = "loaded"
    BY <1>1, <1>2, <1>3, PatchesEffect
  <1>5. Types'
    BY <1>1, <1>4, CountEffect DEF Types, EndUpdate, Locked
  <1>6. Serial'
    BY <1>1, <1>4, EditorsLock
  <1>7. Kept'
    BY <1>1, <1>2, <1>3, TakesUpPatch DEF EndUpdate
  <1> QED BY <1>5, <1>6, <1>7 DEF KeptInv

LEMMA SetProjectHereKeeps ==
  ASSUME Apart, KeptInv, NEW e \in Editors, SetProjectHere(e)
  PROVE  KeptInv'
  <1>1. Types /\ Fresh \in Nat /\ Fresh # 0 /\ e \in Task /\ task[e].pc = "idle"
    BY CountEffect DEF KeptInv, SetProjectHere, Task, Quiet
  <1>2. OnDisk \in [Keys -> Nat] /\ \A j \in Keys : OnDisk[j] = file[j]
    BY <1>1, OnDiskType
  <1>3. PICK k \in Keys :
           task' = [task EXCEPT ![e] = [NoRewrite EXCEPT !.pc = "waiting", !.key = k, !.val = Fresh, !.here = TRUE,
                                                    !.copy = [OnDisk EXCEPT ![k] = Fresh]]]
    BY DEF SetProjectHere
  <1> DEFINE x == [NoRewrite EXCEPT !.pc = "waiting", !.key = k, !.val = Fresh, !.here = TRUE,
                               !.copy = [OnDisk EXCEPT ![k] = Fresh]]
  <1>4. x \in Rewrite
    BY <1>1, <1>2 DEF NoRewrite, Rewrite, Settled, AllKeys
  <1>5. /\ x.pc = "waiting" /\ x.here /\ ~x.patch /\ x.key = k /\ x.val = Fresh
        /\ x.copy[k] = Fresh /\ \A j \in Keys \ {k} : x.copy[j] = file[j]
    BY <1>2 DEF NoRewrite
  <1>6. task' = [task EXCEPT ![e] = x]
    BY <1>3
  <1> HIDE DEF x
  <1>7. task' \in [Task -> Rewrite] /\ task'[e] = x /\ \A u \in Task \ {e} : task'[u] = task[u]
    BY <1>1, <1>4, <1>6 DEF Types
  <1>8. UNCHANGED <<file, mem, latest, lock, reload, behind, overlap>>
    BY DEF SetProjectHere
  <1>9. Types'
    BY <1>1, <1>7, <1>8, CountEffect DEF Types, SetProjectHere
  <1>10. Serial'
    BY <1>1, <1>5, <1>7, <1>8 DEF KeptInv, Serial, Task
  <1>11. Kept'
    BY <1>1, <1>5, <1>7, <1>8 DEF KeptInv, Kept, Faithful
  <1> QED BY <1>9, <1>10, <1>11 DEF KeptInv

\* One field of a rewrite in hand changes
LEMMA TakesLockKeeps ==
  ASSUME Apart, KeptInv, NEW e \in Editors, TakesLock(e)
  PROVE  KeptInv'
  <1>1. Types /\ e \in Task /\ task[e].pc = "waiting" /\ Locked(e)
    BY DEF KeptInv, TakesLock, Task
  <1> DEFINE x == [task[e] EXCEPT !.pc = "loaded"]
  <1>2. /\ x \in Rewrite /\ x.pc = "loaded" /\ x.key = task[e].key /\ x.val = task[e].val
        /\ x.patch = task[e].patch /\ x.copy = task[e].copy
    BY <1>1 DEF Types, Rewrite
  <1>3. task' = [task EXCEPT ![e] = x]
    BY DEF TakesLock
  <1> HIDE DEF x
  <1>4. task' \in [Task -> Rewrite] /\ task'[e] = x /\ \A u \in Task \ {e} : task'[u] = task[u]
    BY <1>1, <1>2, <1>3 DEF Types
  <1>5. UNCHANGED <<file, mem, latest, reload, changes, behind, overlap>>
    BY DEF TakesLock
  <1>6. Types'
    BY <1>1, <1>4, <1>5 DEF Types, Locked
  <1>7. Serial'
    BY <1>1, <1>2, <1>4, EditorsLock
  <1>8. Kept'
    BY <1>1, <1>2, <1>4, <1>5 DEF KeptInv, Kept, Faithful
  <1> QED BY <1>6, <1>7, <1>8 DEF KeptInv

LEMMA ReadKeeps ==
  ASSUME Apart, KeptInv, NEW t \in Task, Read(t)
  PROVE  KeptInv'
  <1>1. Types /\ task[t].pc = "loaded"
    BY DEF KeptInv, Read
  <1> DEFINE x == [task[t] EXCEPT !.pc = "read", !.root = file]
  <1>2. /\ x \in Rewrite /\ x.pc = "read" /\ x.key = task[t].key /\ x.val = task[t].val
        /\ x.patch = task[t].patch /\ x.copy = task[t].copy /\ x.root = file
    BY <1>1 DEF Types, Rewrite
  <1>3. task' = [task EXCEPT ![t] = x]
    BY <1>1 DEF Read, Types, Rewrite
  <1> HIDE DEF x
  <1>4. task' \in [Task -> Rewrite] /\ task'[t] = x /\ \A u \in Task \ {t} : task'[u] = task[u]
    BY <1>1, <1>2, <1>3 DEF Types
  <1>5. UNCHANGED <<file, mem, latest, lock, reload, changes, behind, overlap>>
    BY DEF Read
  <1>6. Types'
    BY <1>1, <1>4, <1>5 DEF Types
  <1>7. Serial'
    BY <1>1, <1>2, <1>4, <1>5 DEF KeptInv, Serial, Task
  <1>8. Kept'
    BY <1>1, <1>2, <1>4, <1>5 DEF KeptInv, Kept, Faithful
  <1> QED BY <1>6, <1>7, <1>8 DEF KeptInv

-----------------------------------------------------------------------------
(* What is written.                                                        *)

LEMMA WrittenType ==
  ASSUME Types, NEW x \in Rewrite PROVE Written(x) \in [AllKeys -> Nat]
  <1>1. \A k \in AllKeys : Laid(x, k) \in Nat
    BY DEF Laid, Rewrite, AllKeys
  <1>2. ASSUME x.patch PROVE [x.root EXCEPT ![x.key] = x.val] \in [AllKeys -> Nat]
    BY DEF Rewrite
  <1> QED BY <1>1, <1>2 DEF Written, AllKeys

\* A rewrite nothing crossed puts down what the others hold, and its own change
LEMMA WrittenIsFaithful ==
  ASSUME Apart, Types, NEW x \in Rewrite, x.pc = "read", Faithful(x)
  PROVE  \A k \in AllKeys : Written(x)[k] = IF k = x.key THEN x.val ELSE file[k]
  <1>1. x.root = file
    BY DEF Faithful
  <1>2. CASE x.patch
    BY <1>1, <1>2 DEF Written, Rewrite
  <1>3. CASE ~x.patch
    <2>1. /\ x.key \in Keys /\ x.copy[x.key] = x.val
          /\ \A k \in Keys \ {x.key} : x.copy[k] = file[k]
          /\ x.val = 0 => x.key \in Skipped /\ file[x.key] = 0
      BY <1>3 DEF Faithful
    <2>2. SUFFICES ASSUME NEW k \in AllKeys
                   PROVE  Laid(x, k) = IF k = x.key THEN x.val ELSE file[k]
      BY <1>3 DEF Written, AllKeys
    <2>3. CASE k = Pools
      BY <1>1, <2>1, <2>3, KeyFacts DEF Laid
    <2>4. CASE k \in Keys
      BY <1>1, <2>1, <2>4, KeyFacts DEF Laid
    <2> QED BY <2>3, <2>4 DEF AllKeys
  <1> QED BY <1>2, <1>3

\* A task puts its rewrite down, whether it was written or not
LEMMA Drops ==
  ASSUME Apart, Types, NEW t \in Task, task' = [task EXCEPT ![t] = NoRewrite], Adopts(t), Unlocks(t)
  PROVE  /\ task' \in [Task -> Rewrite] /\ \A u \in Task \ {t} : task'[u] = task[u]
         /\ task'[t] = NoRewrite /\ task'[t].pc = "idle"
         /\ mem' \in [Keys -> Nat] /\ lock' \in Editors \cup {Nobody}
  <1>1. task' \in [Task -> Rewrite] /\ (\A u \in Task \ {t} : task'[u] = task[u]) /\ task'[t] = NoRewrite
    BY IdleType DEF Types
  <1>2. NoRewrite.pc = "idle"
    BY DEF NoRewrite
  <1>3. mem' \in [Keys -> Nat]
    BY DEF Adopts, Types, Rewrite
  <1>4. lock' \in Editors \cup {Nobody}
    BY DEF Unlocks, Types
  <1> QED BY <1>1, <1>2, <1>3, <1>4

LEMMA DropsSerial ==
  ASSUME Apart, Types, Serial, NEW t \in Task, task[t].pc = "read", Unlocks(t),
         \A u \in Task \ {t} : task'[u] = task[u], task'[t].pc = "idle"
  PROVE  Serial'
  <1>1. ASSUME NEW e \in Editors PROVE (task[e].pc \in {"loaded", "read"} <=> lock = e)'
    <2>1. e \in Task /\ e # Nobody
      BY DEF Task, Apart
    <2>2. CASE e = t
      BY <2>1, <2>2 DEF Unlocks
    <2>3. CASE e # t
      BY <2>1, <2>3 DEF Unlocks, Serial
    <2> QED BY <2>2, <2>3
  <1>2. \A u \in Task : (task[u].pc = "waiting" => task[u].here /\ ~task[u].patch)'
    BY DEF Serial
  <1> QED BY <1>1, <1>2 DEF Serial

LEMMA WriteKeeps ==
  ASSUME Apart, KeptInv, NEW t \in Task, Write(t)
  PROVE  KeptInv'
  <1>1. /\ Types /\ Serial /\ task[t] \in Rewrite /\ task[t].pc = "read"
        /\ task' = [task EXCEPT ![t] = NoRewrite] /\ Adopts(t) /\ Unlocks(t) /\ changes' = changes
        /\ file' = Written(task[t]) /\ latest' = [latest EXCEPT ![task[t].key] = task[t].val]
    BY DEF KeptInv, Types, Write
  <1>2. /\ task' \in [Task -> Rewrite] /\ \A u \in Task \ {t} : task'[u] = task[u]
        /\ task'[t] = NoRewrite /\ task'[t].pc = "idle"
        /\ mem' \in [Keys -> Nat] /\ lock' \in Editors \cup {Nobody}
    BY <1>1, Drops
  <1>3. file' \in [AllKeys -> Nat] /\ latest' \in [AllKeys -> Nat]
    BY <1>1, WrittenType DEF Types, Rewrite
  <1>4. overlap' \in BOOLEAN /\ reload' \in BOOLEAN /\ behind' \in BOOLEAN
    BY <1>1 DEF Write, Types, Tells
  <1>5. Types'
    BY <1>1, <1>2, <1>3, <1>4 DEF Types
  <1>6. Serial'
    BY <1>1, <1>2, DropsSerial
  <1>7. Kept'
    <2>1. SUFFICES ASSUME ~overlap' PROVE file' = latest' /\ \A u \in Task : Faithful(task[u])'
      BY DEF Kept
    <2>2. ~overlap /\ ~Crosses(t)
      BY <2>1 DEF Write
    <2>3. file = latest /\ \A u \in Task : Faithful(task[u])
      BY <2>2 DEF KeptInv, Kept
    <2>4. \A k \in AllKeys : file'[k] = IF k = task[t].key THEN task[t].val ELSE file[k]
      BY <1>1, <2>3, WrittenIsFaithful
    <2>5. file' = latest'
      BY <1>1, <1>3, <2>3, <2>4 DEF Types, Rewrite
    <2>6. ASSUME NEW u \in Task \ {t} PROVE Faithful(task[u])'
      <3>1. \/ /\ task[u].pc # "read"
               /\ task[u].pc \notin {"waiting", "loaded"} \/ task[u].patch \/ task[t].key = Pools
            \/ {t, u} \subseteq Editors /\ ~task[u].here
        BY <2>2 DEF Crosses
      <3>2. CASE {t, u} \subseteq Editors /\ ~task[u].here
        <4>1. task[u].pc \notin {"waiting", "loaded", "read"}
          BY <1>1, <3>2 DEF Serial
        <4> QED BY <1>1, <1>2, <4>1 DEF Types, Rewrite, Faithful
      <3>3. CASE /\ task[u].pc # "read"
                 /\ task[u].pc \notin {"waiting", "loaded"} \/ task[u].patch \/ task[t].key = Pools
        <4>1. task[u].pc = "idle" \/ task[u].patch \/ task[t].key = Pools
          BY <1>1, <3>3 DEF Types, Rewrite
        <4>2. CASE task[u].pc = "idle" \/ task[u].patch
          BY <1>2, <3>3, <4>2 DEF Faithful
        <4>3. CASE task[t].key = Pools
          <5>1. \A k \in Keys : file'[k] = file[k]
            BY <2>4, <4>3, KeyFacts DEF AllKeys
          <5>2. Faithful(task[u])
            BY <2>3
          <5> QED BY <1>2, <3>3, <5>1, <5>2 DEF Faithful
        <4> QED BY <4>1, <4>2, <4>3
      <3> QED BY <3>1, <3>2, <3>3
    <2>7. Faithful(task[t])'
      BY <1>2 DEF Faithful
    <2> QED BY <2>5, <2>6, <2>7
  <1> QED BY <1>5, <1>6, <1>7 DEF KeptInv

LEMMA WriteFailsKeeps ==
  ASSUME Apart, KeptInv, NEW t \in Task, WriteFails(t)
  PROVE  KeptInv'
  <1>1. /\ Types /\ Serial /\ task[t].pc = "read"
        /\ task' = [task EXCEPT ![t] = NoRewrite] /\ Adopts(t) /\ Unlocks(t)
        /\ UNCHANGED <<file, latest, reload, overlap>>
    BY DEF KeptInv, WriteFails
  <1>2. /\ task' \in [Task -> Rewrite] /\ \A u \in Task \ {t} : task'[u] = task[u]
        /\ task'[t].pc = "idle"
        /\ mem' \in [Keys -> Nat] /\ lock' \in Editors \cup {Nobody}
    BY <1>1, Drops
  <1>3. changes' \in [changes : Nat, fails : Nat] /\ behind' \in BOOLEAN
    BY <1>1 DEF WriteFails, Types
  <1>4. Types'
    BY <1>1, <1>2, <1>3 DEF Types
  <1>5. Serial'
    BY <1>1, <1>2, DropsSerial
  <1>6. Kept'
    BY <1>1, <1>2 DEF KeptInv, Kept, Faithful
  <1> QED BY <1>4, <1>5, <1>6 DEF KeptInv

LEMMA ReloadKeeps == ASSUME KeptInv, Reload PROVE KeptInv'
  <1>1. Types /\ UNCHANGED <<file, latest, task, lock, changes, behind, overlap>> /\ mem' = OnDisk /\ reload' = FALSE
    BY DEF KeptInv, Reload
  <1>2. Types'
    BY <1>1, OnDiskType DEF Types
  <1>3. Serial' /\ Kept'
    BY <1>1 DEF KeptInv, Serial, Kept, Faithful
  <1> QED BY <1>2, <1>3 DEF KeptInv

LEMMA RestartKeeps == ASSUME Apart, KeptInv, SettingsRestart PROVE KeptInv'
  <1>1. /\ Types /\ UNCHANGED <<file, latest, changes, overlap>> /\ mem' = OnDisk /\ reload' = FALSE
        /\ behind' = FALSE /\ lock' = Nobody
        /\ task' = [t \in Task |-> IF t = "cli" THEN task[t] ELSE NoRewrite]
    BY DEF KeptInv, SettingsRestart
  <1>2. NoRewrite.pc = "idle" /\ "cli" \in Task
    BY DEF NoRewrite, Task
  <1>3. task' \in [Task -> Rewrite]
    BY <1>1, IdleType DEF Types
  <1>4. \A t \in Task : task'[t] = task[t] \/ task'[t].pc = "idle"
    BY <1>1, <1>2
  <1>5. Types'
    BY <1>1, <1>3, OnDiskType DEF Types
  <1>6. Serial'
    <2>1. \A e \in Editors : task'[e].pc = "idle" /\ e # Nobody /\ e \in Task
      BY <1>1, <1>2 DEF Apart, Task
    <2>2. \A t \in Task : task'[t].pc = "waiting" => task'[t].here /\ ~task'[t].patch
      BY <1>4 DEF KeptInv, Serial
    <2> QED BY <1>1, <2>1, <2>2 DEF Serial
  <1>7. Kept'
    BY <1>1, <1>4 DEF KeptInv, Kept, Faithful
  <1> QED BY <1>5, <1>6, <1>7 DEF KeptInv

LEMMA KeptStep == ASSUME Apart, KeptInv, [SettingsNext]_settingsVars PROVE KeptInv'
  <1>1. CASE UNCHANGED settingsVars
    BY <1>1 DEF settingsVars, KeptInv, Types, Serial, Kept, Faithful
  <1>2. CASE OwnerCommand \/ SavePools \/ PumpChanges \/ CliChanges
    BY <1>2, OwnerCommandKeeps, SavePoolsKeeps, PumpChangesKeeps, CliChangesKeeps
  <1>3. CASE Reload \/ SettingsRestart
    BY <1>3, ReloadKeeps, RestartKeeps
  <1>4. CASE \E e \in Editors : Edit(e)
    BY <1>4, EditAccessKeeps, EndUpdateKeeps, SetProjectHereKeeps, TakesLockKeeps DEF Edit
  <1>5. CASE \E t \in Task : Read(t) \/ Write(t) \/ WriteFails(t)
    BY <1>5, ReadKeeps, WriteKeeps, WriteFailsKeeps
  <1> QED BY <1>1, <1>2, <1>3, <1>4, <1>5 DEF SettingsNext

-----------------------------------------------------------------------------
(* The loop goes by the file.                                              *)

\* What the others take up does not concern it
LEMMA LoopIsElsewhere ==
  ASSUME LoopInv, UNCHANGED <<file, mem, reload, behind>>, UNCHANGED Loop
  PROVE  LoopKnows'
  BY DEF LoopInv, LoopKnows, Loop

LEMMA LoopTakesUp ==
  ASSUME Apart, LoopInv, OwnerCommand \/ SavePools
  PROVE  LoopKnows'
  <1>1. /\ Types /\ mem \in [Keys -> Nat] /\ "loop" \in Task /\ Loop.pc = "idle"
        /\ UNCHANGED <<file, mem, latest, lock, reload, behind>>
    BY DEF LoopInv, KeptInv, Types, Task, Loop, Quiet, OwnerCommand, SavePools
  <1>2. Fresh \in Nat /\ Fresh # 0
    BY <1>1, CountEffect DEF OwnerCommand, SavePools
  <1>3. CASE OwnerCommand
    <2>1. PICK k \in Keys : Loads("loop", mem, k, Fresh)
      BY <1>3 DEF OwnerCommand
    <2>2. /\ task'["loop"].pc = "loaded" /\ ~task'["loop"].patch /\ task'["loop"].key = k
          /\ task'["loop"].copy[k] = Fresh
          /\ \A j \in Keys \ {k} : task'["loop"].copy[j] = mem[j]
      BY <1>1, <1>2, <2>1, LoadsEffect
    <2> QED BY <1>1, <1>2, <2>2 DEF LoopInv, LoopKnows, Loop
  <1>4. CASE SavePools
    <2>1. task'["loop"].pc = "loaded" /\ task'["loop"].patch /\ task'["loop"].key = Pools
      BY <1>1, <1>2, <1>4, KeyFacts, PatchesEffect DEF SavePools
    <2> QED BY <1>1, <2>1 DEF LoopInv, LoopKnows, Loop
  <1> QED BY <1>3, <1>4

LEMMA OthersTakeUp ==
  ASSUME Apart, LoopInv, PumpChanges \/ CliChanges \/ \E e \in Editors : Edit(e)
  PROVE  LoopKnows'
  <1>1. \E t \in Task : t # "loop" /\ \E x : task' = [task EXCEPT ![t] = x]
    BY DEF PumpChanges, CliChanges, Edit, EditAccess, EndUpdate, SetProjectHere, TakesLock,
           Loads, Patches, ClearKey, Task, Apart
  <1>2. UNCHANGED Loop
    BY <1>1 DEF Loop, LoopInv, KeptInv, Types, Task
  <1>3. UNCHANGED <<file, mem, reload, behind>>
    BY DEF PumpChanges, CliChanges, Edit, EditAccess, EndUpdate, SetProjectHere, TakesLock
  <1> QED BY <1>2, <1>3, LoopIsElsewhere

LEMMA LoopReads == ASSUME LoopInv, NEW t \in Task, Read(t) PROVE LoopKnows'
  <1>1. /\ task[t].pc = "loaded" /\ task \in [Task -> Rewrite] /\ "loop" \in Task
        /\ task' = [task EXCEPT ![t].pc = "read", ![t].root = file]
        /\ UNCHANGED <<file, mem, reload, behind>>
    BY DEF LoopInv, KeptInv, Types, Read, Task
  <1>2. CASE t # "loop"
    BY <1>1, <1>2, LoopIsElsewhere DEF Loop
  <1>3. CASE t = "loop"
    <2> DEFINE x == [task[t] EXCEPT !.pc = "read", !.root = file]
    <2>1. /\ x.pc = "read" /\ x.root = file /\ x.key = task[t].key /\ x.patch = task[t].patch
          /\ x.copy = task[t].copy
      BY <1>1 DEF Rewrite
    <2>2. task' = [task EXCEPT ![t] = x]
      BY <1>1 DEF Rewrite
    <2> HIDE DEF x
    <2>3. task'["loop"] = x
      BY <1>1, <1>3, <2>2
    <2> QED BY <1>1, <1>3, <2>1, <2>3 DEF LoopInv, LoopKnows, Loop
  <1> QED BY <1>2, <1>3

\* The loop goes by what it wrote; whoever else writes leaves a note, or is the
\* command line
LEMMA LoopWrites == ASSUME Apart, LoopInv, NEW t \in Task, Write(t) PROVE LoopKnows'
  <1>1. /\ Types /\ task[t] \in Rewrite /\ task[t].pc = "read" /\ "loop" \in Task
        /\ task' = [task EXCEPT ![t] = NoRewrite] /\ Adopts(t) /\ Unlocks(t)
        /\ file' = Written(task[t]) /\ reload' = Tells(t) /\ behind' = (behind \/ t = "cli")
    BY DEF LoopInv, KeptInv, Types, Write, Task
  <1>2. (\A u \in Task \ {t} : task'[u] = task[u]) /\ task'[t].pc = "idle"
    BY <1>1, Drops
  <1>3. CASE t # "loop"
    <2>1. reload' \/ behind'
      BY <1>1, <1>3 DEF Tells
    <2> QED BY <1>1, <1>2, <1>3, <2>1 DEF LoopInv, LoopKnows, Loop
  <1>4. CASE t = "loop"
    <2>1. SUFFICES ASSUME ~reload', ~behind' PROVE \A k \in Keys : mem'[k] = file'[k]
      BY <1>2, <1>4 DEF LoopKnows, Loop
    <2>2. ~reload /\ ~behind
      BY <1>1, <2>1 DEF Tells
    <2>3. task[t].root = file
      BY <1>1, <1>4, <2>2 DEF LoopInv, LoopKnows, Loop
    <2>4. CASE task[t].patch
      <3>1. task[t].key = Pools /\ (\A k \in Keys : mem[k] = file[k]) /\ mem' = mem
        BY <1>1, <1>4, <2>2, <2>4 DEF LoopInv, LoopKnows, Loop, Adopts
      <3> QED BY <1>1, <2>3, <2>4, <3>1, KeyFacts DEF Written, Rewrite, AllKeys
    <2>5. CASE ~task[t].patch
      <3>1. /\ task[t].key \in Keys /\ task[t].copy[task[t].key] # 0
            /\ \A k \in Keys \ {task[t].key} : task[t].copy[k] = file[k]
        BY <1>1, <1>4, <2>2, <2>5 DEF LoopInv, LoopKnows, Loop
      <3>2. mem' = task[t].copy
        BY <1>1, <1>4, <2>5 DEF Adopts
      <3>3. \A k \in Keys : Laid(task[t], k) = task[t].copy[k]
        BY <2>3, <3>1, KeyFacts DEF Laid
      <3> QED BY <1>1, <2>5, <3>2, <3>3 DEF Written, AllKeys
    <2> QED BY <2>4, <2>5
  <1> QED BY <1>3, <1>4

LEMMA LoopFails == ASSUME Apart, LoopInv, NEW t \in Task, WriteFails(t) PROVE LoopKnows'
  <1>1. /\ Types /\ task[t].pc = "read" /\ "loop" \in Task
        /\ task' = [task EXCEPT ![t] = NoRewrite] /\ Adopts(t) /\ Unlocks(t)
        /\ behind' = (behind \/ (t = "loop" /\ ~task[t].patch)) /\ UNCHANGED <<file, reload>>
    BY DEF LoopInv, KeptInv, WriteFails, Task
  <1>2. (\A u \in Task \ {t} : task'[u] = task[u]) /\ task'[t].pc = "idle"
    BY <1>1, Drops
  <1>3. CASE t # "loop"
    <2>1. mem' = mem /\ (behind' <=> behind) /\ task'["loop"] = task["loop"]
      BY <1>1, <1>2, <1>3 DEF Adopts
    <2> QED BY <1>1, <2>1 DEF LoopInv, LoopKnows, Loop
  <1>4. CASE t = "loop" /\ task[t].patch
    <2>1. mem' = mem /\ (behind' <=> behind)
      BY <1>1, <1>4 DEF Adopts
    <2> QED BY <1>1, <1>2, <1>4, <2>1 DEF LoopInv, LoopKnows, Loop
  <1>5. CASE t = "loop" /\ ~task[t].patch
    BY <1>1, <1>2, <1>5 DEF LoopKnows, Loop
  <1> QED BY <1>3, <1>4, <1>5

LEMMA LoopRereads == ASSUME Apart, LoopInv, Reload \/ SettingsRestart PROVE LoopKnows'
  <1>1. Types /\ "loop" \in Task /\ mem' = OnDisk /\ file' = file
    BY DEF LoopInv, KeptInv, Reload, SettingsRestart, Task
  <1>2. \A k \in Keys : mem'[k] = file'[k]
    BY <1>1, OnDiskType
  <1>3. task'["loop"].pc = "idle"
    BY <1>1 DEF Reload, SettingsRestart, Quiet, NoRewrite
  <1> QED BY <1>2, <1>3 DEF LoopKnows, Loop

LEMMA LoopStep == ASSUME Apart, LoopInv, [SettingsNext]_settingsVars PROVE LoopInv'
  <1>1. KeptInv'
    BY KeptStep DEF LoopInv
  <1> SUFFICES LoopKnows'
    BY <1>1 DEF LoopInv
  <1>2. CASE UNCHANGED settingsVars
    BY <1>2, LoopIsElsewhere DEF settingsVars, Loop
  <1>3. CASE OwnerCommand \/ SavePools \/ PumpChanges \/ CliChanges \/ \E e \in Editors : Edit(e)
    BY <1>3, LoopTakesUp, OthersTakeUp
  <1>4. CASE Reload \/ SettingsRestart
    BY <1>4, LoopRereads
  <1>5. CASE \E t \in Task : Read(t) \/ Write(t) \/ WriteFails(t)
    BY <1>5, LoopReads, LoopWrites, LoopFails
  <1> QED BY <1>2, <1>3, <1>4, <1>5 DEF SettingsNext

\* Whoever rewrites access.json, a setting stays what it was last set to unless
\* two rewrites crossed that nothing keeps apart; and with no note unread the
\* Bridge goes by what is in the file. (Access::save, edit_access, patch_json,
\* adopt_access, reload_from_disk)
THEOREM SettingsAlwaysHold == ASSUME Apart PROVE SettingsSpec => []SettingsHold
  <1>1. SettingsInit => LoopInv
    <2> SUFFICES ASSUME SettingsInit PROVE LoopInv
      OBVIOUS
    <2>1. "loop" \in Task /\ NoRewrite.pc = "idle"
      BY DEF Task, NoRewrite
    <2>2. KeptInv
      BY KeptInit
    <2>3. LoopKnows
      BY <2>1, KeyFacts DEF SettingsInit, LoopKnows, Loop, Settled, AllKeys
    <2> QED BY <2>2, <2>3 DEF LoopInv
  <1>2. LoopInv /\ [SettingsNext]_settingsVars => LoopInv'
    BY LoopStep
  <1>3. LoopInv => SettingsHold
    <2> SUFFICES ASSUME LoopInv PROVE SettingsHold
      OBVIOUS
    <2>1. Types /\ SettingsKept
      BY DEF LoopInv, KeptInv, Kept, SettingsKept
    <2>2. ASSUME ~reload, Quiet("loop"), ~behind PROVE mem = OnDisk
      <3>1. \A k \in Keys : mem[k] = file[k]
        BY <2>2 DEF LoopInv, LoopKnows, Loop, Quiet
      <3>2. OnDisk \in [Keys -> Nat] /\ \A k \in Keys : OnDisk[k] = file[k]
        BY <2>1, OnDiskType
      <3> QED BY <2>1, <3>1, <3>2 DEF Types
    <2> QED BY <2>1, <2>2 DEF SettingsHold, LoopGoesByTheFile
  <1> QED BY <1>1, <1>2, <1>3, PTL DEF SettingsSpec
=============================================================================
