--------------------------- MODULE KeepingProofs ---------------------------
(***************************************************************************)
(* Theorems about four small components, which share no state and stand    *)
(* here one after the other: Presence for every bound on the requests, the *)
(* calls queued for Slack, the commands and the faults; Usage for every    *)
(* number of windows, answers and faults; SignIn for every set of people   *)
(* and every number of sign-ins, codes, sign-outs and restarts; Terminal   *)
(* for every set of forms and of values, and every number of rows, modes,  *)
(* tasks and events.                                                       *)
(***************************************************************************)
EXTENDS Presence, Usage, SignIn, Terminal, SequenceTheorems, FiniteSetTheorems, TLAPS

-----------------------------------------------------------------------------
(* The working indicator (Presence).                                       *)

\* What Slack will show once the queue is worked off
Final == IF wire = <<>> THEN shown ELSE wire[Len(wire)]

\* The book remembers what its holders add up to, and a thread that waits for a
\* person holds the person's reason
BookAdds ==
    /\ lastSent # "unknown" => lastSent = PresenceOf(reasons)
    /\ reasons # {} => lastSent # "unknown"
    /\ stall = "asked" => "perm" \in reasons

\* What was sent last is what Slack will show, but for what a command's end has
\* yet to send, a call out of order, and a last call that failed
QueueTells ==
    /\ late # "unknown" => command = "ending"
    /\ late = "unknown" /\ lastSent # "unknown" /\ "overtaken" \notin slipped
          /\ (wire # <<>> \/ "lost" \notin slipped)
       => Final = lastSent

PInv == TypeOK /\ TurnIsWatched /\ BookAdds /\ QueueTells

LEMMA PresenceType == ASSUME NEW rs PROVE PresenceOf(rs) \in Shows
  BY DEF PresenceOf, Shows

LEMMA KnownShows == "unknown" \notin Shows
  BY DEF Shows

\* A call is queued behind the others
LEMMA Queued ==
  ASSUME TypeOK, NEW p \in Shows, Len(wire) < MaxWire, wire' = Append(wire, p)
  PROVE  wire' \in Seq(Shows) /\ Len(wire') <= MaxWire /\ Final' = p /\ wire' # <<>>
  <1>1. wire \in Seq(Shows) /\ MaxWire \in Nat
    BY PresenceBoundAssumption DEF TypeOK
  <1>2. wire' \in Seq(Shows) /\ Len(wire') = Len(wire) + 1 /\ wire'[Len(wire) + 1] = p /\ Len(wire) \in Nat
    BY <1>1
  <1>3. wire' # <<>>
    BY <1>2
  <1> QED BY <1>1, <1>2, <1>3 DEF Final

\* What the book does to the queue, and to a call that came out of order
LEMMA BookEffect ==
  ASSUME TypeOK, QueueTells, NEW rs \in SUBSET Reason, Book(rs), shown' = shown
  PROVE  /\ reasons' = rs /\ lastSent' = PresenceOf(rs) /\ lastSent' \in Shows /\ lastSent' # "unknown"
         /\ wire' \in Seq(Shows) /\ Len(wire') <= MaxWire
         /\ Resent(rs) \subseteq slipped /\ slipped \ {"overtaken"} \subseteq Resent(rs)
         /\ late = "unknown" /\ "overtaken" \notin Resent(rs) /\ (wire' # <<>> \/ "lost" \notin slipped)
               => Final' = lastSent'
  <1>1. reasons' = rs /\ lastSent' = PresenceOf(rs) /\ PresenceOf(rs) \in Shows /\ PresenceOf(rs) # "unknown"
    BY PresenceType, KnownShows DEF Book
  <1>2. CASE lastSent = PresenceOf(rs)
    <2>1. wire' = wire /\ Resent(rs) = slipped
      BY <1>2 DEF Book, Resent
    <2>2. Final' = Final
      BY <2>1 DEF Final
    <2> QED BY <1>1, <1>2, <2>1, <2>2 DEF TypeOK, QueueTells
  <1>3. CASE lastSent # PresenceOf(rs)
    <2>1. Len(wire) < MaxWire /\ wire' = Append(wire, PresenceOf(rs)) /\ Resent(rs) = slipped \ {"overtaken"}
      BY <1>3 DEF Book, Resent
    <2> QED BY <1>1, <2>1, Queued
  <1> QED BY <1>2, <1>3

\* One event of the loop
LEMMA StepKeeps ==
  ASSUME PInv, NEW rs \in SUBSET Reason, NEW st \in StallStage, NEW k \in 0 .. MaxOwed, Step(rs, st, k),
         prompt' \in BOOLEAN, "command" \in reasons => "command" \in rs,
         "turn" \in rs /\ "untended" \notin slipped => k > 0 \/ st # "none",
         st = "asked" => "perm" \in rs
  PROVE  PInv'
  <1>1. /\ TypeOK /\ QueueTells /\ Book(rs) /\ stall' = st /\ owed' = k /\ slipped' = Slipped(rs, st, k)
        /\ UNCHANGED <<command, late, shown, commands, faults>>
    BY DEF PInv, Step
  <1>2. /\ reasons' = rs /\ lastSent' = PresenceOf(rs) /\ lastSent' \in Shows /\ lastSent' # "unknown"
        /\ wire' \in Seq(Shows) /\ Len(wire') <= MaxWire
        /\ Resent(rs) \subseteq slipped /\ slipped \ {"overtaken"} \subseteq Resent(rs)
        /\ late = "unknown" /\ "overtaken" \notin Resent(rs) /\ (wire' # <<>> \/ "lost" \notin slipped)
              => Final' = lastSent'
    BY <1>1, BookEffect
  <1>3. /\ slipped' \subseteq Slips
        /\ "overtaken" \in Resent(rs) => "overtaken" \in slipped'
        /\ "lost" \in slipped => "lost" \in slipped'
        /\ "untended" \in slipped /\ "untended" \notin slipped' => ~("turn" \in rs /\ k = 0 /\ st = "none")
    BY <1>1, <1>2 DEF Slipped, TypeOK, Slips
  <1>4. TypeOK'
    BY <1>1, <1>2, <1>3 DEF TypeOK
  <1>5. TurnIsWatched'
    <2>1. k = 0 \/ k > 0
      BY PresenceBoundAssumption
    <2> QED BY <1>1, <1>2, <1>3, <2>1 DEF TurnIsWatched
  <1>6. BookAdds'
    BY <1>1, <1>2 DEF BookAdds
  <1>7. QueueTells'
    BY <1>1, <1>2, <1>3 DEF QueueTells
  <1> QED BY <1>4, <1>5, <1>6, <1>7 DEF PInv

-----------------------------------------------------------------------------
(* The turn and the person asked: steps of the loop.                       *)

LEMMA TouchedType ==
  ASSUME TypeOK, NEW k \in 0 .. MaxOwed
  PROVE  /\ Touched(k) \in StallStage /\ (Touched(k) = "asked" => stall = "asked")
         /\ Touched(k) = "none" => stall = "none" /\ k = 0
  BY DEF Touched, StallStage, TypeOK

LEMMA TurnKeeps ==
  ASSUME PInv, Serve \/ Handed \/ Hook \/ Answered \/ Told
  PROVE  PInv'
  <1>1. /\ TypeOK /\ owed \in 0 .. MaxOwed /\ reasons \in SUBSET Reason /\ stall \in StallStage /\ prompt \in BOOLEAN
        /\ stall = "asked" => "perm" \in reasons
        /\ "turn" \in reasons /\ "untended" \notin slipped => owed > 0 \/ stall # "none"
        /\ MaxOwed \in Nat
    BY PresenceBoundAssumption DEF PInv, TypeOK, BookAdds, TurnIsWatched
  <1>2. "none" \in StallStage /\ reasons \cup {"turn"} \in SUBSET Reason /\ reasons \ {"turn"} \in SUBSET Reason
    BY <1>1 DEF StallStage, Reason
  <1>3. CASE Serve
    <2>1. owed + 1 \in 0 .. MaxOwed /\ owed + 1 > 0 /\ prompt' = prompt
      BY <1>1, <1>3 DEF Serve
    <2>2. PICK st \in {stall, Touched(owed + 1)} : Step(reasons \cup {"turn"}, st, owed + 1)
      BY <1>3 DEF Serve
    <2>3. st \in StallStage /\ (st = "asked" => stall = "asked")
      BY <1>1, <2>1, <2>2, TouchedType
    <2> QED BY <1>1, <1>2, <2>1, <2>2, <2>3, StepKeeps
  <1>4. CASE Handed
    <2>1. Touched(owed) # "none" /\ Step(reasons \cup {"turn"}, Touched(owed), owed) /\ prompt' = prompt
      BY <1>4 DEF Handed
    <2>2. Touched(owed) \in StallStage /\ (Touched(owed) = "asked" => stall = "asked")
      BY <1>1, TouchedType
    <2> QED BY <1>1, <1>2, <2>1, <2>2, StepKeeps
  <1>5. CASE Hook
    <2>1. Step(reasons, Touched(owed), owed) /\ prompt' = prompt
      BY <1>5 DEF Hook
    <2>2. Touched(owed) \in StallStage /\ (Touched(owed) = "asked" => stall = "asked")
          /\ (Touched(owed) = "none" => stall = "none" /\ owed = 0)
      BY <1>1, TouchedType
    <2>3. "turn" \in reasons /\ "untended" \notin slipped => owed > 0 \/ Touched(owed) # "none"
      BY <1>1, <2>2
    <2> QED BY <1>1, <2>1, <2>2, <2>3, StepKeeps
  <1>6. CASE Answered
    <2>1. PICK k \in 0 .. owed : Step(reasons \ {"turn"}, "none", k) /\ prompt' = prompt
      BY <1>6 DEF Answered
    <2>2. k \in 0 .. MaxOwed
      BY <1>1
    <2> QED BY <1>1, <1>2, <2>1, <2>2, StepKeeps
  <1>7. CASE Told
    <2>1. Step(reasons \ {"turn"}, "none", 0) /\ prompt' = prompt /\ 0 \in 0 .. MaxOwed
      BY <1>1, <1>7 DEF Told
    <2> QED BY <1>1, <1>2, <2>1, StepKeeps
  <1> QED BY <1>3, <1>4, <1>5, <1>6, <1>7

LEMMA WatchKeeps ==
  ASSUME PInv, StallTick \/ SuspendStall \/ Click \/ Expire \/ TurnEnds
  PROVE  PInv'
  <1>1. /\ owed \in 0 .. MaxOwed /\ reasons \in SUBSET Reason /\ stall \in StallStage /\ prompt \in BOOLEAN
        /\ "turn" \in reasons /\ "untended" \notin slipped => owed > 0 \/ stall # "none"
        /\ MaxOwed \in Nat
    BY PresenceBoundAssumption DEF PInv, TypeOK, BookAdds, TurnIsWatched
  <1>2. /\ {"none", "watch", "fired", "asked"} = StallStage
        /\ reasons \ {"turn"} \in SUBSET Reason /\ reasons \ {"perm"} \in SUBSET Reason
        /\ reasons \cup {"perm"} \in SUBSET Reason
    BY <1>1 DEF StallStage, Reason
  <1> DEFINE on == IF stall = "none" THEN "none" ELSE "watch"
  <1>3. on \in StallStage /\ on # "asked" /\ (on = "none" => stall = "none")
    BY <1>2
  <1>4. prompt' \in BOOLEAN
    BY <1>1 DEF StallTick, SuspendStall, Click, Expire, TurnEnds
  <1>5. CASE StallTick
    <2>1. CASE Settle /\ Step(reasons \ {"turn"}, "none", owed)
      BY <1>1, <1>2, <1>4, <2>1, StepKeeps
    <2>2. CASE Fire /\ Step(reasons, "fired", owed)
      BY <1>1, <1>2, <1>4, <2>2, StepKeeps DEF Fire
    <2> QED BY <1>5, <2>1, <2>2 DEF StallTick
  <1>6. CASE SuspendStall
    <2>1. CASE stall = "none" /\ Step(reasons, "none", owed)
      BY <1>1, <1>2, <1>4, <2>1, StepKeeps
    <2>2. CASE Step(reasons \cup {"perm"}, "asked", owed)
      BY <1>1, <1>2, <1>4, <2>2, StepKeeps
    <2> QED BY <1>6, <2>1, <2>2 DEF SuspendStall
  <1>7. CASE Click
    <2>1. PICK rs \in {reasons, reasons \ {"perm"}} : Step(rs, on, owed)
      BY <1>7 DEF Click
    <2>2. "turn" \in rs /\ "untended" \notin slipped => owed > 0 \/ on # "none"
      BY <1>1, <1>3, <2>1
    <2> HIDE DEF on
    <2> QED BY <1>1, <1>2, <1>3, <1>4, <2>1, <2>2, StepKeeps
  <1>8. CASE Expire \/ TurnEnds
    <2>1. Step(reasons, on, owed)
      BY <1>8 DEF Expire, TurnEnds
    <2>2. "turn" \in reasons /\ "untended" \notin slipped => owed > 0 \/ on # "none"
      BY <1>1, <1>3
    <2> HIDE DEF on
    <2> QED BY <1>1, <1>3, <1>4, <2>1, <2>2, StepKeeps
  <1> QED BY <1>5, <1>6, <1>7, <1>8

LEMMA SweptKeeps == ASSUME PInv, Swept PROVE PInv'
  <1>1. /\ TypeOK /\ TurnIsWatched /\ BookAdds /\ QueueTells /\ owed \in 0 .. MaxOwed
    BY DEF PInv, TypeOK
  <1>2. PICK k \in 0 .. owed - 1 :
          /\ owed' = k
          /\ slipped' = IF k = 0 /\ stall = "none" /\ "turn" \in reasons
                        THEN slipped \cup {"untended"} ELSE slipped
    BY DEF Swept
  <1>3. UNCHANGED <<stall, prompt, reasons, lastSent, wire, command, late, shown, commands, faults>>
    BY DEF Swept, book
  <1>4. owed' \in 0 .. MaxOwed
    BY <1>1, <1>2, PresenceBoundAssumption
  <1>5. slipped \subseteq slipped' /\ slipped' \subseteq Slips
        /\ (slipped' \cap {"overtaken", "lost"} = slipped \cap {"overtaken", "lost"})
    BY <1>1, <1>2 DEF TypeOK, Slips
  <1>6. TypeOK'
    BY <1>1, <1>3, <1>4, <1>5 DEF TypeOK
  <1>7. TurnIsWatched'
    <2>1. k = 0 \/ k > 0
      BY <1>1
    <2> QED BY <1>1, <1>2, <1>3, <2>1 DEF TurnIsWatched
  <1>8. BookAdds' /\ QueueTells'
    BY <1>1, <1>3, <1>5 DEF BookAdds, QueueTells, Final
  <1> QED BY <1>6, <1>7, <1>8 DEF PInv

-----------------------------------------------------------------------------
(* A command, the calls to Slack, a restart.                               *)

LEMMA HoldKeeps == ASSUME PInv, PresenceHold PROVE PInv'
  <1>1. /\ TypeOK /\ TurnIsWatched /\ BookAdds /\ QueueTells /\ reasons \cup {"command"} \in SUBSET Reason
        /\ Book(reasons \cup {"command"}) /\ command = "none" /\ command' = "running"
        /\ commands < MaxCommands /\ commands' = commands + 1
        /\ slipped' = Resent(reasons \cup {"command"})
        /\ UNCHANGED <<owed, stall, prompt, late, shown, faults>>
    BY DEF PInv, TypeOK, PresenceHold, Reason
  <1>2. /\ reasons' = reasons \cup {"command"} /\ lastSent' = PresenceOf(reasons')
        /\ lastSent' \in Shows /\ lastSent' # "unknown"
        /\ wire' \in Seq(Shows) /\ Len(wire') <= MaxWire
        /\ slipped' \subseteq slipped /\ slipped \ {"overtaken"} \subseteq slipped'
        /\ late = "unknown" /\ "overtaken" \notin slipped' /\ (wire' # <<>> \/ "lost" \notin slipped)
              => Final' = lastSent'
    BY <1>1, BookEffect
  <1>3. commands' \in 0 .. MaxCommands /\ command' \in CommandStage /\ "command" \in reasons'
    BY <1>1, <1>2, PresenceBoundAssumption DEF TypeOK, CommandStage
  <1>4. TypeOK'
    BY <1>1, <1>2, <1>3 DEF TypeOK
  <1>6. /\ "turn" \in reasons' => "turn" \in reasons
        /\ "untended" \notin slipped' => "untended" \notin slipped
        /\ "lost" \notin slipped' => "lost" \notin slipped
    BY <1>2
  <1>5. TurnIsWatched' /\ BookAdds' /\ QueueTells'
    BY <1>1, <1>2, <1>6 DEF TurnIsWatched, BookAdds, QueueTells
  <1> QED BY <1>4, <1>5 DEF PInv

LEMMA DropLockKeeps == ASSUME PInv, DropLock PROVE PInv'
  <1> DEFINE now == PresenceOf(reasons \ {"command"})
  <1>1. /\ TypeOK /\ TurnIsWatched /\ BookAdds /\ QueueTells
        /\ command = "running" /\ command' = "ending"
        /\ reasons' = reasons \ {"command"} /\ lastSent' = now
        /\ late' = IF lastSent = now THEN "unknown" ELSE now
        /\ UNCHANGED <<owed, stall, prompt, wire, shown, commands, faults, slipped>>
    BY DEF PInv, DropLock
  <1>2. now \in Shows /\ now # "unknown"
    BY PresenceType, KnownShows
  <1>3. lastSent' = PresenceOf(reasons')
    BY <1>1
  <1> HIDE DEF now
  <1>4. TypeOK'
    BY <1>1, <1>2 DEF TypeOK, CommandStage
  <1>5. TurnIsWatched' /\ BookAdds'
    BY <1>1, <1>2, <1>3 DEF TurnIsWatched, BookAdds
  <1>6. late = "unknown"
    BY <1>1 DEF QueueTells
  <1>7. QueueTells'
    <2>1. Final' = Final
      BY <1>1 DEF Final
    <2> QED BY <1>1, <1>2, <1>6, <2>1 DEF QueueTells
  <1> QED BY <1>4, <1>5, <1>7 DEF PInv

LEMMA DropSendKeeps == ASSUME PInv, DropSend PROVE PInv'
  <1>1. /\ TypeOK /\ TurnIsWatched /\ BookAdds /\ QueueTells
        /\ command = "ending" /\ command' = "none" /\ late' = "unknown"
        /\ UNCHANGED <<owed, stall, prompt, reasons, lastSent, shown, commands, faults>>
    BY DEF PInv, DropSend
  <1>2. CASE late = "unknown"
    <2>1. UNCHANGED <<wire, slipped>>
      BY <1>2 DEF DropSend
    <2>2. TypeOK' /\ TurnIsWatched' /\ BookAdds'
      BY <1>1, <2>1 DEF TypeOK, CommandStage, Shows, TurnIsWatched, BookAdds
    <2>3. Final' = Final
      BY <1>1, <2>1 DEF Final
    <2>4. QueueTells'
      BY <1>1, <1>2, <2>1, <2>3 DEF QueueTells
    <2> QED BY <2>2, <2>4 DEF PInv
  <1>3. CASE late # "unknown"
    <2>1. /\ Len(wire) < MaxWire /\ wire' = Append(wire, late) /\ late \in Shows
          /\ slipped' = IF late # lastSent THEN slipped \cup {"overtaken"} ELSE slipped \ {"overtaken"}
      BY <1>1, <1>3 DEF DropSend, TypeOK
    <2>2. wire' \in Seq(Shows) /\ Len(wire') <= MaxWire /\ Final' = late
      BY <1>1, <2>1, Queued
    <2>3. TypeOK'
      BY <1>1, <2>1, <2>2 DEF TypeOK, CommandStage, Slips
    <2>4. TurnIsWatched' /\ BookAdds'
      BY <1>1, <2>1 DEF TurnIsWatched, BookAdds
    <2>5. QueueTells'
      BY <1>1, <2>1, <2>2 DEF QueueTells
    <2> QED BY <2>3, <2>4, <2>5 DEF PInv
  <1> QED BY <1>2, <1>3

\* The call queued last stays the last
LEMMA LastStays ==
  ASSUME NEW w \in Seq(Shows), w # <<>>, Tail(w) # <<>>
  PROVE  Tail(w)[Len(Tail(w))] = w[Len(w)]
  <1>1. Len(w) \in Nat /\ Len(Tail(w)) = Len(w) - 1 /\ Len(w) > 1
    <2>1. Len(w) \in Nat /\ Len(w) # 0 /\ Tail(w) \in Seq(Shows) /\ Len(Tail(w)) = Len(w) - 1
      OBVIOUS
    <2>2. Len(Tail(w)) # 0
      BY <2>1
    <2> QED BY <2>1, <2>2
  <1>2. \A i \in 1 .. Len(w) - 1 : Tail(w)[i] = w[i + 1]
    OBVIOUS
  <1>3. Len(w) - 1 \in 1 .. Len(w) - 1 /\ (Len(w) - 1) + 1 = Len(w)
    BY <1>1
  <1> QED BY <1>1, <1>2, <1>3

LEMMA SetPresenceKeeps == ASSUME PInv, SetPresence PROVE PInv'
  <1>1. /\ TypeOK /\ TurnIsWatched /\ BookAdds /\ QueueTells
        /\ wire \in Seq(Shows) /\ wire # <<>> /\ wire' = Tail(wire) /\ MaxFaults \in Nat
        /\ UNCHANGED <<owed, stall, prompt, reasons, lastSent, command, late, commands>>
    BY PresenceBoundAssumption DEF PInv, SetPresence, TypeOK
  <1>2. /\ Head(wire) \in Shows /\ Tail(wire) \in Seq(Shows) /\ Len(Tail(wire)) = Len(wire) - 1 /\ Len(wire) \in Nat
    BY <1>1
  <1>3. CASE shown' = Head(wire) /\ slipped' = slipped \ {"lost"} /\ UNCHANGED faults
    <2>1. TypeOK'
      BY <1>1, <1>2, <1>3, PresenceBoundAssumption DEF TypeOK
    <2>2. TurnIsWatched' /\ BookAdds'
      BY <1>1, <1>3 DEF TurnIsWatched, BookAdds
    <2>3. Final' = Final
      <3>1. CASE Len(wire) = 1
        <4>1. Tail(wire) = <<>> /\ Head(wire) = wire[Len(wire)]
          BY <1>1, <1>2, <3>1
        <4> QED BY <1>1, <1>3, <4>1 DEF Final
      <3>2. CASE Len(wire) # 1
        <4>1. Len(wire) - 1 # 0
          BY <1>2, <3>2
        <4>2. Tail(wire) # <<>>
          BY <1>2, <4>1
        <4> QED BY <1>1, <4>2, LastStays DEF Final
      <3> QED BY <3>1, <3>2
    <2>4. QueueTells'
      BY <1>1, <1>3, <2>3 DEF QueueTells
    <2> QED BY <2>1, <2>2, <2>4 DEF PInv
  <1>4. CASE /\ faults < MaxFaults /\ faults' = faults + 1
             /\ slipped' = slipped \cup {"lost"} /\ UNCHANGED shown
    <2>1. TypeOK'
      BY <1>1, <1>2, <1>4, PresenceBoundAssumption DEF TypeOK, Slips
    <2>2. TurnIsWatched' /\ BookAdds'
      BY <1>1, <1>4 DEF TurnIsWatched, BookAdds
    <2>3. Tail(wire) # <<>> => Final' = Final
      BY <1>1, <1>4, LastStays DEF Final
    <2>4. QueueTells'
      BY <1>1, <1>4, <2>3 DEF QueueTells
    <2> QED BY <2>1, <2>2, <2>4 DEF PInv
  <1> QED BY <1>3, <1>4 DEF SetPresence

LEMMA RestartKeeps == ASSUME PInv, Restart PROVE PInv'
  <1>1. /\ TypeOK /\ wire \in Seq(Shows) /\ shown \in Shows /\ MaxFaults \in Nat /\ MaxWire \in Nat \ {0}
        /\ faults < MaxFaults /\ faults' = faults + 1 /\ commands' = commands
        /\ prompt' = FALSE /\ command' = "none" /\ late' = "unknown"
    BY PresenceBoundAssumption DEF PInv, TypeOK, Restart
  <1>2. shown' \in Shows
    <2>1. shown' \in {shown} \cup {wire[i] : i \in DOMAIN wire \cap {1}}
      BY DEF Restart
    <2> QED BY <1>1, <2>1
  <1>5. faults' \in 0 .. MaxFaults /\ commands' \in 0 .. MaxCommands
    BY <1>1 DEF TypeOK
  <1>3. CASE /\ owed > 0 /\ UNCHANGED owed /\ stall' = "watch"
             /\ reasons' = {"turn"} /\ lastSent' = "working" /\ wire' = <<"working">>
             /\ slipped' = slipped \cap {"lost"}
    <2>1. wire' \in Seq(Shows) /\ Len(wire') = 1 /\ wire'[1] = "working" /\ wire' # <<>>
      BY <1>3 DEF Shows
    <2>2. TypeOK'
      <3>1. owed' \in 0 .. MaxOwed /\ slipped' \subseteq Slips /\ 1 <= MaxWire
        BY <1>1, <1>3 DEF TypeOK
      <3> QED BY <1>1, <1>2, <1>5, <1>3, <2>1, <3>1 DEF TypeOK, StallStage, Reason, Shows, CommandStage
    <2>3. PresenceOf({"turn"}) = "working"
      BY DEF PresenceOf
    <2>4. TurnIsWatched' /\ BookAdds'
      BY <1>3, <2>3 DEF TurnIsWatched, BookAdds
    <2>5. QueueTells'
      BY <1>1, <1>3, <2>1 DEF QueueTells, Final
    <2> QED BY <2>2, <2>4, <2>5 DEF PInv
  <1>4. CASE /\ owed' = 0 /\ stall' = "none"
             /\ reasons' = {} /\ lastSent' = "unknown" /\ wire' = <<>>
             /\ slipped' = (slipped \cap {"lost"}) \cup (IF shown' = "idle" THEN {} ELSE {"untended"})
    <2>1. slipped' \subseteq Slips /\ 0 \in 0 .. MaxOwed
      BY <1>1, <1>4, PresenceBoundAssumption DEF TypeOK, Slips
    <2>2. wire' \in Seq(Shows) /\ Len(wire') = 0
      BY <1>4
    <2>3. TypeOK'
      <3>1. /\ owed' \in 0 .. MaxOwed /\ stall' \in StallStage /\ prompt' \in BOOLEAN
            /\ reasons' \subseteq Reason /\ lastSent' = "unknown" /\ late' = "unknown"
            /\ command' \in CommandStage /\ command' # "running"
        BY <1>1, <1>4, <2>1 DEF StallStage, CommandStage
      <3>2. Len(wire') <= MaxWire
        BY <1>1, <2>2
      <3> QED BY <1>2, <1>5, <2>1, <2>2, <3>1, <3>2 DEF TypeOK
    <2>4. TurnIsWatched' /\ BookAdds' /\ QueueTells'
      BY <1>1, <1>4 DEF TurnIsWatched, BookAdds, QueueTells
    <2> QED BY <2>3, <2>4 DEF PInv
  <1> QED BY <1>3, <1>4 DEF Restart

LEMMA PresenceInit == Init => PInv
  <1> SUFFICES ASSUME Init PROVE PInv
    OBVIOUS
  <1>1. TypeOK
    <2>1. wire \in Seq(Shows) /\ Len(wire) = 0
      BY DEF Init
    <2>2. MaxOwed \in Nat /\ MaxWire \in Nat /\ MaxCommands \in Nat /\ MaxFaults \in Nat
      BY PresenceBoundAssumption
    <2>3. 0 \in 0 .. MaxOwed /\ 0 \in 0 .. MaxCommands /\ 0 \in 0 .. MaxFaults /\ 0 <= MaxWire
      BY <2>2
    <2> QED BY <2>1, <2>3 DEF Init, TypeOK, StallStage, Reason, CommandStage, Shows, Slips
  <1>2. TurnIsWatched /\ BookAdds /\ QueueTells
    BY DEF Init, TurnIsWatched, BookAdds, QueueTells
  <1> QED BY <1>1, <1>2 DEF PInv

LEMMA PresenceStep == PInv /\ [Next]_vars => PInv'
  <1> SUFFICES ASSUME PInv, [Next]_vars PROVE PInv'
    OBVIOUS
  <1>1. CASE UNCHANGED vars
    BY <1>1 DEF vars, PInv, TypeOK, TurnIsWatched, BookAdds, QueueTells, Final
  <1>2. CASE Serve \/ Handed \/ Hook \/ Answered \/ Told
    BY <1>2, TurnKeeps
  <1>3. CASE StallTick \/ SuspendStall \/ Click \/ Expire \/ TurnEnds
    BY <1>3, WatchKeeps
  <1>4. CASE Swept \/ PresenceHold \/ DropLock \/ DropSend \/ SetPresence \/ Restart
    BY <1>4, SweptKeeps, HoldKeeps, DropLockKeeps, DropSendKeeps, SetPresenceKeeps, RestartKeeps
  <1> QED BY <1>1, <1>2, <1>3, <1>4 DEF Next

\* What a thread shows is what is going on: a turn's reason has something that
\* takes it away, with nothing on its way Slack shows what the holders add up
\* to, and a thread whose agent waits for a person says so.  A last call that
\* failed, or that a command's end sent out of order, excuses the thread until the
\* next call and no longer. (PresenceBook, PresenceHold::drop, touch_thread,
\* stall_tick, suspend_stall_for_perm)
THEOREM PresenceAlwaysTrue == Spec => []PresenceIsTrue
  <1>1. PInv => PresenceIsTrue
    <2> SUFFICES ASSUME PInv PROVE PresenceIsTrue
      OBVIOUS
    <2>1. TypeOK /\ TurnIsWatched /\ BookAdds /\ QueueTells
      BY DEF PInv
    <2>2. ShownIsTrue
      BY <2>1 DEF ShownIsTrue, BookAdds, QueueTells, Final
    <2>3. WaitingIsShown
      <3>1. stall = "asked" => PresenceOf(reasons) = "waiting" /\ lastSent # "unknown"
        BY <2>1 DEF BookAdds, PresenceOf
      <3> QED BY <2>2, <3>1 DEF WaitingIsShown, ShownIsTrue
    <2> QED BY <2>1, <2>2, <2>3 DEF PresenceIsTrue
  <1> QED BY PresenceInit, PresenceStep, <1>1, PTL DEF Spec

-----------------------------------------------------------------------------
(* The usage gate and its warnings (Usage).                                *)

Probe == [no : Nat, window : Window, used : Level, week : BOOLEAN]

\* A reading is a fact of the past: the account is never behind one, a newer one
\* is never behind an older one
Readings ==
    /\ probes \subseteq Probe /\ IsFiniteSet(probes)
    /\ \A r \in probes :
          /\ r.no # answered
          /\ r.window = window => r.used <= used
          /\ r.week => week
    /\ \A r, s \in probes :
          /\ r.no = s.no => r = s
          /\ r.no < s.no => r.window < s.window \/ (r.window = s.window /\ r.used <= s.used)

\* A warning takes an answer
Counted == \A x \in Window \X Warn : warnings[x] + Cardinality(probes) <= asked

\* The gate stands at a wall that is still up
Real == gate > window => (gate = window + 1 /\ used = Limit) \/ (gate = AfterWeek /\ week)

\* The reading answered last: the latch is not above it, and what is newer and
\* still on its way is not behind it.  Since answers come in order again - that
\* is what a count above disturbed is a warning of - no later window was warned
\* of, and in its own no level above the latch
LastRead(w, u) ==
    /\ w <= window /\ (w = window => u <= used)
    /\ warned <= u
    /\ \A v \in Window, l \in Warn : v > w => warnings[<<v, l>>] <= disturbed
    /\ \A l \in Warn : warnings[<<w, l>>] > disturbed => l <= warned
    /\ \A r \in probes : r.no > answered => r.window > w \/ (r.window = w /\ r.used >= u)

InOrder ==
    /\ \A x \in Window \X Warn : warnings[x] <= disturbed + 1
    /\ \E w \in Window, u \in Level : LastRead(w, u)

UInv == UsageTypeOK /\ Readings /\ Counted /\ Real /\ InOrder

-----------------------------------------------------------------------------
LEMMA Nats == ASSUME Bounds
  PROVE  /\ MaxWindow \in Nat \ {0} /\ MaxProbes \in Nat /\ MaxFailures \in Nat
         /\ Window \subseteq Nat /\ Level \subseteq Nat /\ Warn = {1, 2} /\ Limit = 3
         /\ AfterWeek = MaxWindow + 1 /\ AfterWeek \in Nat /\ Warn \subseteq Level
  BY DEF Bounds, Window, Level, Warn, Limit, AfterWeek

\* The largest of at most two numbers
LEMMA MaxOfTwo ==
  ASSUME NEW a \in Nat, NEW b \in Nat, NEW S \in SUBSET {a, b}, S # {}
  PROVE  Max(S) \in S /\ \A y \in S : y <= Max(S)
  <1>1. \E x \in S : \A y \in S : x >= y
    <2>1. CASE a >= b /\ a \in S
      BY <2>1
    <2>2. CASE b >= a /\ b \in S
      BY <2>2
    <2>3. CASE a \notin S
      <3>1. b \in S /\ \A y \in S : y = b
        BY <2>3
      <3> QED BY <3>1
    <2>4. CASE b \notin S
      <3>1. a \in S /\ \A y \in S : y = a
        BY <2>4
      <3> QED BY <3>1
    <2>5. a >= b \/ b >= a
      OBVIOUS
    <2> QED BY <2>1, <2>2, <2>3, <2>4, <2>5
  <1>2. Max(S) \in S /\ \A y \in S : Max(S) >= y
    BY <1>1 DEF Max
  <1> QED BY <1>2

LEMMA AccountInit == ASSUME Bounds, UsageInit PROVE UInv
  <1>1. 1 \in Window /\ 0 \in Level /\ 0 \in 0 .. MaxProbes /\ 0 \in 0 .. MaxFailures
    BY DEF Bounds, Window, Level
  <1>2. UsageTypeOK
    <2>1. warnings \in [Window \X Warn -> 0 .. MaxProbes]
      BY <1>1 DEF UsageInit
    <2>2. answered \in 0 .. asked /\ warned \in {0} \cup Warn
      BY DEF UsageInit
    <2> QED BY <1>1, <2>1, <2>2 DEF UsageInit, UsageTypeOK, Poll, Never
  <1>3. Readings /\ Counted /\ Real
    BY <1>1, FS_EmptySet, Nats DEF UsageInit, Readings, Counted, Real, Never
  <1>4. LastRead(1, 0)
    BY <1>1, Nats DEF UsageInit, LastRead, Warn
  <1>5. InOrder
    BY <1>1, <1>4, Nats DEF InOrder, UsageInit
  <1> QED BY <1>2, <1>3, <1>5 DEF UInv

\* The account moves on; nothing that was read of it is undone
LEMMA AccountKeeps == ASSUME Bounds, UInv, Use \/ NewWindow PROVE UInv'
  <1>1. /\ UsageTypeOK /\ Readings /\ Counted /\ Real /\ InOrder
        /\ UNCHANGED <<polled, probes, warned, gate, warnings, asked, answered, failures, disturbed>>
        /\ window \in Window /\ used \in Level /\ week \in BOOLEAN /\ gate \in {Never} \cup (2 .. AfterWeek)
    BY DEF UInv, UsageTypeOK, Use, NewWindow
  <1>2. /\ window' \in Window /\ used' \in Level /\ week' \in BOOLEAN /\ (week => week')
        /\ \/ window' = window /\ used' = used + 1 /\ used < Limit
           \/ window' = window + 1 /\ week' = week
    <2>1. CASE Use
      <3>1. /\ window' = window /\ used < Limit /\ used' = used + 1
            /\ week' = week \/ week' = TRUE
        BY <2>1 DEF Use
      <3>2. used' \in Level /\ used \in Nat
        BY <1>1, <3>1 DEF Level, Limit
      <3>3. week' \in BOOLEAN /\ (week => week')
        <4>1. CASE week' = week
          BY <1>1, <4>1
        <4>2. CASE week' = TRUE
          BY <4>2
        <4> QED BY <3>1, <4>1, <4>2
      <3> QED BY <1>1, <3>1, <3>2, <3>3
    <2>2. CASE NewWindow
      <3>1. window < MaxWindow /\ window' = window + 1 /\ used' = 0 /\ week' = week
        BY <2>2 DEF NewWindow
      <3> QED BY <1>1, <3>1, Nats DEF Level, Window
    <2> QED BY <2>1, <2>2
  <1>3. UsageTypeOK'
    <2>1. \A r \in probes : r.no \in 1 .. asked' /\ r.window <= window'
      BY <1>1, <1>2, Nats DEF UsageTypeOK, Readings, Probe
    <2> QED BY <1>1, <1>2, <2>1 DEF UsageTypeOK
  <1>4. Readings'
    BY <1>1, <1>2, Nats DEF Readings, Probe, UsageTypeOK
  <1>5. Counted'
    BY <1>1 DEF Counted
  <1>6. Real'
    BY <1>1, <1>2, Nats DEF Real, Never
  <1>7. \A w \in Window, u \in Level : LastRead(w, u) => LastRead(w, u)'
    BY <1>1, <1>2, Nats DEF LastRead
  <1>8. InOrder'
    BY <1>1, <1>7 DEF InOrder
  <1> QED BY <1>3, <1>4, <1>5, <1>6, <1>8 DEF UInv

\* Nothing but when to ask
LEMMA ClockKeeps == ASSUME Bounds, UInv, TimePasses \/ UsageSuspected PROVE UInv'
  <1>1. /\ UsageTypeOK /\ Readings /\ Counted /\ Real /\ InOrder
        /\ UNCHANGED <<window, used, week, probes, warned, gate, warnings, asked, answered, failures, disturbed>>
        /\ polled' = "due"
    BY DEF UInv, TimePasses, UsageSuspected, account
  <1>2. UsageTypeOK'
    BY <1>1 DEF UsageTypeOK, Poll
  <1>3. Readings' /\ Counted' /\ Real' /\ InOrder'
    BY <1>1 DEF Readings, Counted, Real, InOrder, LastRead
  <1> QED BY <1>2, <1>3 DEF UInv

LEMMA KickKeeps == ASSUME Bounds, UInv, UsageKick PROVE UInv'
  <1>1. /\ UsageTypeOK /\ Readings /\ Counted /\ Real /\ InOrder
        /\ UNCHANGED <<window, used, week, warned, gate, warnings, answered, failures, disturbed>>
        /\ polled' = "fresh"
    BY DEF UInv, UsageKick, account
  <1>2. CASE UNCHANGED <<probes, asked>>
    <2>1. UsageTypeOK'
      BY <1>1, <1>2 DEF UsageTypeOK, Poll
    <2>2. Readings' /\ Counted' /\ Real' /\ InOrder'
      BY <1>1, <1>2 DEF Readings, Counted, Real, InOrder, LastRead
    <2> QED BY <2>1, <2>2 DEF UInv
  <1>3. CASE /\ asked < MaxProbes /\ asked' = asked + 1
             /\ probes' = probes \cup {[no |-> asked', window |-> window, used |-> used, week |-> week]}
    <2> DEFINE q == [no |-> asked', window |-> window, used |-> used, week |-> week]
    <2>1. /\ asked \in 0 .. MaxProbes /\ asked' \in 0 .. MaxProbes /\ asked' = asked + 1
          /\ window \in Window /\ used \in Level /\ week \in BOOLEAN /\ answered \in 0 .. asked
      BY <1>1, <1>3, Nats DEF UsageTypeOK
    <2>2. q \in Probe /\ q.no = asked + 1 /\ q.window = window /\ q.used = used /\ q.week = week
      BY <2>1, Nats DEF Probe
    <2>3. probes' = probes \cup {q}
      BY <1>3
    <2> HIDE DEF q
    <2>4. \A r \in probes : r.no \in 1 .. asked /\ r.window <= window /\ r.no # q.no /\ r \in Probe /\ r.no < q.no
      BY <1>1, <2>1, <2>2, Nats DEF UsageTypeOK, Readings, Probe
    <2>5. UsageTypeOK'
      <3>1. \A r \in probes' : r.no \in 1 .. asked' /\ r.window <= window'
        BY <1>1, <2>1, <2>2, <2>3, <2>4, Nats
      <3>2. answered' \in 0 .. asked' /\ asked' \in 0 .. MaxProbes
        BY <1>1, <2>1, Nats
      <3> QED BY <1>1, <3>1, <3>2 DEF UsageTypeOK, Poll
    <2>6. Readings'
      <3>1. IsFiniteSet(probes') /\ probes' \subseteq Probe
        BY <1>1, <2>2, <2>3, FS_AddElement DEF Readings
      <3>2. \A r \in probes' :
              /\ r.no # answered'
              /\ r.window = window' => r.used <= used'
              /\ r.week => week'
        BY <1>1, <2>1, <2>2, <2>3, Nats DEF Readings
      <3>3. ASSUME NEW r \in probes', NEW s \in probes'
            PROVE  /\ r.no = s.no => r = s
                   /\ r.no < s.no => r.window < s.window \/ (r.window = s.window /\ r.used <= s.used)
        <4>1. CASE r \in probes /\ s \in probes
          BY <1>1, <4>1 DEF Readings
        <4>2. CASE r \in probes /\ s = q
          <5>1. r.window \in Nat /\ window \in Nat /\ r.window <= window /\ r.no # s.no
            BY <2>1, <2>4, <4>2, Nats DEF Probe
          <5>2. r.window = window => r.used <= used
            BY <1>1, <4>2 DEF Readings
          <5> QED BY <2>2, <4>2, <5>1, <5>2
        <4>3. CASE r = q /\ s \in probes
          <5>1. s.no # r.no /\ ~(r.no < s.no)
            BY <2>1, <2>2, <2>4, <4>3, Nats
          <5> QED BY <5>1
        <4>4. CASE r = q /\ s = q
          BY <2>1, <2>2, <4>4, Nats
        <4> QED BY <2>3, <4>1, <4>2, <4>3, <4>4
      <3> QED BY <3>1, <3>2, <3>3 DEF Readings
    <2>7. Counted'
      <3>1. Cardinality(probes') = Cardinality(probes) + 1
        <4>1. q \notin probes
          BY <2>1, <2>2, <2>4, Nats
        <4> QED BY <1>1, <2>3, <4>1, FS_AddElement DEF Readings
      <3>2. \A x \in Window \X Warn : warnings[x] \in Nat
        BY <1>1, Nats DEF UsageTypeOK
      <3>3. Cardinality(probes) \in Nat
        BY <1>1, FS_CardinalityType DEF Readings
      <3> QED BY <1>1, <2>1, <3>1, <3>2, <3>3 DEF Counted
    <2>8. Real'
      BY <1>1 DEF Real
    <2>9. ASSUME NEW w \in Window, NEW u \in Level, LastRead(w, u) PROVE LastRead(w, u)'
      <3>1. q.window > w \/ (q.window = w /\ q.used >= u)
        BY <1>1, <2>1, <2>2, <2>9, Nats DEF LastRead
      <3> QED BY <1>1, <2>3, <2>9, <3>1 DEF LastRead
    <2>10. InOrder'
      BY <1>1, <2>9 DEF InOrder
    <2> QED BY <2>5, <2>6, <2>7, <2>8, <2>10 DEF UInv
  <1> QED BY <1>2, <1>3 DEF UsageKick

LEMMA LimitKeeps == ASSUME Bounds, UInv, TurnHitLimit PROVE UInv'
  <1>1. /\ UsageTypeOK /\ Readings /\ Counted /\ Real /\ InOrder
        /\ UNCHANGED <<window, used, week, polled, probes, warned, warnings, asked, answered, failures, disturbed>>
        /\ gate' \in Walls
    BY DEF UInv, TurnHitLimit, account
  <1>2. (gate' = window + 1 /\ used = Limit) \/ (gate' = AfterWeek /\ week)
    BY <1>1 DEF Walls
  <1>3. gate' \in 2 .. AfterWeek
    BY <1>1, <1>2, Nats DEF UsageTypeOK, Window
  <1>4. UsageTypeOK'
    BY <1>1, <1>3 DEF UsageTypeOK
  <1>5. Readings' /\ Counted' /\ Real' /\ InOrder'
    BY <1>1, <1>2 DEF Readings, Counted, Real, InOrder, LastRead
  <1> QED BY <1>4, <1>5 DEF UInv

LEMMA DownKeeps == ASSUME Bounds, UInv, UsageRestart PROVE UInv'
  <1>1. /\ UsageTypeOK /\ Readings /\ Counted /\ InOrder
        /\ UNCHANGED <<window, used, week, warnings, asked, answered>>
        /\ polled' = "never" /\ probes' = {} /\ warned' = 0 /\ gate' = Never /\ disturbed' = disturbed + 1
        /\ failures < MaxFailures /\ failures' = failures + 1
    BY DEF UInv, UsageRestart, account
  <1>2. failures' \in 0 .. MaxFailures
    BY <1>1, Nats DEF UsageTypeOK
  <1>3. UsageTypeOK'
    BY <1>1, <1>2 DEF UsageTypeOK, Poll
  <1>4. Readings' /\ Real'
    BY <1>1, FS_EmptySet, Nats DEF Readings, Real, Never, UsageTypeOK
  <1>6. InOrder'
    <2>1. \A x \in Window \X Warn : warnings[x] \in Nat /\ warnings[x] <= disturbed'
      BY <1>1, Nats DEF InOrder, UsageTypeOK
    <2>2. \A x \in Window \X Warn : warnings'[x] <= disturbed' /\ ~(warnings'[x] > disturbed')
          /\ warnings'[x] <= disturbed' + 1
      BY <1>1, <2>1 DEF UsageTypeOK
    <2>3. 1 \in Window /\ 0 \in Level /\ window' \in Window /\ used' \in Level /\ 1 <= window'
      BY <1>1, <1>3, Nats DEF UsageTypeOK, Window, Level
    <2>4. LastRead(1, 0)'
      BY <1>1, <2>2, <2>3, Nats DEF LastRead, Level
    <2> QED BY <2>2, <2>3, <2>4 DEF InOrder
  <1>5. Counted'
    <2>1. Cardinality(probes) \in Nat /\ Cardinality(probes') = 0 /\ asked \in Nat
      BY <1>1, FS_CardinalityType, FS_EmptySet, Nats DEF Readings, UsageTypeOK
    <2>2. \A x \in Window \X Warn : warnings[x] \in Nat
      BY <1>1, Nats DEF UsageTypeOK
    <2> QED BY <1>1, <2>1, <2>2 DEF Counted
  <1> QED BY <1>3, <1>4, <1>5, <1>6 DEF UInv

-----------------------------------------------------------------------------
(* An answer.                                                              *)

\* What a reading is about
LEMMA ReadingFacts ==
  ASSUME Bounds, UInv, NEW r \in probes
  PROVE  /\ r \in Probe /\ r.no \in 1 .. asked /\ r.no # answered /\ r.window \in Window /\ r.window <= window
         /\ r.used \in Level /\ r.used \in Nat /\ r.week \in BOOLEAN
         /\ r.window = window => r.used <= used
         /\ r.week => week
  BY Nats DEF UInv, UsageTypeOK, Readings, Probe

\* The levels a reading newly crosses, and the latch after it
LEMMA Crossing ==
  ASSUME Bounds, UInv, NEW r \in probes, NEW latch \in {0} \cup Warn,
         latch = IF r.used < warned THEN 0 ELSE warned,
         NEW newly, newly = {l \in Warn : r.used >= l /\ l > latch}
  PROVE  /\ Latch(latch, newly) \in {0} \cup Warn /\ Latch(latch, newly) <= r.used
         /\ Latch(latch, newly) >= latch
         /\ newly # {} => /\ Max(newly) \in Warn /\ Max(newly) > latch
                            /\ Latch(latch, newly) = Max(newly)
  <1>1. r.used \in Nat /\ warned \in {0} \cup Warn /\ Warn = {1, 2}
    BY ReadingFacts, Nats DEF UInv, UsageTypeOK
  <1>2. CASE newly = {}
    <2>1. Latch(latch, newly) = latch
      BY <1>2 DEF Latch
    <2> QED BY <1>1, <1>2, <2>1
  <1>3. CASE newly # {}
    <2>1. Max(newly) \in newly
      BY <1>1, <1>3, MaxOfTwo
    <2>2. Latch(latch, newly) = Max(newly)
      BY <1>3 DEF Latch
    <2> QED BY <1>1, <2>1, <2>2
  <1> QED BY <1>2, <1>3

\* The gate follows a wall that is up
LEMMA GateFollows ==
  ASSUME Bounds, UInv, NEW r \in probes, gate' = GateAt(BindingReset(r))
  PROVE  /\ gate' \in {Never} \cup (2 .. AfterWeek)
         /\ gate' = gate \/ (gate' = window + 1 /\ used = Limit) \/ (gate' = AfterWeek /\ week)
  <1> DEFINE resets == BindingReset(r)
  <1>1. /\ r.used \in Nat /\ (r.window = window => r.used <= used) /\ (r.week => week)
        /\ window \in Window /\ used \in Level /\ gate \in {Never} \cup (2 .. AfterWeek)
    BY ReadingFacts DEF UInv, UsageTypeOK
  <1>2. \A x \in resets : (x = window + 1 /\ used = Limit) \/ (x = AfterWeek /\ week)
    BY <1>1, Nats DEF BindingReset, Level
  <1>3. resets \subseteq {window + 1, AfterWeek} /\ window + 1 \in Nat /\ AfterWeek \in Nat
    BY <1>1, <1>2, Nats
  <1> HIDE DEF resets
  <1>4. CASE resets = {}
    BY <1>1, <1>4 DEF GateAt, resets
  <1>5. CASE resets # {}
    <2>1. gate' = Max(resets)
      BY <1>5 DEF GateAt, resets
    <2>2. gate' \in resets
      BY <1>3, <1>5, <2>1, MaxOfTwo
    <2>3. window + 1 \in 2 .. AfterWeek /\ AfterWeek \in 2 .. AfterWeek
      BY <1>1, Nats DEF Window
    <2> QED BY <1>2, <1>3, <2>2, <2>3
  <1> QED BY <1>4, <1>5

\* One answer less is on its way
LEMMA OneLess ==
  ASSUME Bounds, UInv, NEW r \in probes, probes' = probes \ {r}, UNCHANGED <<window, used, week, asked>>,
         answered' \in {answered, r.no}
  PROVE  /\ Readings' /\ Cardinality(probes') + 1 = Cardinality(probes) /\ Cardinality(probes') \in Nat
         /\ \A s \in probes' : s.no \in 1 .. asked' /\ s.window <= window'
  <1>1. Readings /\ UsageTypeOK /\ IsFiniteSet(probes)
    BY DEF UInv, Readings
  <1>2. IsFiniteSet(probes') /\ Cardinality(probes') = Cardinality(probes) - 1
        /\ Cardinality(probes) \in Nat /\ Cardinality(probes') \in Nat
    BY <1>1, FS_RemoveElement, FS_CardinalityType
  <1>3. \A s \in probes' : s \in probes /\ s # r
    OBVIOUS
  <1>4. \A s \in probes' : s.no # answered'
    BY <1>1, <1>3 DEF Readings
  <1>5. Readings'
    BY <1>1, <1>2, <1>3, <1>4 DEF Readings
  <1> QED BY <1>1, <1>2, <1>3, <1>5 DEF UsageTypeOK

LEMMA AnswerFails ==
  ASSUME Bounds, UInv, NEW r \in probes, probes' = probes \ {r}, failures < MaxFailures, failures' = failures + 1,
         UNCHANGED <<window, used, week, polled, asked, warned, gate, warnings, answered, disturbed>>
  PROVE  UInv'
  <1>1. /\ Readings' /\ Cardinality(probes') + 1 = Cardinality(probes) /\ Cardinality(probes') \in Nat
        /\ \A s \in probes' : s.no \in 1 .. asked' /\ s.window <= window'
    BY OneLess
  <1>2. UsageTypeOK /\ Counted /\ Real /\ InOrder /\ failures' \in 0 .. MaxFailures
    BY Nats DEF UInv, UsageTypeOK
  <1>3. UsageTypeOK'
    BY <1>1, <1>2 DEF UsageTypeOK
  <1>4. Counted'
    <2>1. \A x \in Window \X Warn : warnings[x] \in Nat
      BY <1>2, Nats DEF UsageTypeOK
    <2>2. asked \in Nat
      BY <1>2, Nats DEF UsageTypeOK
    <2> QED BY <1>1, <1>2, <2>1, <2>2 DEF Counted
  <1>5. Real' /\ InOrder'
    BY <1>2 DEF Real, InOrder, LastRead
  <1> QED BY <1>1, <1>3, <1>4, <1>5 DEF UInv

\* The warnings after a reading: one more, of a level above the latch
LEMMA Warns ==
  ASSUME Bounds, UInv, NEW r \in probes, OnUsageProbe(r)
  PROVE  /\ warned' \in {0} \cup Warn /\ warned' <= r.used
         /\ r.used >= warned => warned' >= warned
         /\ \/ warnings' = warnings
            \/ /\ warned' \in Warn
               /\ r.used >= warned => warned' > warned
               /\ warnings' = [warnings EXCEPT ![<<r.window, warned'>>] = @ + 1]
  <1> DEFINE latch == IF r.used < warned THEN 0 ELSE warned
             newly == {l \in Warn : r.used >= l /\ l > latch}
  <1>1. warned \in {0} \cup Warn /\ warned \in Nat /\ r.used \in Nat
    BY ReadingFacts, Nats DEF UInv, UsageTypeOK
  <1>2. latch \in {0} \cup Warn /\ (r.used >= warned => latch = warned) /\ latch \in Nat
    BY <1>1
  <1>3. /\ warned' = Latch(latch, newly)
        /\ warnings' = IF newly = {} THEN warnings
                       ELSE [warnings EXCEPT ![<<r.window, Max(newly)>>] = @ + 1]
    BY DEF OnUsageProbe
  <1>4. /\ Latch(latch, newly) \in {0} \cup Warn /\ Latch(latch, newly) <= r.used
        /\ Latch(latch, newly) >= latch
        /\ newly # {} => /\ Max(newly) \in Warn /\ Max(newly) > latch
                           /\ Latch(latch, newly) = Max(newly)
    BY <1>2, Crossing
  <1> HIDE DEF latch, newly
  <1> QED BY <1>1, <1>2, <1>3, <1>4

LEMMA AnswerRead ==
  ASSUME Bounds, UInv, NEW r \in probes, probes' = probes \ {r}, OnUsageProbe(r),
         answered' = r.no,
         disturbed' = (IF r.no < answered THEN disturbed + 1 ELSE disturbed),
         UNCHANGED <<window, used, week, polled, asked, failures>>
  PROVE  UInv'
  <1>1. /\ UsageTypeOK /\ Readings /\ Counted /\ Real /\ InOrder
        /\ asked \in 0 .. MaxProbes /\ answered \in 0 .. asked /\ disturbed \in Nat
        /\ warnings \in [Window \X Warn -> 0 .. MaxProbes]
    BY DEF UInv, UsageTypeOK
  <1>2. /\ r \in Probe /\ r.no \in 1 .. asked /\ r.no # answered /\ r.window \in Window /\ r.window <= window
        /\ r.used \in Level /\ r.used \in Nat /\ (r.window = window => r.used <= used)
    BY ReadingFacts
  <1>3. /\ warned' \in {0} \cup Warn /\ warned' <= r.used
        /\ r.used >= warned => warned' >= warned
        /\ \/ warnings' = warnings
           \/ /\ warned' \in Warn
              /\ r.used >= warned => warned' > warned
              /\ warnings' = [warnings EXCEPT ![<<r.window, warned'>>] = @ + 1]
    BY Warns
  <1>4. answered' \in {answered, r.no} /\ disturbed' \in Nat
    BY <1>1
  <1>5. /\ Readings' /\ Cardinality(probes') + 1 = Cardinality(probes) /\ Cardinality(probes') \in Nat
        /\ \A s \in probes' : s.no \in 1 .. asked' /\ s.window <= window'
    BY <1>4, OneLess
  <1>6. /\ gate' \in {Never} \cup (2 .. AfterWeek)
        /\ gate' = gate \/ (gate' = window + 1 /\ used = Limit) \/ (gate' = AfterWeek /\ week)
    BY GateFollows DEF OnUsageProbe
  <1>7. ASSUME NEW x \in Window \X Warn
        PROVE  warnings'[x] \in Nat /\ warnings'[x] <= warnings[x] + 1 /\ warnings[x] \in Nat
               /\ (warnings'[x] = warnings[x] \/ (x = <<r.window, warned'>> /\ warned' \in Warn))
    BY <1>1, <1>2, <1>3, Nats
  <1>8. Counted'
    BY <1>1, <1>5, <1>7, Nats DEF Counted
  <1>9. warnings' \in [Window \X Warn -> 0 .. MaxProbes]
    <2>1. \A x \in Window \X Warn : warnings'[x] \in 0 .. MaxProbes
      BY <1>1, <1>5, <1>7, <1>8, Nats DEF Counted
    <2>2. warnings' = [x \in Window \X Warn |-> warnings'[x]]
      BY <1>1, <1>3
    <2> QED BY <2>1, <2>2
  <1>11. UsageTypeOK'
    <2>1. answered' \in 0 .. asked'
      BY <1>1, <1>2, <1>4, Nats
    <2>2. polled' = "never" => probes' = {}
      BY <1>1 DEF UsageTypeOK
    <2> QED BY <1>1, <1>3, <1>5, <1>4, <1>6, <1>9, <2>1, <2>2 DEF UsageTypeOK
  <1>12. Real'
    BY <1>1, <1>6 DEF Real
  <1>13. InOrder'
    <2>1. /\ warned \in Nat /\ warned' \in Nat /\ disturbed' \in Nat
          /\ \A x \in Window \X Warn : warnings[x] \in Nat
      BY <1>1, <1>3, <1>4, Nats DEF UsageTypeOK
    <2>2. /\ \A x \in Window \X Warn : warnings[x] <= disturbed' + 1
          /\ \A v \in Window, l \in Warn : v > r.window => warnings[<<v, l>>] <= disturbed'
          /\ \A l \in Warn : warnings[<<r.window, l>>] > disturbed' => l <= warned /\ r.used >= warned
      <3>1. CASE r.no < answered
        <4>1. \A x \in Window \X Warn : warnings[x] <= disturbed' /\ ~(warnings[x] > disturbed')
          BY <1>1, <2>1, <3>1 DEF InOrder
        <4> QED BY <1>2, <2>1, <4>1
      <3>2. CASE ~(r.no < answered)
        <4>1. disturbed' = disturbed /\ answered < r.no
          BY <1>1, <1>2, <3>2, Nats
        <4>2. PICK w \in Window, u \in Level : LastRead(w, u)
          BY <1>1 DEF InOrder
        <4>3. /\ w \in Nat /\ u \in Nat /\ r.window \in Nat /\ warned <= u
              /\ r.window > w \/ (r.window = w /\ r.used >= u)
          BY <1>2, <4>1, <4>2, Nats DEF LastRead
        <4>4. /\ \A v \in Window, l \in Warn : v > w => warnings[<<v, l>>] <= disturbed
              /\ \A l \in Warn : warnings[<<w, l>>] > disturbed => l <= warned
          BY <4>2 DEF LastRead
        <4>5. \A v \in Window, l \in Warn : v > r.window => warnings[<<v, l>>] <= disturbed
          <5>1. \A v \in Window : v > r.window => v > w
            BY <4>3, Nats
          <5> QED BY <4>4, <5>1
        <4>6. ASSUME NEW l \in Warn, warnings[<<r.window, l>>] > disturbed
              PROVE  l <= warned /\ r.used >= warned
          <5>1. r.window = w
            <6>1. CASE r.window > w
              <7>1. warnings[<<r.window, l>>] <= disturbed
                BY <1>2, <4>4, <6>1
              <7>2. warnings[<<r.window, l>>] \in Nat
                BY <1>2, <2>1
              <7> QED BY <1>1, <4>6, <7>1, <7>2
            <6> QED BY <4>3, <6>1
          <5> QED BY <1>2, <2>1, <4>3, <4>4, <4>6, <5>1
        <4> QED BY <1>1, <4>1, <4>5, <4>6 DEF InOrder
      <3> QED BY <3>1, <3>2
    <2>6. \A x \in Window \X Warn : warnings'[x] <= disturbed' + 1
      <3> SUFFICES ASSUME NEW x \in Window \X Warn, warnings'[x] # warnings[x]
                   PROVE  warnings[x] <= disturbed'
        BY <1>7, <2>1, <2>2
      <3>1. x = <<r.window, warned'>> /\ warned' \in Warn /\ (r.used >= warned => warned' > warned)
        BY <1>3, <1>7
      <3>2. warnings[x] > disturbed' => warned' <= warned /\ r.used >= warned
        BY <2>2, <3>1
      <3> QED BY <2>1, <3>1, <3>2
    <2>7. \A v \in Window, l \in Warn : v > r.window => warnings'[<<v, l>>] <= disturbed'
      <3> SUFFICES ASSUME NEW v \in Window, NEW l \in Warn, v > r.window
                   PROVE  warnings'[<<v, l>>] <= disturbed'
        OBVIOUS
      <3>1. <<v, l>> \in Window \X Warn /\ <<v, l>> # <<r.window, warned'>>
        <4>1. v \in Nat /\ r.window \in Nat
          BY <1>2, Nats
        <4>2. v # r.window
          BY <4>1
        <4> QED BY <4>2
      <3> QED BY <1>7, <2>2, <3>1
    <2>8. \A l \in Warn : warnings'[<<r.window, l>>] > disturbed' => l <= warned'
      <3> SUFFICES ASSUME NEW l \in Warn, warnings'[<<r.window, l>>] > disturbed'
                   PROVE  l <= warned'
        OBVIOUS
      <3>1. <<r.window, l>> \in Window \X Warn /\ l \in Nat
        BY <1>2, Nats
      <3>2. CASE l = warned'
        BY <2>1, <3>2
      <3>3. CASE l # warned'
        <4>1. warnings'[<<r.window, l>>] = warnings[<<r.window, l>>]
          BY <1>7, <3>1, <3>3
        <4>2. l <= warned /\ r.used >= warned
          BY <2>2, <4>1
        <4> QED BY <1>3, <2>1, <3>1, <4>2
      <3> QED BY <3>2, <3>3
    <2>9. \A s \in probes' : s.no > answered' => s.window > r.window \/ (s.window = r.window /\ s.used >= r.used)
      BY <1>1, <1>2, <2>1, Nats DEF Readings, Probe
    <2>10. LastRead(r.window, r.used)'
      BY <1>1, <1>2, <1>3, <2>7, <2>8, <2>9 DEF LastRead
    <2> QED BY <1>2, <2>6, <2>10 DEF InOrder
  <1> QED BY <1>5, <1>8, <1>11, <1>12, <1>13 DEF UInv

LEMMA AnsweredKeeps == ASSUME Bounds, UInv, UsageAnswered PROVE UInv'
  <1>1. PICK r \in probes :
          /\ probes' = probes \ {r}
          /\ \/ /\ OnUsageProbe(r)
                /\ answered' = r.no
                /\ disturbed' = (IF r.no < answered THEN disturbed + 1 ELSE disturbed) /\ UNCHANGED failures
             \/ /\ failures < MaxFailures /\ failures' = failures + 1
                /\ UNCHANGED <<warned, gate, warnings, answered, disturbed>>
    BY DEF UsageAnswered
  <1>2. UNCHANGED <<window, used, week, polled, asked>>
    BY DEF UsageAnswered, account
  <1> QED BY <1>1, <1>2, AnswerRead, AnswerFails

LEMMA UsageStep == ASSUME Bounds, UInv, [UsageNext]_usageVars PROVE UInv'
  <1>1. CASE UNCHANGED usageVars
    BY <1>1 DEF usageVars, account, UInv, UsageTypeOK, Readings, Counted, Real, InOrder, LastRead
  <1>2. CASE UsageNext
    BY <1>2, AccountKeeps, ClockKeeps, KickKeeps, AnsweredKeeps, LimitKeeps, DownKeeps DEF UsageNext
  <1> QED BY <1>1, <1>2

\* Every thread is warned of a level once in a window, and at most once more for
\* every answer that came after a newer one and every restart; and requests are
\* turned away only while a wall is up, in whatever order the answers come.
\* (usage_warned_pct, binding_limit_reset, turn_hit_usage_limit)
THEOREM GateAlwaysFollows == ASSUME Bounds PROVE UsageSpec => []GateFollowsTheWalls
  <1>1. UsageInit => UInv
    BY AccountInit
  <1>2. UInv /\ [UsageNext]_usageVars => UInv'
    BY UsageStep
  <1>3. UInv => GateFollowsTheWalls
    <2> SUFFICES ASSUME UInv PROVE GateFollowsTheWalls
      OBVIOUS
    <2>1. WarnedOnce
      <3>1. /\ \A x \in Window \X Warn : warnings[x] \in Nat /\ warnings[x] <= disturbed + 1
            /\ disturbed \in Nat
        BY Nats DEF UInv, InOrder, UsageTypeOK
      <3> QED BY <3>1 DEF WarnedOnce
    <2>2. GateIsReal
      BY DEF UInv, Real, GateIsReal, Walls
    <2> QED BY <2>1, <2>2 DEF UInv, GateFollowsTheWalls
  <1> QED BY <1>1, <1>2, <1>3, PTL DEF UsageSpec

\* A reading that finds the weekly wall closes the gate until that wall comes
\* down, whether or not it came in order. (binding_limit_reset)
THEOREM WeeklyWallCloses == ASSUME Bounds PROVE UsageSpec => GateOutlastsWindow
  <1>1. UsageInit => UInv
    BY AccountInit
  <1>2. UInv /\ [UsageNext]_usageVars => UInv'
    BY UsageStep
  <1>3. ASSUME UInv, [UsageNext]_usageVars, NEW r \in probes, r.week, answered' = r.no
        PROVE  gate' = AfterWeek
    <2>1. answered' # answered
      BY <1>3 DEF UInv, Readings
    <2>2. UsageAnswered
      BY <1>3, <2>1 DEF UsageNext, usageVars, Use, NewWindow, TimePasses, UsageSuspected, UsageKick, TurnHitLimit, UsageRestart
    <2>3. PICK q \in probes : OnUsageProbe(q) /\ answered' = q.no
      BY <2>1, <2>2 DEF UsageAnswered
    <2>4. q = r
      BY <1>3, <2>3 DEF UInv, Readings
    <2> DEFINE resets == BindingReset(r)
    <2>5. AfterWeek \in resets /\ resets \in SUBSET {window + 1, AfterWeek}
      BY <1>3 DEF BindingReset
    <2>6. gate' = IF resets = {} THEN gate ELSE Max(resets)
      BY <2>3, <2>4 DEF OnUsageProbe, GateAt
    <2>7. window \in Nat /\ window + 1 <= AfterWeek /\ window + 1 \in Nat /\ AfterWeek \in Nat
      BY <1>3, Nats DEF UInv, UsageTypeOK, Window
    <2> HIDE DEF resets
    <2>8. resets # {}
      BY <2>5
    <2>9. Max(resets) \in resets /\ \A y \in resets : y <= Max(resets)
      BY <2>5, <2>7, <2>8, MaxOfTwo
    <2>10. AfterWeek <= Max(resets) /\ Max(resets) \in {window + 1, AfterWeek}
      BY <2>5, <2>9
    <2>11. Max(resets) = AfterWeek
      BY <2>7, <2>10
    <2> QED BY <2>6, <2>8, <2>11
  <1>4. UInv /\ [UsageNext]_usageVars
           => ((\E r \in probes : r.week /\ answered' = r.no) => gate' = AfterWeek)
    BY <1>3
  <1>5. UInv /\ [UsageNext]_usageVars
           => [(\E r \in probes : r.week /\ answered' = r.no) => gate' = AfterWeek]_usageVars
    BY <1>4
  <1> QED BY <1>1, <1>2, <1>5, PTL DEF UsageSpec, GateOutlastsWindow

-----------------------------------------------------------------------------
(* Signing in and out (SignIn).                                            *)

Nobody == Person \cup {None}
NoteRec == [what : {"login", "logout"}, who : Nobody, bound : Nobody, by : Nobody, id : Nat]

LoginTask == [who : Person, id : Login, begun : BOOLEAN]
CodeTask == [who : Person, id : Nat, typed : BOOLEAN, login : Nat]

Shape ==
    /\ SignInTypeOK
    /\ logins \subseteq LoginTask /\ codes \subseteq CodeTask
    /\ fx \in Seq(NoteRec)
    /\ n \in [logins : Nat, codes : Nat, logouts : Nat, restarts : Nat]
    /\ ousted \subseteq 1 .. n.logins

\* One note at most that a sign-out ended, one person at most who is waited for
OneLogout == \A i, j \in 1 .. Len(fx) : fx[i].what = "logout" /\ fx[j].what = "logout" => i = j
OneWaited == \A p, q \in pending : p = q

\* Once told, it is known; an answer under way that says otherwise is as old as
\* the credentials it is about
Heard ==
    /\ notices \in {0, 1}
    /\ notices = 1 => lastKnown = "out" \/ (signedIn /\ check # "out")
    /\ check = "in" => signedIn \/ notices = 0

Base == Shape /\ OneLogout /\ OneWaited /\ Heard

LoginNote(i) == i \in 1 .. Len(fx) /\ fx[i].what = "login"

\* Everything under way is for the person who is waited for, and it is one thing
Seated ==
    /\ \A t \in logins \cup codes : t.who \in pending
    /\ \A i \in 1 .. Len(fx) : LoginNote(i) => fx[i].who \in pending
Single ==
    /\ \A s, t \in logins : s = t
    /\ \A s, t \in codes : s = t
    /\ \A i, j \in 1 .. Len(fx) : LoginNote(i) /\ LoginNote(j) => i = j
    /\ logins = {} \/ codes = {}
    /\ (\E i \in 1 .. Len(fx) : LoginNote(i)) => logins = {} /\ codes = {}

\* The terminal is the one of the sign-in under way, and no sign-out came after it
Linked ==
    /\ \A t \in logins :
          /\ told[t.who] = 0 /\ t.id \notin ousted
          /\ t.begun => terminal.id = t.id /\ terminal.stage \in {"starting", "asking"}
    /\ \A t \in codes : told[t.who] # 0
    /\ \A p \in pending : told[p] # 0 => terminal.id \notin ousted

\* A success on the terminal is of the code being checked
Earned ==
    terminal.stage = "success" =>
       \/ \E t \in codes : t.typed /\ t.who = terminal.by
       \/ \E i \in 1 .. Len(fx) : LoginNote(i)

Bound == \A i \in 1 .. Len(fx) : fx[i].bound # None => fx[i].bound = fx[i].by /\ fx[i].id \notin ousted

Clean == Seated /\ Single /\ Linked /\ Earned /\ Bound

SInv == Base /\ (crossed = {} => Clean)

-----------------------------------------------------------------------------
(* The queue of notes.                                                     *)

LEMMA GivenFacts == ASSUME Given
  PROVE  /\ None \notin Person /\ MaxLogins \in Nat /\ MaxCodes \in Nat /\ MaxLogouts \in Nat
         /\ MaxRestarts \in Nat /\ Login \subseteq Nat /\ 0 \notin Login
  BY DEF Given, Login

LEMMA Indices == ASSUME Shape PROVE DOMAIN fx = 1 .. Len(fx) /\ Len(fx) \in Nat
  BY LenProperties DEF Shape

LEMMA NoteType ==
  ASSUME NEW what \in {"login", "logout"}, NEW p \in Nobody, NEW b \in Nobody, NEW y \in Nobody, NEW k \in Nat
  PROVE  /\ Note(what, p, b, y, k) \in NoteRec
         /\ Note(what, p, b, y, k).what = what /\ Note(what, p, b, y, k).who = p
         /\ Note(what, p, b, y, k).bound = b /\ Note(what, p, b, y, k).by = y
         /\ Note(what, p, b, y, k).id = k
  BY DEF Note, NoteRec

LEMMA NotePut ==
  ASSUME Shape, NEW x \in NoteRec, fx' = Append(fx, x)
  PROVE  /\ fx' \in Seq(NoteRec) /\ Len(fx') = Len(fx) + 1 /\ Len(fx) \in Nat /\ fx'[Len(fx) + 1] = x
         /\ \A i \in 1 .. Len(fx) : fx'[i] = fx[i]
         /\ DOMAIN fx' = 1 .. Len(fx')
  BY LenProperties DEF Shape

LEMMA NoteTaken ==
  ASSUME Shape, fx # <<>>, fx' = Tail(fx)
  PROVE  /\ fx' \in Seq(NoteRec) /\ Len(fx') = Len(fx) - 1 /\ Len(fx) \in Nat \ {0} /\ Len(fx') \in Nat
         /\ \A i \in 1 .. Len(fx') : fx'[i] = fx[i + 1] /\ i + 1 \in 1 .. Len(fx) /\ i + 1 # 1
         /\ Head(fx) = fx[1] /\ Head(fx) \in NoteRec /\ 1 \in 1 .. Len(fx)
         /\ DOMAIN fx' = 1 .. Len(fx')
  <1>1. fx \in Seq(NoteRec) /\ Len(fx) \in Nat /\ Len(fx) # 0
    BY EmptySeq DEF Shape
  <1>2. /\ Head(fx) \in NoteRec /\ Tail(fx) \in Seq(NoteRec) /\ Len(Tail(fx)) = Len(fx) - 1
        /\ \A i \in 1 .. Len(Tail(fx)) : Tail(fx)[i] = fx[i + 1]
    BY <1>1, HeadTailProperties
  <1>3. Head(fx) = fx[1]
    BY <1>1
  <1>4. DOMAIN fx' = 1 .. Len(fx')
    BY <1>2, LenProperties
  <1> QED BY <1>1, <1>2, <1>3, <1>4

-----------------------------------------------------------------------------
(* What holds whatever crossed.                                            *)

\* The notes' part of the types
Noted == \A i \in 1 .. Len(fx) : fx[i].what = "logout" => signingOut

LEMMA BaseInit == ASSUME Given, SignInInit PROVE SInv
  <1>1. fx = <<>> /\ Len(fx) = 0 /\ fx \in Seq(NoteRec) /\ DOMAIN fx = {}
    BY EmptySeq DEF SignInInit
  <1>2. SignInTypeOK
    <2>1. 0 \in 0 .. MaxLogins /\ 0 \in 0 .. MaxCodes /\ 0 \in 0 .. MaxLogouts /\ 0 \in 0 .. MaxRestarts
      BY GivenFacts
    <2>2. n.logins = 0 /\ n.codes = 0 /\ n.logouts = 0 /\ n.restarts = 0
      BY DEF SignInInit
    <2>3. terminal \in [id : {0} \cup Login, stage : Stage, by : Person \cup {None}]
      BY DEF SignInInit, NoTerminal, Stage
    <2>4. told \in [Person -> {0} \cup Login]
      BY DEF SignInInit
    <2> QED BY <1>1, <2>1, <2>2, <2>3, <2>4 DEF SignInInit, SignInTypeOK
  <1>3. n \in [logins : Nat, codes : Nat, logouts : Nat, restarts : Nat]
    BY DEF SignInInit
  <1>4. Shape
    BY <1>1, <1>2, <1>3 DEF SignInInit, Shape
  <1>5. OneLogout /\ OneWaited /\ Heard
    BY <1>1 DEF SignInInit, OneLogout, OneWaited, Heard
  <1>6. Clean
    BY <1>1 DEF SignInInit, Clean, Seated, Single, Linked, Earned, Bound, NoTerminal
  <1> QED BY <1>4, <1>5, <1>6 DEF SInv, Base

LEMMA StartLoginBase == ASSUME Given, Base, NEW p \in Person, StartLogin(p) PROVE Base'
  <1>1. /\ Shape /\ OneLogout /\ Heard /\ SignInTypeOK
        /\ pending' = pending \cup {p} /\ pending \subseteq {p} /\ n.logins < MaxLogins
        /\ n' = [n EXCEPT !.logins = @ + 1]
        /\ logins' = logins \cup {[who |-> p, id |-> n.logins + 1, begun |-> FALSE]}
        /\ told' = [told EXCEPT ![p] = 0]
        /\ UNCHANGED <<owner, signingOut, signedIn, terminal, codes, fx, check, lastKnown, notices, crossed, ousted>>
    BY DEF Base, Shape, StartLogin, SeatFree, watch
  <1>2. n.logins \in Nat /\ n.logins + 1 \in Login /\ n'.logins = n.logins + 1 /\ n'.codes = n.codes
        /\ n'.logouts = n.logouts /\ n'.restarts = n.restarts
        /\ n' \in [logins : Nat, codes : Nat, logouts : Nat, restarts : Nat]
    BY <1>1, GivenFacts DEF Shape, Login
  <1>3. n'.logins \in 0 .. MaxLogins
    BY <1>1, <1>2, GivenFacts
  <1>4. told' \in [Person -> {0} \cup Login]
    BY <1>1 DEF SignInTypeOK
  <1>5. logins' \subseteq LoginTask
    <2>1. [who |-> p, id |-> n.logins + 1, begun |-> FALSE] \in LoginTask
      BY <1>2 DEF LoginTask
    <2> QED BY <1>1, <2>1 DEF Shape
  <1>6. SignInTypeOK'
    <2>1. pending' \subseteq Person /\ \A t \in logins' : t.who \in Person /\ t.id \in Login
      BY <1>1, <1>5 DEF LoginTask, SignInTypeOK
    <2>2. n'.codes \in 0 .. MaxCodes /\ n'.logouts \in 0 .. MaxLogouts /\ n'.restarts \in 0 .. MaxRestarts
      BY <1>1, <1>2 DEF SignInTypeOK
    <2>3. SignInTypeOK /\ UNCHANGED <<owner, signingOut, signedIn, terminal, codes, fx, check, lastKnown, notices, crossed>>
      BY <1>1
    <2> QED BY <1>3, <1>4, <2>1, <2>2, <2>3 DEF SignInTypeOK
  <1>7. Shape'
    BY <1>1, <1>2, <1>5, <1>6 DEF Shape
  <1>8. OneLogout' /\ OneWaited' /\ Heard'
    BY <1>1 DEF OneLogout, OneWaited, Heard
  <1> QED BY <1>7, <1>8 DEF Base

\* Steps of the terminal and of the tasks that put no note
LEMMA TerminalBase ==
  ASSUME Given, Base, LoginBegin \/ LinkShows \/ LinkPosted
  PROVE  Base'
  <1>1. /\ Shape /\ OneLogout /\ OneWaited /\ Heard /\ SignInTypeOK
        /\ UNCHANGED <<owner, pending, signingOut, signedIn, codes, fx, n, check, lastKnown, notices, crossed, ousted>>
    BY DEF Base, Shape, LoginBegin, LinkShows, LinkPosted, seat, watch
  <1>2. /\ logins' \subseteq LoginTask
        /\ terminal' \in [id : {0} \cup Login, stage : Stage, by : Nobody]
        /\ told' \in [Person -> {0} \cup Login]
    <2>1. CASE LoginBegin
      <3>1. PICK t \in logins : /\ logins' = (logins \ {t}) \cup {[t EXCEPT !.begun = TRUE]}
                                /\ terminal' = [id |-> t.id, stage |-> "starting", by |-> None]
        BY <2>1 DEF LoginBegin
      <3>2. t \in LoginTask
        BY <1>1 DEF Shape
      <3>3. told' = told
        BY <2>1 DEF LoginBegin
      <3>4. [t EXCEPT !.begun = TRUE] \in LoginTask
        BY <3>2 DEF LoginTask
      <3> QED BY <1>1, <3>1, <3>2, <3>3, <3>4 DEF Shape, SignInTypeOK, Stage, Nobody, LoginTask
    <2>2. CASE LinkShows
      BY <1>1, <2>2 DEF LinkShows, Shape, SignInTypeOK, Stage, Nobody
    <2>3. CASE LinkPosted
      BY <1>1, <2>3 DEF LinkPosted, Shape, SignInTypeOK, Nobody
    <2> QED BY <2>1, <2>2, <2>3
  <1>3. SignInTypeOK'
    BY <1>1, <1>2 DEF SignInTypeOK, Nobody, LoginTask
  <1>4. Shape'
    BY <1>1, <1>2, <1>3 DEF Shape
  <1>5. OneLogout' /\ OneWaited' /\ Heard'
    BY <1>1 DEF OneLogout, OneWaited, Heard
  <1> QED BY <1>4, <1>5 DEF Base

\* A note of a sign-in is put
LEMMA LoginNoteBase ==
  ASSUME Given, Base, NEW x \in NoteRec, x.what = "login", fx' = Append(fx, x),
         logins' \subseteq LoginTask, codes' \subseteq CodeTask,
         UNCHANGED <<owner, pending, signingOut, signedIn, terminal, told, n, check, lastKnown, notices, crossed, ousted>>
  PROVE  Base'
  <1>1. Shape /\ SignInTypeOK /\ OneLogout /\ OneWaited /\ Heard
    BY DEF Base, Shape
  <1>2. /\ fx' \in Seq(NoteRec) /\ Len(fx') = Len(fx) + 1 /\ Len(fx) \in Nat /\ fx'[Len(fx) + 1] = x
        /\ \A i \in 1 .. Len(fx) : fx'[i] = fx[i]
        /\ DOMAIN fx' = 1 .. Len(fx')
    BY <1>1, NotePut
  <1>3. DOMAIN fx = 1 .. Len(fx)
    BY <1>1, Indices
  <1>4. \A i \in DOMAIN fx' : fx'[i].what = "logout" => i \in 1 .. Len(fx) /\ fx'[i] = fx[i]
    BY <1>2
  <1>5. SignInTypeOK'
    BY <1>1, <1>3, <1>4 DEF SignInTypeOK, LoginTask, CodeTask
  <1>6. Shape'
    BY <1>1, <1>2, <1>5 DEF Shape
  <1>7. OneLogout' /\ OneWaited' /\ Heard'
    BY <1>1, <1>2, <1>4 DEF OneLogout, OneWaited, Heard
  <1> QED BY <1>6, <1>7 DEF Base

\* fx \o <<x>> puts one note
LEMMA PutsOne ==
  ASSUME Shape, NEW x \in NoteRec PROVE fx \o <<x>> = Append(fx, x)
  <1>1. fx \in Seq(NoteRec) /\ <<x>> \in Seq(NoteRec)
    BY DEF Shape
  <1>2. fx \o <<x>> \in Seq(NoteRec) /\ Append(fx, x) \in Seq(NoteRec)
    BY <1>1
  <1>3. Len(fx \o <<x>>) = Len(fx) + 1 /\ Len(Append(fx, x)) = Len(fx) + 1 /\ Len(fx) \in Nat
    BY <1>1
  <1>4. \A i \in 1 .. Len(fx) + 1 : (fx \o <<x>>)[i] = Append(fx, x)[i]
    <2> TAKE i \in 1 .. Len(fx) + 1
    <2>1. CASE i \in 1 .. Len(fx)
      BY <1>1, <1>3, <2>1
    <2>2. CASE i = Len(fx) + 1
      BY <1>1, <1>3, <2>2
    <2> QED BY <1>3, <2>1, <2>2
  <1> QED BY <1>2, <1>3, <1>4, SeqEqual

LEMMA GivesUpNote ==
  ASSUME Given, Shape, LoginGivesUp
  PROVE  \E t \in logins, x \in NoteRec :
            /\ logins' = logins \ {t} /\ fx' = Append(fx, x)
            /\ x.what = "login" /\ x.who = t.who /\ x.bound = None /\ t.who \in Person
  <1>1. PICK t \in logins : logins' = logins \ {t} /\ fx' = fx \o NoLink(t)
    BY DEF LoginGivesUp
  <1>2. t.who \in Person /\ t.id \in Nat
    BY GivenFacts DEF Shape, LoginTask
  <1> DEFINE x == Note("login", t.who, None, None, t.id)
  <1>3. x \in NoteRec /\ x.what = "login" /\ x.who = t.who /\ x.bound = None
    BY <1>2 DEF Nobody, Note, NoteRec
  <1>4. NoLink(t) = <<x>>
    BY DEF NoLink
  <1> HIDE DEF x
  <1>5. fx' = Append(fx, x)
    BY <1>1, <1>3, <1>4, PutsOne
  <1> QED BY <1>1, <1>2, <1>3, <1>5

LEMMA CheckedNote ==
  ASSUME Given, Shape, CodeChecked
  PROVE  \E t \in codes, x \in NoteRec :
            /\ codes' = codes \ {t} /\ fx' = Append(fx, x)
            /\ x.what = "login" /\ x.who = t.who /\ t.who \in Person
            /\ x.bound # None => /\ t.typed /\ terminal.stage = "success"
                                 /\ x.bound = t.who /\ x.by = terminal.by /\ x.id = terminal.id
  <1>1. PICK t \in codes : codes' = codes \ {t} /\ fx' = Append(fx, Verdict(t))
    BY DEF CodeChecked
  <1>2. t.who \in Person /\ t.login \in Nat /\ terminal.by \in Nobody /\ terminal.id \in Nat
    BY GivenFacts DEF Shape, CodeTask, SignInTypeOK, Nobody
  <1>3. /\ Verdict(t) \in NoteRec /\ Verdict(t).what = "login" /\ Verdict(t).who = t.who
        /\ Verdict(t).bound # None => /\ t.typed /\ terminal.stage = "success"
                                      /\ Verdict(t).bound = t.who /\ Verdict(t).by = terminal.by
                                      /\ Verdict(t).id = terminal.id
    <2>1. CASE t.typed /\ terminal.stage = "success"
      <3>1. Verdict(t) = Note("login", t.who, t.who, terminal.by, terminal.id)
        BY <2>1 DEF Verdict
      <3> DEFINE x == Note("login", t.who, t.who, terminal.by, terminal.id)
      <3>2. /\ x \in NoteRec /\ x.what = "login" /\ x.who = t.who /\ x.bound = t.who
            /\ x.by = terminal.by /\ x.id = terminal.id
        BY <1>2 DEF Nobody, Note, NoteRec
      <3> HIDE DEF x
      <3>3. Verdict(t) = x
        BY <3>1 DEF x
      <3> QED BY <2>1, <3>2, <3>3
    <2>2. CASE ~(t.typed /\ terminal.stage = "success")
      <3>1. Verdict(t) = Note("login", t.who, None, None, t.login)
        BY <2>2 DEF Verdict
      <3> DEFINE x == Note("login", t.who, None, None, t.login)
      <3>2. x \in NoteRec /\ x.what = "login" /\ x.who = t.who /\ x.bound = None
        BY <1>2 DEF Nobody, Note, NoteRec
      <3> HIDE DEF x
      <3>3. Verdict(t) = x
        BY <3>1 DEF x
      <3> QED BY <3>2, <3>3
    <2> QED BY <2>1, <2>2
  <1> QED BY <1>1, <1>2, <1>3

LEMMA NotesPutBase == ASSUME Given, Base, LoginGivesUp \/ CodeChecked PROVE Base'
  <1>1. Shape
    BY DEF Base
  <1>2. CASE LoginGivesUp
    <2>1. PICK t \in logins, x \in NoteRec : logins' = logins \ {t} /\ fx' = Append(fx, x) /\ x.what = "login"
      BY <1>1, <1>2, GivesUpNote
    <2>2. logins' \subseteq LoginTask /\ codes' \subseteq CodeTask
      BY <1>1, <1>2, <2>1 DEF Shape, LoginGivesUp
    <2>3. UNCHANGED <<owner, pending, signingOut, signedIn, terminal, told, n, check, lastKnown, notices, crossed, ousted>>
      BY <1>2 DEF LoginGivesUp, seat, watch
    <2> QED BY <2>1, <2>2, <2>3, LoginNoteBase
  <1>3. CASE CodeChecked
    <2>1. PICK t \in codes, x \in NoteRec : codes' = codes \ {t} /\ fx' = Append(fx, x) /\ x.what = "login"
      BY <1>1, <1>3, CheckedNote
    <2>2. logins' \subseteq LoginTask /\ codes' \subseteq CodeTask
      BY <1>1, <1>3, <2>1 DEF Shape, CodeChecked
    <2>3. UNCHANGED <<owner, pending, signingOut, signedIn, terminal, told, n, check, lastKnown, notices, crossed, ousted>>
      BY <1>3 DEF CodeChecked, seat, watch
    <2> QED BY <2>1, <2>2, <2>3, LoginNoteBase
  <1> QED BY <1>2, <1>3

LEMMA SubmitCodeBase == ASSUME Given, Base, NEW p \in Person, SubmitCode(p) PROVE Base'
  <1>1. /\ Shape /\ SignInTypeOK /\ OneLogout /\ OneWaited /\ Heard
        /\ n' = [n EXCEPT !.codes = @ + 1] /\ n.codes < MaxCodes
        /\ codes' = codes \cup {[who |-> p, id |-> n.codes + 1, typed |-> FALSE, login |-> told[p]]}
        /\ UNCHANGED <<owner, pending, signingOut, signedIn, terminal, told, logins, fx, check, lastKnown, notices, ousted>>
    BY DEF Base, Shape, SubmitCode, seat, watch
  <1>2. n.codes \in Nat /\ n'.codes = n.codes + 1 /\ n'.logins = n.logins
        /\ n'.logouts = n.logouts /\ n'.restarts = n.restarts
        /\ n' \in [logins : Nat, codes : Nat, logouts : Nat, restarts : Nat]
    BY <1>1 DEF Shape
  <1>3. codes' \subseteq CodeTask
    <2>1. [who |-> p, id |-> n.codes + 1, typed |-> FALSE, login |-> told[p]] \in CodeTask
      BY <1>1, <1>2, GivenFacts DEF CodeTask, SignInTypeOK
    <2> QED BY <1>1, <2>1 DEF Shape
  <1>4. crossed' \subseteq Crossings
    BY <1>1 DEF SubmitCode, SignInTypeOK, Crossings
  <1>5. SignInTypeOK'
    <2>1. \A t \in codes' : t.who \in Person /\ t.typed \in BOOLEAN
      BY <1>3 DEF CodeTask
    <2>2. /\ n'.codes \in 0 .. MaxCodes /\ n'.logouts \in 0 .. MaxLogouts /\ n'.restarts \in 0 .. MaxRestarts
          /\ n'.logins \in 0 .. MaxLogins
      BY <1>1, <1>2, GivenFacts DEF SignInTypeOK
    <2>3. SignInTypeOK /\ UNCHANGED <<owner, pending, signingOut, signedIn, terminal, told, logins, fx, check, lastKnown, notices>>
      BY <1>1
    <2> QED BY <1>4, <2>1, <2>2, <2>3 DEF SignInTypeOK
  <1>6. Shape'
    BY <1>1, <1>2, <1>3, <1>5 DEF Shape
  <1>7. OneLogout' /\ OneWaited' /\ Heard'
    BY <1>1 DEF OneLogout, OneWaited, Heard
  <1> QED BY <1>6, <1>7 DEF Base

LEMMA CodeTypedBase == ASSUME Given, Base, CodeTyped PROVE Base'
  <1>1. /\ Shape /\ SignInTypeOK /\ OneLogout /\ OneWaited /\ Heard
        /\ UNCHANGED <<owner, pending, signingOut, told, logins, fx, n, check, lastKnown, notices, crossed, ousted>>
    BY DEF Base, Shape, CodeTyped, seat, watch
  <1>2. PICK t \in codes :
          /\ codes' = (codes \ {t}) \cup {[t EXCEPT !.typed = TRUE]}
          /\ \/ terminal.stage # "asking" /\ UNCHANGED <<terminal, signedIn>>
             \/ /\ terminal.stage = "asking" /\ terminal' = [terminal EXCEPT !.stage = "error"]
                /\ UNCHANGED signedIn
             \/ /\ terminal' = [terminal EXCEPT !.stage = "success", !.by = t.who]
                /\ signedIn' = TRUE
    BY DEF CodeTyped
  <1>3. t \in CodeTask /\ [t EXCEPT !.typed = TRUE] \in CodeTask /\ t.who \in Person
    BY <1>1 DEF Shape, CodeTask
  <1>4. codes' \subseteq CodeTask
    BY <1>1, <1>2, <1>3 DEF Shape
  <1>5. terminal' \in [id : {0} \cup Login, stage : Stage, by : Person \cup {None}]
    BY <1>1, <1>2, <1>3 DEF SignInTypeOK, Stage
  <1>6. signedIn' \in BOOLEAN /\ (signedIn => signedIn')
    <2>1. CASE signedIn' = signedIn
      BY <1>1, <2>1 DEF SignInTypeOK
    <2>2. CASE signedIn' = TRUE
      BY <2>2
    <2> QED BY <1>2, <2>1, <2>2
  <1>7. \A x \in codes' : x.who \in Person /\ x.typed \in BOOLEAN
    BY <1>4 DEF CodeTask
  <1>8. SignInTypeOK'
    BY <1>1, <1>5, <1>6, <1>7 DEF SignInTypeOK
  <1>9. Shape'
    BY <1>1, <1>4, <1>8 DEF Shape
  <1>10. OneLogout' /\ OneWaited' /\ Heard'
    BY <1>1, <1>6 DEF OneLogout, OneWaited, Heard
  <1> QED BY <1>9, <1>10 DEF Base

LEMMA LoginFinishedBase == ASSUME Given, Base, LoginFinished PROVE Base'
  <1>1. /\ Shape /\ SignInTypeOK /\ OneLogout /\ OneWaited /\ Heard
        /\ fx # <<>> /\ fx' = Tail(fx) /\ terminal' = NoTerminal /\ pending' = pending \ {Head(fx).who}
        /\ owner' = IF Head(fx).bound # None /\ owner = None THEN Head(fx).bound ELSE owner
        /\ UNCHANGED <<signingOut, signedIn, told, logins, codes, n, check, lastKnown, notices, crossed, ousted>>
    BY DEF Base, Shape, LoginFinished, watch
  <1>2. /\ fx' \in Seq(NoteRec) /\ Len(fx') = Len(fx) - 1 /\ Len(fx) \in Nat /\ Len(fx') \in Nat
        /\ \A i \in 1 .. Len(fx') : fx'[i] = fx[i + 1] /\ i + 1 \in 1 .. Len(fx)
        /\ Head(fx) \in NoteRec /\ DOMAIN fx' = 1 .. Len(fx') /\ DOMAIN fx = 1 .. Len(fx)
    BY <1>1, NoteTaken, Indices
  <1>3. owner' \in Person \cup {None}
    <2>1. Head(fx).bound \in Person \cup {None}
      BY <1>2 DEF NoteRec, Nobody
    <2>2. CASE Head(fx).bound # None /\ owner = None
      BY <1>1, <2>1, <2>2
    <2>3. CASE ~(Head(fx).bound # None /\ owner = None)
      BY <1>1, <2>3 DEF SignInTypeOK
    <2> QED BY <2>2, <2>3
  <1>4. terminal' \in [id : {0} \cup Login, stage : Stage, by : Person \cup {None}]
    BY <1>1 DEF NoTerminal, Stage
  <1>5. \A i \in DOMAIN fx' : fx'[i].what = "logout" => signingOut'
    BY <1>1, <1>2 DEF SignInTypeOK
  <1>6. SignInTypeOK'
    BY <1>1, <1>3, <1>4, <1>5 DEF SignInTypeOK
  <1>7. Shape'
    BY <1>1, <1>2, <1>6 DEF Shape
  <1>8. OneLogout'
    <2> SUFFICES ASSUME NEW i \in 1 .. Len(fx'), NEW j \in 1 .. Len(fx'),
                        fx'[i].what = "logout", fx'[j].what = "logout"
                 PROVE  i = j
      BY DEF OneLogout
    <2>1. i + 1 = j + 1
      BY <1>1, <1>2 DEF OneLogout
    <2> QED BY <1>2, <2>1
  <1>9. OneWaited' /\ Heard'
    BY <1>1 DEF OneWaited, Heard
  <1> QED BY <1>7, <1>8, <1>9 DEF Base

LEMMA LogoutFinishedBase == ASSUME Given, Base, LogoutFinished PROVE Base'
  <1>1. /\ Shape /\ SignInTypeOK /\ OneLogout /\ OneWaited /\ Heard
        /\ fx # <<>> /\ fx' = Tail(fx) /\ Head(fx).what = "logout"
        /\ owner' = None /\ pending' = {} /\ signingOut' = FALSE /\ ousted' = 1 .. n.logins
        /\ UNCHANGED <<signedIn, terminal, told, logins, codes, n, check, lastKnown, notices>>
    BY DEF Base, Shape, LogoutFinished, Cleared, watch
  <1>2. /\ fx' \in Seq(NoteRec) /\ Len(fx') = Len(fx) - 1 /\ Len(fx) \in Nat /\ Len(fx') \in Nat
        /\ \A i \in 1 .. Len(fx') : fx'[i] = fx[i + 1] /\ i + 1 \in 1 .. Len(fx) /\ i + 1 # 1
        /\ Head(fx) = fx[1] /\ 1 \in 1 .. Len(fx) /\ DOMAIN fx' = 1 .. Len(fx')
    BY <1>1, NoteTaken
  <1>3. \A i \in 1 .. Len(fx') : fx'[i].what # "logout"
    BY <1>1, <1>2 DEF OneLogout
  <1>4. crossed' \subseteq Crossings
    <2>1. crossed' = crossed \/ crossed' = crossed \cup {"both"}
      BY DEF LogoutFinished
    <2> QED BY <1>1, <2>1 DEF SignInTypeOK, Crossings
  <1>5. SignInTypeOK'
    <2>1. SignInTypeOK /\ UNCHANGED <<signedIn, terminal, told, logins, codes, n, check, lastKnown, notices>>
      BY <1>1
    <2>2. owner' = None /\ pending' = {} /\ signingOut' = FALSE
      BY <1>1
    <2>3. \A i \in DOMAIN fx' : fx'[i].what # "logout"
      BY <1>2, <1>3
    <2> QED BY <1>4, <2>1, <2>2, <2>3 DEF SignInTypeOK
  <1>6. Shape'
    BY <1>1, <1>2, <1>5 DEF Shape
  <1>7. OneLogout'
    BY <1>3 DEF OneLogout
  <1>8. OneWaited' /\ Heard'
    BY <1>1 DEF OneWaited, Heard
  <1> QED BY <1>6, <1>7, <1>8 DEF Base

LEMMA UserLogoutBase == ASSUME Given, Base, UserLogout PROVE Base'
  <1>1. /\ Shape /\ SignInTypeOK /\ OneLogout /\ OneWaited /\ Heard
        /\ n' = [n EXCEPT !.logouts = @ + 1] /\ n.logouts < MaxLogouts /\ signingOut' = TRUE
        /\ UNCHANGED <<owner, pending, signedIn, terminal, told, logins, codes, fx, check, lastKnown, notices, crossed, ousted>>
    BY DEF Base, Shape, UserLogout, watch
  <1>2. n.logouts \in Nat /\ n'.logouts = n.logouts + 1 /\ n'.logins = n.logins
        /\ n'.codes = n.codes /\ n'.restarts = n.restarts
        /\ n' \in [logins : Nat, codes : Nat, logouts : Nat, restarts : Nat]
    BY <1>1 DEF Shape
  <1>3. SignInTypeOK'
    <2>1. /\ n'.codes \in 0 .. MaxCodes /\ n'.logouts \in 0 .. MaxLogouts /\ n'.restarts \in 0 .. MaxRestarts
          /\ n'.logins \in 0 .. MaxLogins
      BY <1>1, <1>2, GivenFacts DEF SignInTypeOK
    <2>2. SignInTypeOK /\ signingOut' = TRUE
          /\ UNCHANGED <<owner, pending, signedIn, terminal, told, logins, codes, fx, check, lastKnown, notices, crossed>>
      BY <1>1
    <2> QED BY <2>1, <2>2 DEF SignInTypeOK
  <1>4. Shape'
    BY <1>1, <1>2, <1>3 DEF Shape
  <1>5. OneLogout' /\ OneWaited' /\ Heard'
    BY <1>1 DEF OneLogout, OneWaited, Heard
  <1> QED BY <1>4, <1>5 DEF Base

\* Credentials that go bad, or stay
LEMMA SignedOutHeard ==
  ASSUME SignInTypeOK, Heard, SignedOutOr({signedIn}) \/ SignedOutOr({}), UNCHANGED <<check, lastKnown>>
  PROVE  Heard' /\ signedIn' \in BOOLEAN /\ notices' \in Nat
  <1>1. CASE signedIn' = signedIn /\ notices' = notices
    BY <1>1 DEF SignInTypeOK, Heard
  <1>2. CASE signedIn' = FALSE /\ notices' = 0
    <2>1. notices' \in {0, 1} /\ notices' # 1 /\ notices' \in Nat
      BY <1>2
    <2>2. signedIn' \in BOOLEAN
      BY <1>2
    <2>3. Heard'
      BY <1>2, <2>1 DEF Heard
    <2> QED BY <2>1, <2>2, <2>3
  <1>3. CASE signedIn' = FALSE /\ signedIn = FALSE /\ notices' = notices
    BY <1>3 DEF SignInTypeOK, Heard
  <1>4. signedIn' = FALSE \/ signedIn' = signedIn
    BY DEF SignedOutOr
  <1>5. notices' = IF signedIn /\ ~signedIn' THEN 0 ELSE notices
    BY DEF SignedOutOr
  <1>6. CASE signedIn' = signedIn
    BY <1>1, <1>5, <1>6
  <1>7. CASE signedIn' = FALSE /\ signedIn
    BY <1>2, <1>5, <1>7
  <1>8. CASE signedIn' = FALSE /\ ~signedIn
    BY <1>3, <1>5, <1>8 DEF SignInTypeOK
  <1> QED BY <1>4, <1>6, <1>7, <1>8

LEMMA ExpiresBase == ASSUME Given, Base, Expires PROVE Base'
  <1>1. /\ Shape /\ SignInTypeOK /\ OneLogout /\ OneWaited /\ Heard /\ SignedOutOr({})
        /\ UNCHANGED <<owner, pending, signingOut, terminal, told, logins, codes, fx, n, check, lastKnown, crossed, ousted>>
    BY DEF Base, Shape, Expires, seat
  <1>2. Heard' /\ signedIn' \in BOOLEAN /\ notices' \in Nat
    BY <1>1, SignedOutHeard
  <1>3. SignInTypeOK'
    BY <1>1, <1>2 DEF SignInTypeOK
  <1>4. Shape'
    BY <1>1, <1>3 DEF Shape
  <1>5. OneLogout' /\ OneWaited'
    BY <1>1 DEF OneLogout, OneWaited
  <1> QED BY <1>2, <1>4, <1>5 DEF Base

LEMMA LogoutRunsBase == ASSUME Given, Base, LogoutRuns PROVE Base'
  <1> DEFINE x == Note("logout", None, None, None, 0)
  <1>1. /\ Shape /\ SignInTypeOK /\ OneLogout /\ OneWaited /\ Heard /\ SignedOutOr({signedIn})
        /\ signingOut /\ (\A i \in DOMAIN fx : fx[i].what # "logout") /\ fx' = Append(fx, x)
        /\ UNCHANGED <<owner, pending, signingOut, terminal, told, logins, codes, n, check, lastKnown, crossed, ousted>>
    BY DEF Base, Shape, LogoutRuns, seat
  <1>2. x \in NoteRec
    BY DEF Note, NoteRec, Nobody
  <1> HIDE DEF x
  <1>3. /\ fx' \in Seq(NoteRec) /\ Len(fx') = Len(fx) + 1 /\ Len(fx) \in Nat
        /\ \A i \in 1 .. Len(fx) : fx'[i] = fx[i]
        /\ DOMAIN fx' = 1 .. Len(fx') /\ DOMAIN fx = 1 .. Len(fx)
    BY <1>1, <1>2, NotePut, Indices
  <1>4. Heard' /\ signedIn' \in BOOLEAN /\ notices' \in Nat
    BY <1>1, SignedOutHeard
  <1>5. SignInTypeOK'
    BY <1>1, <1>4 DEF SignInTypeOK
  <1>6. Shape'
    BY <1>1, <1>3, <1>5 DEF Shape
  <1>7. OneLogout'
    BY <1>1, <1>3 DEF OneLogout
  <1>8. OneWaited'
    BY <1>1 DEF OneWaited
  <1> QED BY <1>4, <1>6, <1>7, <1>8 DEF Base

LEMMA SignInRestartBase == ASSUME Given, Base, SignInRestart PROVE Base'
  <1>1. /\ Shape /\ SignInTypeOK /\ n' = [n EXCEPT !.restarts = @ + 1] /\ n.restarts < MaxRestarts
        /\ pending' = {} /\ signingOut' = FALSE /\ terminal' = NoTerminal
        /\ logins' = {} /\ codes' = {} /\ fx' = <<>>
        /\ check' = "none" /\ lastKnown' = "unknown" /\ notices' = 0
        /\ UNCHANGED <<owner, signedIn, told, crossed, ousted>>
    BY DEF Base, Shape, SignInRestart
  <1>2. n.restarts \in Nat /\ n'.restarts = n.restarts + 1 /\ n'.logins = n.logins
        /\ n'.codes = n.codes /\ n'.logouts = n.logouts
        /\ n' \in [logins : Nat, codes : Nat, logouts : Nat, restarts : Nat]
    BY <1>1 DEF Shape
  <1>3. fx' \in Seq(NoteRec) /\ DOMAIN fx' = {} /\ Len(fx') = 0
    BY <1>1, EmptySeq
  <1>4. SignInTypeOK'
    <2>1. /\ n'.codes \in 0 .. MaxCodes /\ n'.logouts \in 0 .. MaxLogouts /\ n'.restarts \in 0 .. MaxRestarts
          /\ n'.logins \in 0 .. MaxLogins
      BY <1>1, <1>2, GivenFacts DEF SignInTypeOK
    <2>2. terminal' \in [id : {0} \cup Login, stage : Stage, by : Person \cup {None}]
      BY <1>1 DEF NoTerminal, Stage
    <2>3. SignInTypeOK /\ pending' = {} /\ signingOut' = FALSE /\ logins' = {} /\ codes' = {}
          /\ check' = "none" /\ lastKnown' = "unknown" /\ notices' = 0
          /\ UNCHANGED <<owner, signedIn, told, crossed>>
      BY <1>1
    <2> QED BY <1>3, <2>1, <2>2, <2>3 DEF SignInTypeOK
  <1>5. Shape'
    BY <1>1, <1>2, <1>3, <1>4 DEF Shape
  <1>6. OneLogout' /\ OneWaited' /\ Heard'
    BY <1>1, <1>3 DEF OneLogout, OneWaited, Heard
  <1> QED BY <1>5, <1>6 DEF Base

LEMMA WatchBase == ASSUME Given, Base, SignInKick \/ SignInAnswered PROVE Base'
  <1>1. /\ Shape /\ SignInTypeOK /\ OneLogout /\ OneWaited /\ Heard
        /\ UNCHANGED <<owner, pending, signingOut, signedIn, terminal, told, logins, codes, fx, n, crossed, ousted>>
    BY DEF Base, Shape, SignInKick, SignInAnswered, seat
  <1>2. /\ check' \in {"none", "in", "out"} /\ lastKnown' \in {"unknown", "in", "out"}
        /\ notices' \in Nat /\ Heard'
    <2>1. CASE SignInKick
      <3>1. check = "none" /\ lastKnown' = lastKnown /\ notices' = notices
            /\ check' = IF signedIn THEN "in" ELSE "out"
        BY <2>1 DEF SignInKick
      <3>2. CASE signedIn
        BY <1>1, <3>1, <3>2 DEF SignInTypeOK, Heard
      <3>3. CASE ~signedIn
        BY <1>1, <3>1, <3>3 DEF SignInTypeOK, Heard
      <3> QED BY <3>2, <3>3
    <2>2. CASE SignInAnswered
      <3>1. check # "none" /\ check' = "none"
            /\ \/ lastKnown' = check /\ notices' = notices + (IF FoundOut THEN 1 ELSE 0)
               \/ UNCHANGED <<lastKnown, notices>>
        BY <2>2 DEF SignInAnswered
      <3>2. CASE UNCHANGED <<lastKnown, notices>>
        BY <1>1, <3>1, <3>2 DEF SignInTypeOK, Heard
      <3>3. CASE lastKnown' = check /\ notices' = notices + (IF FoundOut THEN 1 ELSE 0)
        <4>1. CASE FoundOut
          BY <1>1, <3>1, <3>3, <4>1 DEF SignInTypeOK, Heard, FoundOut
        <4>2. CASE ~FoundOut
          BY <1>1, <3>1, <3>3, <4>2 DEF SignInTypeOK, Heard, FoundOut
        <4> QED BY <4>1, <4>2
      <3> QED BY <3>1, <3>2, <3>3
    <2> QED BY <2>1, <2>2
  <1>3. SignInTypeOK'
    BY <1>1, <1>2 DEF SignInTypeOK
  <1>4. Shape'
    BY <1>1, <1>3 DEF Shape
  <1>5. OneLogout' /\ OneWaited'
    BY <1>1 DEF OneLogout, OneWaited
  <1> QED BY <1>2, <1>4, <1>5 DEF Base

LEMMA BaseStep == ASSUME Given, Base, [SignInNext]_signInVars PROVE Base'
  <1>1. CASE UNCHANGED signInVars
    <2>1. UNCHANGED <<owner, pending, signingOut, signedIn, terminal, told, logins, codes, fx, n, check, lastKnown, notices, crossed, ousted>>
      BY <1>1 DEF signInVars, watch
    <2>2. SignInTypeOK'
      BY <2>1 DEF Base, Shape, SignInTypeOK
    <2> QED BY <2>1, <2>2 DEF Base, Shape, OneLogout, OneWaited, Heard
  <1>2. CASE SignInNext
    BY <1>2, StartLoginBase, SubmitCodeBase, UserLogoutBase, TerminalBase, NotesPutBase, CodeTypedBase,
       LogoutRunsBase, LoginFinishedBase, LogoutFinishedBase, SignInRestartBase, ExpiresBase, WatchBase
       DEF SignInNext, People, Tasks, Notes
  <1> QED BY <1>1, <1>2

-----------------------------------------------------------------------------
(* What holds as long as nothing came in each other's way.                 *)

LEMMA CleanSame ==
  ASSUME Clean, UNCHANGED <<pending, terminal, told, logins, codes, fx, ousted>>
  PROVE  Clean'
  BY DEF Clean, Seated, Single, Linked, Earned, Bound, LoginNote

LEMMA StartLoginClean == ASSUME Given, Base, Clean, NEW p \in Person, StartLogin(p) PROVE Clean'
  <1> DEFINE x == [who |-> p, id |-> n.logins + 1, begun |-> FALSE]
  <1>1. /\ Shape /\ pending = {} /\ pending' = {p} /\ logins' = logins \cup {x}
        /\ told' = [told EXCEPT ![p] = 0] /\ p \in DOMAIN told
        /\ UNCHANGED <<terminal, codes, fx, ousted>>
    BY DEF Base, Shape, SignInTypeOK, StartLogin, SeatFree
  <1>2. logins = {} /\ codes = {} /\ \A i \in 1 .. Len(fx) : ~LoginNote(i)
    BY <1>1 DEF Clean, Seated
  <1>3. x.who = p /\ x.begun = FALSE /\ x.id \notin ousted
    BY <1>1 DEF Shape
  <1> HIDE DEF x
  <1>4. logins' = {x} /\ codes' = {} /\ told'[p] = 0 /\ \A i \in 1 .. Len(fx') : ~LoginNote(i)'
    BY <1>1, <1>2 DEF LoginNote
  <1>5. Seated' /\ Single'
    BY <1>1, <1>3, <1>4 DEF Seated, Single
  <1>6. Linked'
    BY <1>1, <1>3, <1>4 DEF Linked
  <1>7. Earned' /\ Bound'
    BY <1>1, <1>2 DEF Clean, Earned, Bound, LoginNote
  <1> QED BY <1>5, <1>6, <1>7 DEF Clean

LEMMA LoginBeginClean == ASSUME Given, Base, Clean, LoginBegin PROVE Clean'
  <1>1. PICK t \in logins : /\ logins' = (logins \ {t}) \cup {[t EXCEPT !.begun = TRUE]}
                            /\ terminal' = [id |-> t.id, stage |-> "starting", by |-> None]
    BY DEF LoginBegin
  <1> DEFINE x == [t EXCEPT !.begun = TRUE]
  <1>2. t \in LoginTask /\ UNCHANGED <<pending, told, codes, fx, ousted>> /\ OneWaited
    BY DEF LoginBegin, seat, Base, Shape
  <1>3. x.who = t.who /\ x.id = t.id /\ terminal'.id = t.id /\ terminal'.stage = "starting"
    BY <1>1, <1>2 DEF LoginTask
  <1> HIDE DEF x
  <1>4. logins = {t} /\ codes = {} /\ \A i \in 1 .. Len(fx) : ~LoginNote(i)
    BY <1>1 DEF Clean, Single
  <1>5. logins' = {x} /\ codes' = {} /\ \A i \in 1 .. Len(fx') : ~LoginNote(i)'
    BY <1>1, <1>2, <1>4 DEF x, LoginNote
  <1>6. Seated' /\ Single'
    BY <1>2, <1>3, <1>4, <1>5 DEF Clean, Seated, Single
  <1>7. told[t.who] = 0 /\ t.id \notin ousted /\ t.who \in pending
    BY <1>1 DEF Clean, Linked, Seated
  <1>8. Linked'
    BY <1>2, <1>3, <1>5, <1>7 DEF Linked, OneWaited
  <1>9. Earned' /\ Bound'
    BY <1>2, <1>3 DEF Clean, Earned, Bound
  <1> QED BY <1>6, <1>8, <1>9 DEF Clean

LEMMA LinkShowsClean == ASSUME Given, Base, Clean, LinkShows PROVE Clean'
  <1>1. /\ terminal.stage = "starting" /\ terminal' = [terminal EXCEPT !.stage = "asking"]
        /\ terminal \in [id : {0} \cup Login, stage : Stage, by : Person \cup {None}]
        /\ UNCHANGED <<pending, told, logins, codes, fx, ousted>>
    BY DEF LinkShows, seat, Base, Shape, SignInTypeOK
  <1>2. terminal'.id = terminal.id /\ terminal'.stage = "asking"
    BY <1>1
  <1>3. Seated' /\ Single' /\ Bound'
    BY <1>1 DEF Clean, Seated, Single, Bound, LoginNote
  <1>4. Linked' /\ Earned'
    BY <1>1, <1>2 DEF Clean, Linked, Earned
  <1> QED BY <1>3, <1>4 DEF Clean

LEMMA LinkPostedClean == ASSUME Given, Base, Clean, LinkPosted PROVE Clean'
  <1>1. PICK t \in logins : t.begun /\ logins' = logins \ {t} /\ told' = [told EXCEPT ![t.who] = terminal.id]
    BY DEF LinkPosted
  <1>2. t \in LoginTask /\ UNCHANGED <<pending, terminal, codes, fx, ousted>> /\ OneWaited
        /\ told \in [Person -> {0} \cup Login] /\ pending \subseteq Person
    BY DEF LinkPosted, seat, Base, Shape, SignInTypeOK
  <1>3. logins = {t} /\ codes = {} /\ t.who \in pending /\ \A i \in 1 .. Len(fx) : ~LoginNote(i)
    BY <1>1 DEF Clean, Single, Seated
  <1>4. t.id \notin ousted /\ terminal.id = t.id /\ terminal.stage \in {"starting", "asking"}
    BY <1>1 DEF Clean, Linked
  <1>5. logins' = {} /\ codes' = {} /\ \A i \in 1 .. Len(fx') : ~LoginNote(i)'
    BY <1>1, <1>2, <1>3 DEF LoginNote
  <1>6. Seated' /\ Single'
    BY <1>5 DEF Seated, Single
  <1>7. Linked' /\ Earned'
    BY <1>2, <1>4, <1>5 DEF Linked, Earned
  <1>8. Bound'
    BY <1>2 DEF Clean, Bound
  <1> QED BY <1>6, <1>7, <1>8 DEF Clean

\* The notes after one more was put
LEMMA PutNotes ==
  ASSUME Shape, NEW x \in NoteRec, fx' = Append(fx, x)
  PROVE  /\ Len(fx) + 1 \in 1 .. Len(fx') /\ fx'[Len(fx) + 1] = x
         /\ \A i \in 1 .. Len(fx') :
               \/ i \in 1 .. Len(fx) /\ fx'[i] = fx[i]
               \/ i = Len(fx) + 1 /\ fx'[i] = x
  <1>1. /\ Len(fx') = Len(fx) + 1 /\ Len(fx) \in Nat /\ fx'[Len(fx) + 1] = x
        /\ \A i \in 1 .. Len(fx) : fx'[i] = fx[i]
    BY NotePut
  <1> QED BY <1>1

\* The one task under way ends with its note
LEMMA TaskEndsClean ==
  ASSUME Base, Clean, NEW x \in NoteRec, fx' = Append(fx, x), x.what = "login", x.who \in pending,
         x.bound # None => x.bound = x.by /\ x.id \notin ousted,
         logins' = {}, codes' = {}, \A i \in 1 .. Len(fx) : ~LoginNote(i),
         UNCHANGED <<pending, terminal, told, ousted>>
  PROVE  Clean'
  <1>1. /\ Len(fx) + 1 \in 1 .. Len(fx') /\ fx'[Len(fx) + 1] = x
        /\ \A i \in 1 .. Len(fx') :
              \/ i \in 1 .. Len(fx) /\ fx'[i] = fx[i]
              \/ i = Len(fx) + 1 /\ fx'[i] = x
    BY PutNotes DEF Base
  <1>2. \A i \in 1 .. Len(fx') : LoginNote(i)' => i = Len(fx) + 1 /\ fx'[i] = x
    BY <1>1 DEF LoginNote
  <1>3. \E i \in 1 .. Len(fx') : LoginNote(i)'
    <2>1. fx'[Len(fx) + 1].what = "login"
      BY <1>1
    <2> QED BY <1>1, <2>1 DEF LoginNote
  <1>4. Seated' /\ Single'
    BY <1>2 DEF Seated, Single
  <1>5. Linked'
    BY DEF Clean, Linked
  <1>6. Earned'
    BY <1>1, <1>3 DEF Earned
  <1>7. Bound'
    BY <1>1 DEF Clean, Bound
  <1> QED BY <1>4, <1>5, <1>6, <1>7 DEF Clean

LEMMA LoginGivesUpClean == ASSUME Given, Base, Clean, LoginGivesUp PROVE Clean'
  <1>1. PICK t \in logins, x \in NoteRec :
            /\ logins' = logins \ {t} /\ fx' = Append(fx, x)
            /\ x.what = "login" /\ x.who = t.who /\ x.bound = None /\ t.who \in Person
    BY GivesUpNote DEF Base
  <1>2. UNCHANGED <<pending, terminal, told, codes, ousted>>
    BY DEF LoginGivesUp, seat
  <1>3. logins = {t} /\ codes = {} /\ t.who \in pending /\ \A i \in 1 .. Len(fx) : ~LoginNote(i)
    BY <1>1 DEF Clean, Single, Seated
  <1>4. logins' = {} /\ codes' = {}
    BY <1>1, <1>2, <1>3
  <1> QED BY <1>1, <1>2, <1>3, <1>4, TaskEndsClean

LEMMA CodeCheckedClean == ASSUME Given, Base, Clean, CodeChecked PROVE Clean'
  <1>1. PICK t \in codes, x \in NoteRec :
            /\ codes' = codes \ {t} /\ fx' = Append(fx, x)
            /\ x.what = "login" /\ x.who = t.who /\ t.who \in Person
            /\ x.bound # None => /\ t.typed /\ terminal.stage = "success"
                                 /\ x.bound = t.who /\ x.by = terminal.by /\ x.id = terminal.id
    BY CheckedNote DEF Base
  <1>2. UNCHANGED <<pending, terminal, told, logins, ousted>>
    BY DEF CodeChecked, seat
  <1>3. codes = {t} /\ logins = {} /\ t.who \in pending /\ \A i \in 1 .. Len(fx) : ~LoginNote(i)
    BY <1>1 DEF Clean, Single, Seated
  <1>4. logins' = {} /\ codes' = {}
    BY <1>1, <1>2, <1>3
  <1>5. x.bound # None => x.bound = x.by /\ x.id \notin ousted
    <2> SUFFICES ASSUME x.bound # None PROVE x.bound = x.by /\ x.id \notin ousted
      OBVIOUS
    <2>1. t.who = terminal.by
      BY <1>1, <1>3 DEF Clean, Earned
    <2>2. terminal.id \notin ousted
      BY <1>3 DEF Clean, Linked
    <2> QED BY <1>1, <2>1, <2>2
  <1> QED BY <1>1, <1>2, <1>3, <1>4, <1>5, TaskEndsClean

LEMMA SubmitCodeClean ==
  ASSUME Given, Base, Clean, NEW p \in Person, SubmitCode(p), crossed' = {}
  PROVE  Clean'
  <1> DEFINE x == [who |-> p, id |-> n.codes + 1, typed |-> FALSE, login |-> told[p]]
  <1>1. /\ p \in pending /\ OneWaited /\ codes' = codes \cup {x}
        /\ UNCHANGED <<pending, terminal, told, logins, fx, ousted>>
    BY DEF SubmitCode, seat, Base
  <1>2. x.who = p /\ x.typed = FALSE
    OBVIOUS
  <1> HIDE DEF x
  <1>3. told[p] # 0 /\ ~Checking(p)
    BY DEF SubmitCode
  <1>4. logins = {} /\ codes = {} /\ \A i \in 1 .. Len(fx) : ~LoginNote(i)
    <2>1. logins = {}
      BY <1>1, <1>3 DEF Clean, Seated, Linked, OneWaited
    <2>2. codes = {}
      BY <1>1, <1>3 DEF Clean, Seated, OneWaited, Checking, Of
    <2>3. DOMAIN fx = 1 .. Len(fx)
      BY Indices DEF Base
    <2>4. \A i \in 1 .. Len(fx) : ~LoginNote(i)
      BY <1>1, <1>3, <2>3 DEF Clean, Seated, OneWaited, Checking
    <2> QED BY <2>1, <2>2, <2>4
  <1>5. codes' = {x} /\ logins' = {} /\ \A i \in 1 .. Len(fx') : ~LoginNote(i)'
    BY <1>1, <1>4 DEF LoginNote
  <1>6. Seated' /\ Single'
    BY <1>1, <1>2, <1>5 DEF Seated, Single
  <1>7. Linked'
    BY <1>1, <1>2, <1>3, <1>5 DEF Clean, Linked
  <1>8. Earned' /\ Bound'
    BY <1>1, <1>4 DEF Clean, Earned, Bound
  <1> QED BY <1>6, <1>7, <1>8 DEF Clean

LEMMA CodeTypedClean == ASSUME Given, Base, Clean, CodeTyped PROVE Clean'
  <1>1. PICK t \in codes :
          /\ ~t.typed
          /\ codes' = (codes \ {t}) \cup {[t EXCEPT !.typed = TRUE]}
          /\ \/ UNCHANGED terminal
             \/ terminal.stage = "asking" /\ terminal' = [terminal EXCEPT !.stage = "error"]
             \/ terminal' = [terminal EXCEPT !.stage = "success", !.by = t.who]
    BY DEF CodeTyped
  <1> DEFINE x == [t EXCEPT !.typed = TRUE]
  <1>2. /\ t \in CodeTask /\ UNCHANGED <<pending, told, logins, fx, ousted>>
        /\ terminal \in [id : {0} \cup Login, stage : Stage, by : Person \cup {None}]
    BY DEF CodeTyped, seat, Base, Shape, SignInTypeOK
  <1>3. x.who = t.who /\ x.typed = TRUE
    BY <1>2 DEF CodeTask
  <1>4. codes' = (codes \ {t}) \cup {x}
    BY <1>1
  <1> HIDE DEF x
  <1>5. codes = {t} /\ logins = {} /\ t.who \in pending /\ \A i \in 1 .. Len(fx) : ~LoginNote(i)
    BY <1>1 DEF Clean, Single, Seated
  <1>6. codes' = {x} /\ logins' = {} /\ \A i \in 1 .. Len(fx') : ~LoginNote(i)'
    BY <1>2, <1>4, <1>5 DEF LoginNote
  <1>7. terminal.stage # "success"
    BY <1>1, <1>5 DEF Clean, Earned
  <1>8. terminal'.id = terminal.id /\ (terminal'.stage = "success" => terminal'.by = t.who)
    BY <1>1, <1>2, <1>7
  <1>9. Seated' /\ Single'
    BY <1>2, <1>3, <1>5, <1>6 DEF Seated, Single
  <1>10. told[t.who] # 0
    BY <1>1 DEF Clean, Linked
  <1>11. Linked' /\ Earned' /\ Bound'
    BY <1>2, <1>3, <1>6, <1>8, <1>10 DEF Clean, Linked, Earned, Bound
  <1> QED BY <1>9, <1>11 DEF Clean

LEMMA LoginFinishedClean == ASSUME Given, Base, Clean, LoginFinished PROVE Clean'
  <1>1. /\ fx # <<>> /\ Head(fx).what = "login" /\ fx' = Tail(fx) /\ terminal' = NoTerminal
        /\ pending' = pending \ {Head(fx).who} /\ OneWaited /\ Shape
        /\ UNCHANGED <<told, logins, codes, ousted>>
    BY DEF LoginFinished, Base
  <1>2. /\ Len(fx') \in Nat
        /\ \A i \in 1 .. Len(fx') : fx'[i] = fx[i + 1] /\ i + 1 \in 1 .. Len(fx) /\ i + 1 # 1
        /\ Head(fx) = fx[1] /\ 1 \in 1 .. Len(fx)
    BY <1>1, NoteTaken
  <1>3. LoginNote(1) /\ logins = {} /\ codes = {} /\ Head(fx).who \in pending
    BY <1>1, <1>2 DEF LoginNote, Clean, Single, Seated
  <1>4. pending' = {}
    BY <1>1, <1>3 DEF OneWaited
  <1>5. \A i \in 1 .. Len(fx') : ~LoginNote(i)'
    BY <1>2, <1>3 DEF Clean, Single, LoginNote
  <1>6. Seated' /\ Single' /\ Linked'
    BY <1>1, <1>3, <1>4, <1>5 DEF Seated, Single, Linked
  <1>7. Earned'
    BY <1>1 DEF Earned, NoTerminal
  <1>8. Bound'
    BY <1>1, <1>2 DEF Clean, Bound
  <1> QED BY <1>6, <1>7, <1>8 DEF Clean

LEMMA LogoutFinishedClean ==
  ASSUME Given, Base, Clean, LogoutFinished, crossed' = {}
  PROVE  Clean'
  <1>1. /\ fx # <<>> /\ Head(fx).what = "logout" /\ fx' = Tail(fx) /\ pending' = {} /\ Shape
        /\ UNCHANGED <<terminal, told, logins, codes>>
    BY DEF LogoutFinished, Cleared, Base
  <1>2. logins = {} /\ codes = {} /\ ~(Len(fx) > 1)
    <2>1. CASE logins \cup codes # {} \/ Len(fx) > 1
      <3>1. crossed' = crossed \cup {"both"}
        BY <2>1 DEF LogoutFinished
      <3> QED BY <3>1
    <2>2. CASE ~(logins \cup codes # {} \/ Len(fx) > 1)
      BY <2>2
    <2> QED BY <2>1, <2>2
  <1>3. /\ Len(fx') = Len(fx) - 1 /\ Len(fx) \in Nat \ {0} /\ Head(fx) = fx[1]
    BY <1>1, NoteTaken
  <1>4. Len(fx) = 1 /\ Len(fx') = 0
    BY <1>2, <1>3
  <1>5. \A i \in 1 .. Len(fx) : ~LoginNote(i)
    BY <1>1, <1>3, <1>4 DEF LoginNote
  <1>6. Seated' /\ Single' /\ Linked' /\ Bound'
    <2>1. logins' = {} /\ codes' = {} /\ 1 .. Len(fx') = {}
      <3>1. 1 .. 0 = {}
        OBVIOUS
      <3>2. logins' = {} /\ codes' = {}
        BY <1>1, <1>2
      <3> QED BY <1>4, <3>1, <3>2
    <2>2. Seated' /\ Bound'
      <3>1. \A i \in 1 .. Len(fx') : FALSE
        BY <2>1
      <3> QED BY <2>1, <3>1 DEF Seated, Bound
    <2>3. Single'
      BY <2>1 DEF Single
    <2>4. Linked'
      BY <1>1, <2>1 DEF Linked
    <2> QED BY <2>2, <2>3, <2>4
  <1>7. Earned'
    BY <1>1, <1>2, <1>5 DEF Clean, Earned
  <1> QED BY <1>6, <1>7 DEF Clean

LEMMA LogoutRunsClean == ASSUME Given, Base, Clean, LogoutRuns PROVE Clean'
  <1> DEFINE x == Note("logout", None, None, None, 0)
  <1>1. fx' = Append(fx, x) /\ UNCHANGED <<pending, terminal, told, logins, codes, ousted>> /\ Shape
    BY DEF LogoutRuns, seat, Base
  <1>2. x \in NoteRec /\ x.what = "logout" /\ x.bound = None
    BY DEF Note, NoteRec, Nobody
  <1> HIDE DEF x
  <1>3. /\ \A i \in 1 .. Len(fx') :
              \/ i \in 1 .. Len(fx) /\ fx'[i] = fx[i]
              \/ i = Len(fx) + 1 /\ fx'[i] = x
        /\ \A i \in 1 .. Len(fx) : i \in 1 .. Len(fx') /\ fx'[i] = fx[i]
    BY <1>1, <1>2, PutNotes, NotePut
  <1>4. \A i : LoginNote(i)' <=> LoginNote(i)
    BY <1>2, <1>3 DEF LoginNote
  <1>5. Seated'
    BY <1>1, <1>3, <1>4 DEF Clean, Seated, LoginNote
  <1>6. Single'
    BY <1>1, <1>4 DEF Clean, Single, LoginNote
  <1>7. Linked' /\ Earned'
    BY <1>1, <1>4 DEF Clean, Linked, Earned, LoginNote
  <1>8. Bound'
    BY <1>1, <1>2, <1>3 DEF Clean, Bound
  <1> QED BY <1>5, <1>6, <1>7, <1>8 DEF Clean

LEMMA SignInRestartClean == ASSUME Clean, SignInRestart PROVE Clean'
  <1>1. pending' = {} /\ terminal' = NoTerminal /\ logins' = {} /\ codes' = {} /\ Len(fx') = 0
    BY EmptySeq DEF SignInRestart
  <1> QED BY <1>1 DEF Clean, Seated, Single, Linked, Earned, Bound, LoginNote, NoTerminal

LEMMA CleanStep ==
  ASSUME Given, Base, Clean, [SignInNext]_signInVars, crossed' = {}
  PROVE  Clean'
  <1>1. CASE UNCHANGED signInVars
    BY <1>1, CleanSame DEF signInVars
  <1>2. CASE UserLogout \/ Expires \/ SignInKick \/ SignInAnswered
    BY <1>2, CleanSame DEF UserLogout, Expires, SignInKick, SignInAnswered, seat
  <1>3. CASE SignInNext
    BY <1>2, <1>3, StartLoginClean, LoginBeginClean, LinkShowsClean, LinkPostedClean, LoginGivesUpClean,
       CodeCheckedClean, SubmitCodeClean, CodeTypedClean, LoginFinishedClean, LogoutFinishedClean,
       LogoutRunsClean, SignInRestartClean DEF SignInNext, People, Tasks, Notes
  <1> QED BY <1>1, <1>3

\* What crossed stays on the record
LEMMA CrossedGrows == ASSUME [SignInNext]_signInVars PROVE crossed \subseteq crossed'
  <1>1. CASE LogoutFinished
    BY <1>1 DEF LogoutFinished
  <1>2. CASE \E p \in Person : SubmitCode(p)
    BY <1>2 DEF SubmitCode
  <1>3. CASE UNCHANGED crossed
    BY <1>3
  <1> QED
    BY <1>1, <1>2, <1>3 DEF SignInNext, People, Tasks, Notes, StartLogin, UserLogout, LoginBegin, LinkPosted,
       LoginGivesUp, CodeTyped, CodeChecked, LogoutRuns, LoginFinished, LinkShows, SignInRestart, Expires,
       SignInKick, SignInAnswered, signInVars

LEMMA SInvStep == ASSUME Given, SInv, [SignInNext]_signInVars PROVE SInv'
  <1>1. Base'
    BY BaseStep DEF SInv
  <1>2. crossed' = {} => Clean'
    BY CrossedGrows, CleanStep DEF SInv
  <1> QED BY <1>1, <1>2 DEF SInv

LEMMA SInvIsEnough == ASSUME Given, SInv PROVE OwnerIsWhoSignedIn
  <1>1. OneSeat
    <2>1. CASE pending = {}
      BY <2>1, FS_EmptySet DEF OneSeat
    <2>2. CASE pending # {}
      <3>1. PICK p \in pending : TRUE
        BY <2>2
      <3>2. pending = {p}
        BY DEF SInv, Base, OneWaited
      <3>3. Cardinality({p}) = 1
        BY FS_Singleton
      <3> QED BY <3>2, <3>3 DEF OneSeat
    <2> QED BY <2>1, <2>2
  <1>2. BoundIsWhoSignedIn /\ SignOutHolds
    BY Indices DEF SInv, Base, Clean, Bound, BoundIsWhoSignedIn, SignOutHolds
  <1>3. SignInTypeOK /\ ToldOnce
    BY DEF SInv, Base, Shape, Heard, ToldOnce
  <1> QED BY <1>1, <1>2, <1>3 DEF OwnerIsWhoSignedIn

\* For any people and any number of sign-ins, codes, sign-outs and restarts: one
\* person signs in at a time; unless a message came too early or twice or a
\* sign-out met a sign-in, who becomes the owner typed the code himself and no
\* sign-in from before a sign-out brings an owner back; and the owner hears once
\* of credentials that went bad (start_login, submit_code, LoginFinished,
\* LogoutFinished, on_sign_in_probe).
THEOREM OwnerAlwaysEarned == ASSUME Given PROVE SignInSpec => []OwnerIsWhoSignedIn
  <1>1. SignInInit => SInv
    BY BaseInit
  <1>2. SInv /\ [SignInNext]_signInVars => SInv'
    BY SInvStep
  <1>3. SInv => OwnerIsWhoSignedIn
    BY SInvIsEnough
  <1> QED BY <1>1, <1>2, <1>3, PTL DEF SignInSpec

-----------------------------------------------------------------------------
(* One agent's terminal (Terminal).                                        *)
(*                                                                         *)
(* The invariant has three parts: Formed and Answering say how far a form  *)
(* is filled for each place its walk can be at, and that the frame the     *)
(* walk goes by is the screen but for a key under way; Alone and Owned,    *)
(* that a command has the terminal to itself and that what is in the box   *)
(* or open over it is a task's at work; Changing, Compacting and SaidTrue, *)
(* that nothing a task waits to see can be a sign of an older change.      *)

\* What a screen and its tasks are made of, without the bounds
Value == Levels \cup {Unset, CHOOSE l \in Levels : \A k \in Levels : l <= k}
View == Boxes \cup Modals \cup {"review", "gone"}
Asked == {"one", "many"}
\* A screen, and the book of a task, without the bounds of an instance
Display ==
    [view : View, box : SUBSET {"deliver", "set", "effort", "compact"}, asked : Value, row : Nat, ask : Nat,
     kinds : Seq(Asked), form : BOOLEAN, typed : BOOLEAN, got : Seq(SUBSET Nat),
     sent : BOOLEAN, level : Value, lines : SUBSET Value, status : Value,
     nothing : BOOLEAN, done : BOOLEAN, mode : Nat]
Pc == {"none", "look", "type", "typed", "watch", "walk", "Down", "Up", "moved", "words", "enter", "right",
         "next", "review"}
Task == [pc : Pc, i : Nat, r : Nat, v : Value \cup Nat]
Reply == [how : {"pick", "ticks", "words"}, rows : Seq(Nat)]

\* The type of the state, as far as the proofs need it
TerminalTyped ==
    /\ scr \in Display /\ seen \in [ask : Nat, row : Nat] /\ job \in [Kind -> Task]
    /\ want \in Seq(Reply) /\ setting \in [set : Value, mode : Nat]

\* Every form in the making is a form, and what was sent, or only waits for the
\* review, is what was meant
Meaning == [q \in DOMAIN want |-> Meant(want[q])]
Formed ==
    /\ scr.view = "list" =>
          /\ scr.ask \in 1 .. Len(scr.kinds) /\ Len(scr.got) = Len(scr.kinds)
          /\ scr.form \/ scr.kinds = <<"one">>
    /\ scr.view \in {"list", "review"} => ~scr.sent
    /\ scr.view = "review" \/ scr.sent => scr.got = Meaning

\* What a question of a kind takes, and where the rows of it are
Fits(a, kind) ==
    \/ a.how = "pick" /\ kind = "one" /\ Len(a.rows) = 1 /\ a.rows[1] < Options
    \/ a.how = "words" /\ scr.form /\ Len(a.rows) = 1 /\ a.rows[1] = Options
    \/ a.how = "ticks" /\ kind = "many" /\ Len(a.rows) = 2 /\ a.rows[1] < a.rows[2] /\ a.rows[2] < Options

\* The form is filled up to its open question, and has nothing after it
Filled ==
    /\ scr.view = "list" /\ Len(want) = Len(scr.kinds)
    /\ \A q \in DOMAIN want : Fits(want[q], scr.kinds[q])
    /\ \A q \in DOMAIN want : q < scr.ask => scr.got[q] = Meant(want[q])
    /\ \A q \in DOMAIN want : q > scr.ask => scr.got[q] = {}

\* The stages of the walk over the rows of one question
Stepping == {"walk", "Down", "Up", "moved", "words", "enter", "right"}
Taken == IF A.pc = "right" THEN Meant(want[A.i]) ELSE IF A.r = 1 THEN {} ELSE {want[A.i].rows[1]}

\* The walk is at the question that is open, and has taken the rows before its
\* own; but for a key under way the frame it goes by is the screen
OnItsRow ==
    A.pc \in Stepping =>
        /\ Filled /\ A.i = scr.ask /\ seen.ask = scr.ask /\ scr.got[scr.ask] = Taken
        /\ A.pc \in {"walk", "Down", "Up", "words", "enter"} => seen.row = scr.row
        /\ A.pc \in {"Down", "Up", "moved"} => A.v \in Nat
        /\ A.pc = "Down" => A.v = scr.row /\ scr.row < Target
        /\ A.pc = "Up" => A.v = scr.row /\ scr.row > Target
        /\ A.pc = "moved" => scr.row # A.v /\ seen.row \in {A.v, scr.row}
        /\ A.pc \in {"words", "enter"} => scr.row = Target
        /\ A.pc = "words" => want[A.i].how = "words"
        /\ A.pc = "enter" => (want[A.i].how = "words" => scr.typed)
        /\ A.pc = "right" => want[A.i].how = "ticks"

\* Between two questions: the next one is open, at its top, whether drawn or not
Between ==
    A.pc = "next" /\ A.i < Len(want) =>
        /\ Filled /\ scr.ask = A.i + 1 /\ scr.row = 0 /\ scr.got[scr.ask] = {}
        /\ A.v = A.i /\ seen.ask \in {A.i, scr.ask} /\ (seen.ask = scr.ask => seen.row = 0)

\* Where the walk is: at a row of an answer, between two questions, or done
Answering ==
    /\ A.pc \in Stepping \cup {"none", "next", "review"}
    /\ A.pc # "none" => A.i \in 1 .. Len(want)
    /\ \A q \in DOMAIN want : Len(want[q].rows) > 0
    /\ A.pc \in Stepping \ {"right"} => A.r \in 1 .. Len(want[A.i].rows)
    /\ scr.view = "gone" \/ (OnItsRow /\ Between)

\* A command has the terminal to itself
Alone ==
    /\ \A k \in {"set", "effort", "compact"} : job[k].pc \in {"none", "type", "typed", "watch"}
    /\ job["mode"].pc \in {"none", "type"}
    /\ job["deliver"].pc \in {"none", "look", "type", "typed", "watch"}
    /\ \A k \in Commands : job[k].pc # "none" =>
          /\ \A j \in Kind : j # k => job[j].pc = "none"
          /\ scr.view \in {"input", "confirm", "slider", "compacting", "gone"} /\ scr.box \subseteq {k}

\* What is in the box, and what is open over it, is somebody's at work
Owned ==
    /\ \A k \in {"set", "effort", "compact"} : k \in scr.box => job[k].pc \in {"typed", "watch"}
    /\ scr.box # {} => scr.view \notin {"confirm", "slider", "compacting", "gone"}
    /\ scr.view = "confirm" => job["set"].pc = "watch"
    /\ scr.view = "slider" => job["effort"].pc = "watch"
    /\ scr.view = "compacting" => job["compact"].pc = "watch"
    /\ job["deliver"].pc \in {"type", "typed"} => scr.view \notin {"list", "review"}

\* A setting being changed: what the screen says of it is no older than the change
Changing ==
    /\ scr.status \in {Unset, scr.level}
    /\ job["set"].pc # "none" => job["set"].v \in Levels /\ (job["set"].v \in scr.lines => scr.level = job["set"].v)
    /\ job["set"].pc \in {"typed", "watch"} => scr.asked = job["set"].v
    /\ scr.view = "confirm" => scr.asked # scr.level

\* A compaction being waited for: no sign of its end is an old one
Compacting ==
    LET c == job["compact"]
        sent == c.pc = "watch" /\ scr.box = {} IN
    /\ c.pc # "none" /\ (~sent \/ scr.view = "compacting") => ~scr.nothing
    /\ c.pc # "none" /\ ~sent => c.r = 0
    /\ c.pc # "none" /\ ~sent /\ c.pc # "type" => (c.v = 0 => ~scr.done)
    /\ c.pc = "type" => c.v = 0

\* What was said to be set is set, while no change of it is being pressed in
SaidTrue ==
    /\ setting.set # Unset /\ job["set"].pc \in {"none", "type"} => scr.level = setting.set
    /\ setting.mode # Unset /\ job["mode"].pc = "none" => scr.mode = setting.mode

\* What the commands keep, and the whole invariant
Rest == Alone /\ Owned /\ Changing /\ Compacting /\ SaidTrue

TInv == TerminalTyped /\ Formed /\ Answering /\ Rest

\* Two screens that differ in what the commands change, or in a form, only
SameForm(s, t) ==
    t.row = s.row /\ t.ask = s.ask /\ t.kinds = s.kinds /\ t.form = s.form /\ t.typed = s.typed
    /\ t.got = s.got /\ t.sent = s.sent
SameWork(s, t) ==
    t.asked = s.asked /\ t.level = s.level /\ t.lines = s.lines /\ t.status = s.status
    /\ t.nothing = s.nothing /\ t.done = s.done

\* Nothing reaches a window that is gone
LEMMA GoneStays ==
  ASSUME NEW s, s.view = "gone", NEW key \in {"Enter", "Escape", "Down", "Up", "Right", "text"}, NEW t \in Takes(s, key)
  PROVE  t = s
  <1>1. Entered(s) = {s} /\ Escaped(s) = {s}
    BY DEF Entered, Escaped, Boxes
  <1> QED BY <1>1 DEF Takes

\* Enter in the box
LEMMA EnterInBox ==
  ASSUME NEW s \in Display, s.view \in Boxes, NEW t \in Takes(s, "Enter")
  PROVE  /\ t \in Display /\ SameForm(s, t) /\ t.mode = s.mode /\ t.asked = s.asked /\ t.done = s.done
         /\ \/ t = s
            \/ /\ t.box = {} /\ SameWork(s, t)
               /\ \/ t.view = s.view /\ (s.box = {} \/ s.view # "input")
                  \/ s.view = "input" /\ "deliver" \in s.box /\ t.view = "turn"
                  \/ s.view = "input" /\ "set" \in s.box /\ t.view = "confirm" /\ s.asked # s.level
                  \/ s.view = "input" /\ "effort" \in s.box /\ t.view = "slider"
                  \/ s.view = "input" /\ "compact" \in s.box /\ t.view = "compacting"
            \/ /\ s.view = "input" /\ "set" \in s.box /\ t.view = "input" /\ t.box = {} /\ t.level = s.asked
               /\ t.lines = s.lines \cup {s.asked} /\ t.status = Unset /\ t.nothing = s.nothing
            \/ /\ s.view = "input" /\ "compact" \in s.box /\ t.view = "input" /\ t.box = {} /\ t.nothing = TRUE
               /\ t.level = s.level /\ t.lines = s.lines /\ t.status = s.status
  <1> DEFINE out == [s EXCEPT !.box = {}]
             done == [Set(out) EXCEPT !.lines = @ \cup {s.asked}, !.status = Unset]
  <1>1. t \in Submitted(s)
    BY DEF Takes, Entered, Boxes
  <1>2. s.box = {} \/ "deliver" \in s.box \/ "set" \in s.box \/ "effort" \in s.box \/ "compact" \in s.box
    BY DEF Display
  <1>3. \/ t = s
        \/ t = out /\ (s.box = {} \/ s.view # "input")
        \/ s.view = "input" /\ "deliver" \in s.box /\ t = [out EXCEPT !.view = "turn"]
        \/ s.view = "input" /\ "set" \in s.box /\ t = done
        \/ s.view = "input" /\ "set" \in s.box /\ t = [out EXCEPT !.view = "confirm"] /\ s.asked # s.level
        \/ s.view = "input" /\ "effort" \in s.box /\ t = [out EXCEPT !.view = "slider"]
        \/ s.view = "input" /\ "compact" \in s.box /\ t = [out EXCEPT !.view = "compacting"]
        \/ s.view = "input" /\ "compact" \in s.box /\ t = [out EXCEPT !.nothing = TRUE]
    <2>1. CASE s.box = {} \/ s.view # "input"
      BY <1>1, <2>1 DEF Submitted
    <2>2. CASE s.view = "input" /\ s.box # {} /\ "deliver" \in s.box
      BY <1>1, <2>2 DEF Submitted
    <2>3. CASE s.view = "input" /\ s.box # {} /\ "deliver" \notin s.box /\ "set" \in s.box
      <3>1. t \in {s, done} \cup {c \in {[out EXCEPT !.view = "confirm"]} : s.asked # s.level}
        BY <1>1, <2>3 DEF Submitted
      <3> QED BY <3>1, <2>3
    <2>4. CASE s.view = "input" /\ s.box # {} /\ "deliver" \notin s.box /\ "set" \notin s.box /\ "effort" \in s.box
      BY <1>1, <2>4 DEF Submitted
    <2>5. CASE s.view = "input" /\ s.box # {} /\ "deliver" \notin s.box /\ "set" \notin s.box /\ "effort" \notin s.box
      BY <1>1, <1>2, <2>5 DEF Submitted
    <2> QED BY <2>1, <2>2, <2>3, <2>4, <2>5
  <1>4. out \in Display /\ SameForm(s, out) /\ SameWork(s, out) /\ out.mode = s.mode /\ out.box = {} /\ out.view = s.view
    BY DEF Display, SameForm, SameWork
  <1>5. /\ done \in Display /\ SameForm(s, done) /\ done.mode = s.mode /\ done.view = "input" /\ done.box = {}
        /\ done.asked = s.asked /\ done.level = s.asked /\ done.lines = s.lines \cup {s.asked} /\ done.status = Unset
        /\ done.nothing = s.nothing /\ done.done = s.done
    BY ZenonT(40) DEF Display, SameForm, Set, Value, View, Boxes
  <1> HIDE DEF out, done
  <1>6. ASSUME NEW v \in {"turn", "confirm", "slider", "compacting"}, t = [out EXCEPT !.view = v]
        PROVE  t \in Display /\ SameForm(s, t) /\ SameWork(s, t) /\ t.mode = s.mode /\ t.box = {} /\ t.view = v
    BY <1>4, <1>6 DEF Display, SameForm, SameWork, View, Boxes, Modals
  <1>7. ASSUME t = [out EXCEPT !.nothing = TRUE]
        PROVE  /\ t \in Display /\ SameForm(s, t) /\ t.mode = s.mode /\ t.box = {} /\ t.view = s.view /\ t.nothing = TRUE
               /\ t.asked = s.asked /\ t.level = s.level /\ t.lines = s.lines /\ t.status = s.status /\ t.done = s.done
    BY <1>4, <1>7 DEF Display, SameForm, SameWork
  <1>8. SameForm(s, s) /\ \A u : SameWork(s, u) => u.asked = s.asked /\ u.done = s.done
    BY DEF SameForm, SameWork
  <1> QED BY <1>3, <1>4, <1>5, <1>6, <1>7, <1>8

\* Escape over a box, a slider or a confirmation leaves the box empty
LEMMA EscapeClears ==
  ASSUME NEW s \in Display, s.view \in {"input", "confirm", "slider"}, NEW t \in Takes(s, "Escape"),
         s.view # "input" => s.box = {}
  PROVE  /\ t \in Display /\ SameForm(s, t) /\ t.mode = s.mode /\ t.box = {} /\ t.view = "input"
         /\ t.asked = s.asked /\ t.level = s.level /\ t.lines = s.lines /\ t.status \in {s.status, s.level}
         /\ t.nothing = s.nothing /\ t.done = s.done
  <1>1. t \in Escaped(s)
    BY DEF Takes
  <1>2. CASE s.view = "input"
    <2>1. t = [s EXCEPT !.view = "input", !.box = {}]
      BY <1>1, <1>2 DEF Escaped
    <2> QED BY <2>1 DEF Display, SameForm, View, Boxes
  <1>3. CASE s.view \in {"confirm", "slider"}
    <2>1. t = [s EXCEPT !.view = "input", !.status = s.level]
      BY <1>1, <1>3 DEF Escaped
    <2> QED BY <2>1, <1>3 DEF Display, SameForm, View, Boxes
  <1> QED BY <1>2, <1>3

\* Enter on our own confirmation sets what was asked for
LEMMA EnterConfirms ==
  ASSUME NEW s \in Display, s.view = "confirm", NEW t \in Takes(s, "Enter")
  PROVE  /\ t \in Display /\ SameForm(s, t) /\ t.mode = s.mode /\ t.box = s.box /\ t.view = "input"
         /\ t.asked = s.asked /\ t.level = s.asked /\ t.lines = s.lines /\ t.status = s.asked
         /\ t.nothing = s.nothing /\ t.done = s.done
  <1>1. t \in {[Set(s) EXCEPT !.status = s.asked]}
    BY DEF Takes, Entered, Boxes
  <1>2. Set(s) = [s EXCEPT !.view = "input", !.level = s.asked]
    BY DEF Set
  <1>3. t = [[s EXCEPT !.view = "input", !.level = s.asked] EXCEPT !.status = s.asked]
    BY <1>1, <1>2
  <1> QED BY <1>3 DEF Display, SameForm, View, Boxes

\* What a key in a form leaves alone
SameRest(s, t) == SameWork(s, t) /\ t.mode = s.mode /\ t.box = s.box /\ t.form = s.form

\* On to the next question, the review, or back to work
LEMMA MovesOn ==
  ASSUME NEW s \in Display, s.view = "list", s.ask \in 1 .. Len(s.kinds), NEW t, t = MoveOn(s)
  PROVE  /\ t \in Display /\ SameRest(s, t) /\ t.got = s.got
         /\ \/ /\ s.ask < Len(s.kinds) /\ t.view = "list" /\ t.ask = s.ask + 1 /\ t.row = 0
               /\ t.kinds = s.kinds /\ t.sent = s.sent
            \/ s.ask = Len(s.kinds) /\ s.form /\ t.view = "review" /\ t.sent = s.sent
            \/ s.ask = Len(s.kinds) /\ t.view = "turn" /\ t.sent = TRUE
  <1>1. Len(s.kinds) \in Nat /\ s.ask \in Nat /\ s.ask + 1 \in Nat /\ s.ask <= Len(s.kinds)
    BY DEF Display
  <1>2. CASE s.ask < Len(s.kinds)
    <2>1. t = [s EXCEPT !.ask = s.ask + 1, !.row = 0, !.typed = FALSE]
      BY <1>2 DEF MoveOn
    <2>2. t \in Display
      <3>1. s.ask + 1 \in Nat /\ 0 \in Nat /\ FALSE \in BOOLEAN
        BY <1>1
      <3> QED BY ONLY <3>1, <2>1, s \in Display DEF Display
    <2>3. SameWork(s, t) /\ t.mode = s.mode /\ t.box = s.box /\ t.form = s.form /\ t.got = s.got
      BY <2>1 DEF Display, SameWork
    <2>4. t.view = "list" /\ t.ask = s.ask + 1 /\ t.row = 0 /\ t.kinds = s.kinds /\ t.sent = s.sent
      BY <2>1 DEF Display
    <2> QED BY <1>2, <2>2, <2>3, <2>4 DEF SameRest
  <1>3. CASE s.ask = Len(s.kinds) /\ (s.form /\ Reviewed(s))
    <2>1. t = [s EXCEPT !.view = "review", !.ask = 0, !.row = 0]
      BY <1>1, <1>3 DEF MoveOn
    <2>2. t \in Display
      <3>1. "review" \in View /\ 0 \in Nat
        BY DEF View
      <3> QED BY ONLY <3>1, <2>1, s \in Display DEF Display
    <2>3. SameWork(s, t) /\ t.mode = s.mode /\ t.box = s.box /\ t.form = s.form /\ t.got = s.got
      BY <2>1 DEF Display, SameWork
    <2>4. t.view = "review" /\ t.sent = s.sent
      BY <2>1 DEF Display
    <2> QED BY <1>3, <2>2, <2>3, <2>4 DEF SameRest
  <1>4. CASE s.ask = Len(s.kinds) /\ ~(s.form /\ Reviewed(s))
    <2>1. t = [Closed(s, "turn") EXCEPT !.sent = TRUE]
      BY <1>1, <1>4 DEF MoveOn
    <2>2. Closed(s, "turn") = [s EXCEPT !.view = "turn", !.kinds = <<>>, !.ask = 0, !.row = 0, !.typed = FALSE]
      BY DEF Closed
    <2> DEFINE back == [s EXCEPT !.view = "turn", !.kinds = <<>>, !.ask = 0, !.row = 0, !.typed = FALSE]
    <2>3. back \in Display
      <3>1. <<>> \in Seq(Asked)
        OBVIOUS
      <3> QED BY <3>1 DEF Display, View, Boxes
    <2>4. SameWork(s, back) /\ back.mode = s.mode /\ back.box = s.box /\ back.form = s.form /\ back.got = s.got /\ back.view = "turn"
      BY DEF Display, SameWork
    <2> HIDE DEF back
    <2>5. t = [back EXCEPT !.sent = TRUE]
      BY <2>1, <2>2 DEF back
    <2>6. t \in Display /\ t.sent = TRUE /\ t.view = "turn"
      BY <2>3, <2>4, <2>5 DEF Display
    <2>7. SameWork(s, t) /\ t.mode = s.mode /\ t.box = s.box /\ t.form = s.form /\ t.got = s.got
      BY <2>3, <2>4, <2>5 DEF Display, SameWork
    <2> QED BY <1>4, <2>6, <2>7 DEF SameRest
  <1>5. s.ask < Len(s.kinds) \/ s.ask = Len(s.kinds)
    BY <1>1
  <1> QED BY <1>2, <1>3, <1>4, <1>5

\* A form with one question's rows changed
RowsSet(s, q, rows, t) ==
    /\ SameRest(s, t) /\ t.view = s.view /\ t.row = s.row /\ t.ask = s.ask
    /\ t.kinds = s.kinds /\ t.typed = s.typed /\ t.sent = s.sent
    /\ Len(t.got) = Len(s.got) /\ t.got[q] = rows
    /\ \A j \in 1 .. Len(s.got) : j # q => t.got[j] = s.got[j]

\* Rows taken in an open form leave it a form
LEMMA RowsChange ==
  ASSUME NEW s \in Display, NEW q \in 1 .. Len(s.got), NEW rows \in SUBSET Nat, NEW t, t = [s EXCEPT !.got[q] = rows]
  PROVE  t \in Display /\ RowsSet(s, q, rows, t)
  <1> DEFINE got == [s.got EXCEPT ![q] = rows]
  <1>1. s.got \in Seq(SUBSET Nat)
    BY DEF Display
  <1>2. /\ got \in Seq(SUBSET Nat) /\ Len(got) = Len(s.got)
        /\ \A j \in 1 .. Len(s.got) : got[j] = IF j = q THEN rows ELSE s.got[j]
    BY <1>1, ExceptSeq
  <1>3. t = [s EXCEPT !.got = got]
    OBVIOUS
  <1> HIDE DEF got
  <1>4. t.got = got
    BY <1>3 DEF Display
  <1>5. /\ t \in Display /\ SameRest(s, t) /\ t.view = s.view /\ t.row = s.row /\ t.ask = s.ask
        /\ t.kinds = s.kinds /\ t.typed = s.typed /\ t.sent = s.sent
    BY <1>2, <1>3 DEF Display, SameRest, SameWork
  <1> QED BY <1>2, <1>4, <1>5 DEF RowsSet

\* Enter on a row of the open question
LEMMA TakesRow ==
  ASSUME NEW s \in Display, Options \in Nat, s.view = "list", s.ask \in 1 .. Len(s.kinds), Len(s.got) = Len(s.kinds),
         s.row <= Options, s.row = Options => s.form /\ s.typed, NEW t \in Takes(s, "Enter")
  PROVE  \E rows \in SUBSET Nat : \E u \in Display :
            /\ RowsSet(s, s.ask, rows, u)
            /\ \/ s.row = Options /\ rows = s.got[s.ask] \cup {Options} /\ t = MoveOn(u)
               \/ s.row < Options /\ s.kinds[s.ask] = "many" /\ rows = Ticked(s.got[s.ask], s.row) /\ t = u
               \/ s.row < Options /\ s.kinds[s.ask] # "many" /\ rows = {s.row} /\ t = MoveOn(u)
  <1>1. t = TakeRow(s)
    BY DEF Takes, Entered, Boxes
  <1>2. s.ask \in 1 .. Len(s.got) /\ s.got[s.ask] \in SUBSET Nat /\ s.row \in Nat
    BY DEF Display
  <1>3. ASSUME NEW rows \in SUBSET Nat, NEW u, u = [s EXCEPT !.got[s.ask] = rows]
        PROVE  u \in Display /\ RowsSet(s, s.ask, rows, u)
    BY <1>2, <1>3, RowsChange
  <1>4. CASE s.row = Options
    <2> DEFINE rows == s.got[s.ask] \cup {Options}
               u == [s EXCEPT !.got[s.ask] = rows]
    <2>1. t = MoveOn(u)
      BY <1>1, <1>4 DEF TakeRow
    <2>2. rows \in SUBSET Nat /\ rows = s.got[s.ask] \cup {Options}
      BY <1>2
    <2>3. u \in Display /\ RowsSet(s, s.ask, rows, u)
      BY <1>3, <2>2
    <2> HIDE DEF rows, u
    <2> QED BY <1>4, <2>1, <2>2, <2>3
  <1>5. CASE s.row < Options /\ s.kinds[s.ask] = "many"
    <2> DEFINE rows == Ticked(s.got[s.ask], s.row)
               u == [s EXCEPT !.got[s.ask] = rows]
    <2>1. t = u
      BY <1>1, <1>2, <1>5 DEF TakeRow
    <2>2. rows \in SUBSET Nat /\ rows = Ticked(s.got[s.ask], s.row)
      BY <1>2 DEF Ticked
    <2>3. u \in Display /\ RowsSet(s, s.ask, rows, u)
      BY <1>3, <2>2
    <2> HIDE DEF rows, u
    <2> QED BY <1>5, <2>1, <2>2, <2>3
  <1>6. CASE s.row < Options /\ s.kinds[s.ask] # "many"
    <2> DEFINE rows == {s.row}
               u == [s EXCEPT !.got[s.ask] = rows]
    <2>1. t = MoveOn(u)
      BY <1>1, <1>2, <1>6 DEF TakeRow
    <2>2. rows \in SUBSET Nat /\ rows = {s.row}
      BY <1>2
    <2>3. u \in Display /\ RowsSet(s, s.ask, rows, u)
      BY <1>3, <2>2
    <2> HIDE DEF rows, u
    <2> QED BY <1>6, <2>1, <2>2, <2>3
  <1>7. s.row = Options \/ s.row < Options
    BY <1>2
  <1> QED BY ONLY <1>4, <1>5, <1>6, <1>7

\* What becomes of a task
LEMMA Becomes ==
  ASSUME job \in [Kind -> Task], NEW k \in Kind, NEW r \in Task, Become(k, r)
  PROVE  job' \in [Kind -> Task] /\ job'[k] = r /\ \A j \in Kind : j # k => job'[j] = job[j]
  BY DEF Become

\* A task goes on: the others stay where they are
LEMMA Goes ==
  ASSUME job \in [Kind -> Task], NEW k \in Kind, NEW pc \in Pc, Now(k, pc)
  PROVE  /\ job' \in [Kind -> Task] /\ \A j \in Kind : j # k => job'[j] = job[j]
         /\ job'[k].pc = pc /\ job'[k].i = job[k].i /\ job'[k].r = job[k].r /\ job'[k].v = job[k].v
  <1>1. job[k] \in Task
    OBVIOUS
  <1>2. PICK r : r = [job[k] EXCEPT !.pc = pc]
    OBVIOUS
  <1>3. r \in Task /\ r.pc = pc /\ r.i = job[k].i /\ r.r = job[k].r /\ r.v = job[k].v
    BY <1>1, <1>2 DEF Task
  <1>4. Become(k, r)
    BY <1>2 DEF Now
  <1> QED BY <1>3, <1>4, Becomes

\* A task ends: the others stay where they are
LEMMA Ends ==
  ASSUME job \in [Kind -> Task], NEW k \in Kind, End(k)
  PROVE  job' \in [Kind -> Task] /\ job'[k].pc = "none" /\ \A j \in Kind : j # k => job'[j] = job[j]
  <1>1. Idle \in Task /\ Idle.pc = "none"
    <2>1. Unset \in Value \cup Nat /\ "none" \in Pc
      BY DEF Unset, Pc
    <2> QED BY <2>1 DEF Idle, Task
  <1>2. Become(k, Idle)
    BY DEF End
  <1> QED BY <1>1, <1>2, Becomes

\* A step that touches no form, and no answer, keeps what is said of them
LEMMA DialogStays ==
  ASSUME Formed, Answering, SameForm(scr, scr'), seen' = seen, want' = want, job'["answer"] = job["answer"],
         \/ scr'.view = scr.view
         \/ scr.view \notin {"list", "review", "gone"} /\ scr'.view \notin {"list", "review"}
  PROVE  Formed' /\ Answering'
  <1>1. Meaning' = Meaning /\ A' = A /\ (A.pc)' = A.pc
    BY DEF Meaning, Meant, A
  <1>2. Formed'
    BY <1>1 DEF Formed, SameForm
  <1>3. CASE scr'.view = scr.view
    <2>1. Filled' = Filled /\ Taken' = Taken /\ Target' = Target
      BY <1>1, <1>3 DEF Filled, Fits, Meant, Taken, Target, SameForm
    <2>2. OnItsRow' = OnItsRow
      BY <1>1, <2>1 DEF OnItsRow, SameForm
    <2>3. Between' = Between
      BY <1>1, <2>1 DEF Between, SameForm
    <2> QED BY <1>1, <1>2, <1>3, <2>2, <2>3 DEF Answering
  <1>4. CASE scr.view \notin {"list", "review", "gone"} /\ scr'.view \notin {"list", "review"}
    <2>1. A.pc \notin Stepping /\ ~(A.pc = "next" /\ A.i < Len(want))
      BY <1>4 DEF Answering, OnItsRow, Between, Filled
    <2>2. OnItsRow' /\ Between'
      BY <1>1, <2>1 DEF OnItsRow, Between
    <2> QED BY <1>1, <1>2, <2>1, <2>2 DEF Answering
  <1> QED BY <1>2, <1>3, <1>4

\* A step that touches no command keeps what is said of the commands
LEMMA CommandsStay ==
  ASSUME Rest, SameWork(scr, scr'), scr'.mode = scr.mode, scr'.box = scr.box, setting' = setting,
         \A k \in Kind \ {"answer"} : job'[k] = job[k],
         \A k \in Commands : job[k].pc # "none" => job'["answer"].pc = "none",
         \/ scr'.view = scr.view
         \/ scr.view \in {"list", "review"} /\ scr'.view \in {"list", "review", "turn"}
  PROVE  Rest'
  <1>1. \A k \in {"set", "effort", "compact", "mode", "deliver"} : k \in Kind /\ job'[k] = job[k]
    BY DEF Kind
  <1>2. Commands \subseteq Kind \ {"answer"}
    BY DEF Kind, Commands
  <1>3. Alone'
    BY <1>1, <1>2 DEF Alone, Rest
  <1>4. Owned'
    BY <1>1 DEF Owned, Rest
  <1>5. Changing'
    BY <1>1 DEF Changing, Rest, SameWork
  <1>6. Compacting'
    BY <1>1 DEF Compacting, Rest, SameWork
  <1>7. SaidTrue'
    BY <1>1 DEF SaidTrue, Rest, SameWork
  <1> QED BY <1>3, <1>4, <1>5, <1>6, <1>7 DEF Rest

\* Escape closes what is open, and leaves the rest
LEMMA Closes ==
  ASSUME NEW s \in Display, NEW view \in View, NEW t, t = Closed(s, view)
  PROVE  /\ t \in Display /\ SameRest(s, t) /\ t.got = s.got /\ t.sent = s.sent /\ t.view = view
         /\ t.kinds = <<>> /\ t.ask = 0 /\ t.row = 0
  <1>1. t = [s EXCEPT !.view = view, !.kinds = <<>>, !.ask = 0, !.row = 0, !.typed = FALSE]
    BY DEF Closed
  <1>2. <<>> \in Seq(Asked)
    OBVIOUS
  <1>3. t \in Display
    <2>1. 0 \in Nat /\ FALSE \in BOOLEAN
      OBVIOUS
    <2> QED BY ONLY <1>1, <1>2, <2>1, s \in Display, view \in View DEF Display
  <1>4. SameWork(s, t) /\ t.mode = s.mode /\ t.box = s.box /\ t.form = s.form
    BY <1>1 DEF Display, SameWork
  <1>5. t.got = s.got /\ t.sent = s.sent /\ t.view = view /\ t.kinds = <<>> /\ t.ask = 0 /\ t.row = 0
    BY <1>1 DEF Display
  <1> QED BY <1>3, <1>4, <1>5 DEF SameRest

\* The tasks are as they were
LEMMA TasksStay == ASSUME job' = job PROVE \A k \in Kind : job'[k] = job[k]
  OBVIOUS

\* The kinds of task are six
LEMMA KindsAre ==
  /\ "answer" \in Kind /\ "deliver" \in Kind /\ "set" \in Kind /\ "effort" \in Kind /\ "compact" \in Kind
  /\ "mode" \in Kind /\ Commands \subseteq Kind \ {"answer", "deliver"}
  BY DEF Kind, Commands

\* (AgentAsks) A form that comes up has nothing in it, and only a delivery can be surprised
LEMMA AsksKeeps ==
  ASSUME TerminalGiven, TInv, ~slip', AgentAsks
  PROVE  TInv'
  <1> USE DEF TInv
  <1>1. PICK ks \in Asks, form \in BOOLEAN :
           /\ form \/ ks = <<"one">>
           /\ scr' = [scr EXCEPT !.view = "list", !.kinds = ks, !.form = form, !.ask = 1, !.row = 0,
                                 !.typed = FALSE, !.got = [q \in DOMAIN ks |-> {}], !.sent = FALSE]
    BY DEF AgentAsks
  <1>2. scr.view = "turn" /\ job["deliver"].pc \notin {"type", "typed"}
        /\ job' = job /\ seen' = seen /\ want' = want /\ setting' = setting
    BY DEF AgentAsks
  <1>3. ks \in Seq(Asked) /\ Len(ks) > 0 /\ Len(ks) \in Nat
    BY DEF TerminalGiven, Asked
  <1> DEFINE got == [q \in DOMAIN ks |-> {}]
  <1>4. got \in Seq(SUBSET Nat) /\ Len(got) = Len(ks)
    <2>1. got = [q \in 1 .. Len(ks) |-> {}]
      BY <1>3
    <2> HIDE DEF got
    <2> QED BY <1>3, <2>1
  <1>5. scr' = [scr EXCEPT !.view = "list", !.kinds = ks, !.form = form, !.ask = 1, !.row = 0,
                           !.typed = FALSE, !.got = got, !.sent = FALSE]
    BY <1>1
  <1> HIDE DEF got
  <1>6. scr' \in Display
    BY <1>3, <1>4, <1>5 DEF TerminalTyped, Display, View, Modals
  <1>7. /\ SameWork(scr, scr') /\ scr'.mode = scr.mode /\ scr'.box = scr.box /\ scr'.view = "list"
        /\ scr'.kinds = ks /\ scr'.form = form /\ scr'.ask = 1 /\ scr'.got = got /\ scr'.sent = FALSE
    BY <1>5 DEF TerminalTyped, Display, SameWork
  <1>8. TerminalTyped'
    BY <1>2, <1>6 DEF TerminalTyped
  <1>9. Formed'
    BY <1>1, <1>3, <1>4, <1>7 DEF Formed
  <1>10. A.pc \notin Stepping /\ ~(A.pc = "next" /\ A.i < Len(want)) /\ A' = A
    BY <1>2 DEF Answering, OnItsRow, Between, Filled, A
  <1>11. Answering'
    BY <1>2, <1>10 DEF Answering, OnItsRow, Between
  <1>12. \A k \in Commands : job[k].pc = "none"
    BY <1>2 DEF Rest, Alone
  <1>13. Alone'
    BY <1>2, <1>12 DEF Alone, Rest
  <1>14. Owned'
    BY <1>2, <1>7 DEF Owned, Rest
  <1>15. Changing'
    BY <1>2, <1>7 DEF Changing, Rest, SameWork
  <1>16. Compacting'
    BY <1>2, <1>7, <1>12 DEF Compacting, Rest, SameWork, Commands
  <1>17. SaidTrue'
    BY <1>2, <1>7 DEF SaidTrue, Rest, SameWork
  <1> QED BY <1>8, <1>9, <1>11, <1>13, <1>14, <1>15, <1>16, <1>17 DEF Rest

\* A list closed with nobody answering it
LEMMA ListCloses ==
  ASSUME TInv, scr.view = "list", A.pc = "none", scr' = Closed(scr, "turn"),
         UNCHANGED <<seen, job, want, setting>>
  PROVE  TInv'
  <1> USE DEF TInv
  <1>1. /\ scr' \in Display /\ SameRest(scr, scr') /\ scr'.got = scr.got /\ scr'.sent = scr.sent /\ scr'.view = "turn"
    BY Closes DEF TerminalTyped, View, Boxes
  <1>2. TerminalTyped'
    BY <1>1 DEF TerminalTyped
  <1>3. Formed'
    BY <1>1 DEF Formed
  <1>4. Answering'
    BY DEF Answering, OnItsRow, Between, A, Stepping
  <1>5. \A k \in Kind : job'[k] = job[k]
    OBVIOUS
  <1>6. Rest'
    BY <1>1, <1>5, CommandsStay DEF SameRest, A
  <1> QED BY <1>2, <1>3, <1>4, <1>6

\* (PersonAnswers) A list answered at the machine closes, under no walk or with a slip
LEMMA PersonKeeps ==
  ASSUME TInv, ~slip', PersonAnswers
  PROVE  TInv'
  <1>1. A.pc = "none" /\ scr.view = "list" /\ scr' = Closed(scr, "turn") /\ UNCHANGED <<seen, job, want, setting>>
    BY DEF PersonAnswers, Free, A
  <1> QED BY <1>1, ListCloses

\* (Cancel) A list is cancelled, or it is a slip
LEMMA CancelKeeps ==
  ASSUME TInv, ~slip', Cancel
  PROVE  TInv'
  <1>1. A.pc = "none" /\ scr.view = "list" /\ scr' \in Takes(scr, "Escape") /\ UNCHANGED <<seen, job, want, setting>>
    BY DEF Cancel, Free, A, Press
  <1>2. scr' \in Escaped(scr)
    BY <1>1 DEF Takes
  <1>3. scr' = Closed(scr, "turn")
    BY <1>1, <1>2 DEF Escaped
  <1> QED BY <1>1, <1>3, ListCloses

\* No step
LEMMA AllStay ==
  ASSUME TInv, UNCHANGED <<scr, seen, job, want, setting>>
  PROVE  TInv'
  <1> USE DEF TInv
  <1>1. TerminalTyped'
    BY DEF TerminalTyped
  <1>2. Formed' /\ Answering'
    BY DialogStays DEF SameForm
  <1>3. Rest'
    BY CommandsStay, KindsAre DEF SameWork, Rest, Alone
  <1> QED BY <1>1, <1>2, <1>3

\* (Replies) A reply touches no screen
LEMMA RepliesKeeps ==
  ASSUME TInv, Replies
  PROVE  TInv'
  <1>1. UNCHANGED <<scr, seen, job, want, setting>>
    BY DEF Replies
  <1> QED BY <1>1, AllStay

\* The view changes, and perhaps a compaction is marked done, between two boxes
LEMMA BackToInput ==
  ASSUME TInv, scr.view \in {"turn", "compacting"}, scr' \in Display, SameForm(scr, scr'), scr'.view = "input",
         scr'.box = scr.box, scr'.mode = scr.mode, scr'.asked = scr.asked, scr'.level = scr.level,
         scr'.lines = scr.lines, scr'.status = scr.status, scr'.nothing = scr.nothing,
         scr'.done = scr.done \/ scr.view = "compacting",
         UNCHANGED <<seen, job, want, setting>>
  PROVE  TInv'
  <1> USE DEF TInv
  <1>1. TerminalTyped'
    BY DEF TerminalTyped
  <1>2. Formed' /\ Answering'
    BY DialogStays
  <1>3. Alone'
    BY DEF Alone, Rest
  <1>4. Owned'
    BY DEF Owned, Rest
  <1>5. Changing'
    BY DEF Changing, Rest
  <1>6. Compacting'
    BY DEF Compacting, Owned, Alone, Rest, Commands
  <1>7. SaidTrue'
    BY DEF SaidTrue, Rest
  <1> QED BY <1>1, <1>2, <1>3, <1>4, <1>5, <1>6, <1>7 DEF Rest

\* (TurnIsOver) A turn ends and the box is the input again
LEMMA TurnOverKeeps ==
  ASSUME TInv, TurnIsOver
  PROVE  TInv'
  <1>1. scr' = [scr EXCEPT !.view = "input"] /\ scr.view = "turn" /\ UNCHANGED <<seen, job, want, setting>> /\ scr \in Display
    BY DEF TurnIsOver, TInv, TerminalTyped
  <1>2. /\ scr' \in Display /\ SameForm(scr, scr') /\ scr'.view = "input"
        /\ scr'.box = scr.box /\ scr'.mode = scr.mode /\ scr'.asked = scr.asked /\ scr'.level = scr.level
        /\ scr'.lines = scr.lines /\ scr'.status = scr.status /\ scr'.nothing = scr.nothing /\ scr'.done = scr.done
    BY <1>1 DEF Display, SameForm, View, Boxes
  <1> QED BY <1>1, <1>2, BackToInput

\* (CompactionEnds) A compaction ends, and the screen says so
LEMMA CompactionEndsKeeps ==
  ASSUME TInv, CompactionEnds
  PROVE  TInv'
  <1>1. /\ scr' = [scr EXCEPT !.view = "input", !.done = TRUE] /\ scr.view = "compacting" /\ scr \in Display
        /\ UNCHANGED <<seen, job, want, setting>>
    BY DEF CompactionEnds, TInv, TerminalTyped
  <1>2. /\ scr' \in Display /\ SameForm(scr, scr') /\ scr'.view = "input"
        /\ scr'.box = scr.box /\ scr'.mode = scr.mode /\ scr'.asked = scr.asked /\ scr'.level = scr.level
        /\ scr'.lines = scr.lines /\ scr'.status = scr.status /\ scr'.nothing = scr.nothing
    BY <1>1 DEF Display, SameForm, View, Boxes
  <1> QED BY <1>1, <1>2, BackToInput

\* (WindowDies) A window that is gone takes what was open over its box with it
LEMMA DiesKeeps ==
  ASSUME TInv, WindowDies
  PROVE  TInv'
  <1> USE DEF TInv
  <1> DEFINE t == Closed(scr, "gone")
  <1>1. /\ t \in Display /\ SameRest(scr, t) /\ t.got = scr.got /\ t.sent = scr.sent /\ t.view = "gone"
    BY Closes DEF TerminalTyped, View
  <1> HIDE DEF t
  <1>2. scr' = [t EXCEPT !.box = {}] /\ UNCHANGED <<seen, job, want, setting>>
    BY DEF WindowDies, t
  <1>3. /\ scr' \in Display /\ SameWork(scr, scr') /\ scr'.mode = scr.mode /\ scr'.got = scr.got /\ scr'.sent = scr.sent
        /\ scr'.view = "gone" /\ scr'.box = {}
    BY <1>1, <1>2 DEF Display, SameRest, SameWork
  <1>4. TerminalTyped'
    BY <1>2, <1>3 DEF TerminalTyped
  <1>5. Formed'
    BY <1>2, <1>3 DEF Formed, Meaning
  <1>6. Answering'
    BY <1>2, <1>3 DEF Answering, A
  <1>7. Alone'
    BY <1>2, <1>3 DEF Alone, Rest
  <1>8. Owned'
    BY <1>2, <1>3 DEF Owned, Rest
  <1>9. Changing'
    BY <1>2, <1>3 DEF Changing, Rest, SameWork
  <1>10. Compacting'
    BY <1>2, <1>3 DEF Compacting, Rest, SameWork
  <1>11. SaidTrue'
    BY <1>2, <1>3 DEF SaidTrue, Rest, SameWork
  <1> QED BY <1>4, <1>5, <1>6, <1>7, <1>8, <1>9, <1>10, <1>11 DEF Rest

\* (Redraw) The frame catches up with the screen
LEMMA RedrawKeeps ==
  ASSUME TInv, Redraw
  PROVE  TInv'
  <1> USE DEF TInv
  <1>1. seen' = [ask |-> scr.ask, row |-> scr.row] /\ UNCHANGED <<scr, job, want, setting>>
    BY DEF Redraw, Frame
  <1>2. scr.ask \in Nat /\ scr.row \in Nat
    BY DEF TerminalTyped, Display
  <1>3. TerminalTyped'
    BY <1>1, <1>2 DEF TerminalTyped
  <1>4. Formed'
    BY <1>1 DEF Formed, Meaning
  <1>5. A' = A /\ (A.pc)' = A.pc /\ Filled' = Filled /\ Taken' = Taken /\ Target' = Target
    BY <1>1 DEF A, Filled, Taken, Target, Fits, Meant
  <1>6. seen'.ask = scr.ask /\ seen'.row = scr.row
    BY <1>1
  <1>7. OnItsRow => OnItsRow'
    BY <1>1, <1>2, <1>5, <1>6 DEF OnItsRow
  <1>8. Between => Between'
    BY <1>1, <1>5, <1>6 DEF Between
  <1>9. Answering'
    BY <1>1, <1>5, <1>7, <1>8 DEF Answering
  <1>10. Rest'
    BY <1>1, CommandsStay, KindsAre DEF SameWork, Rest, Alone
  <1> QED BY <1>3, <1>4, <1>9, <1>10

\* (StartCommand) A command starts where it finds the terminal free
LEMMA StartKeeps ==
  ASSUME TerminalGiven, TInv, ~slip', NEW k \in Commands, StartCommand(k)
  PROVE  TInv'
  <1> USE DEF TInv
  <1>1. PICK v \in CASE k = "set" -> Levels [] k = "mode" -> 1 .. ModeCycle [] OTHER -> {Unset} :
          /\ Become(k, [Idle EXCEPT !.pc = "type", !.v = v])
          /\ slip' = \/ slip \/ Busy(Kind) # {} \/ scr.box # {} \/ scr.view # "input"
                     \/ k = "set" /\ v \in scr.lines /\ scr.level # v
                     \/ k = "compact" /\ scr.nothing
    BY DEF StartCommand
  <1>2. UNCHANGED <<scr, seen, want, setting>>
    BY DEF StartCommand
  <1>3. /\ \A j \in Kind : job[j].pc = "none"
        /\ scr.box = {} /\ scr.view = "input" /\ (k = "set" /\ v \in scr.lines => scr.level = v)
        /\ (k = "compact" => ~scr.nothing)
    BY <1>1 DEF Busy, Free
  <1>4. (k = "set" => v \in Levels) /\ (k # "set" => v \in Nat) /\ (k = "compact" => v = 0)
    BY <1>1 DEF Commands, TerminalGiven, Unset
  <1>5. v \in Value \cup Nat
    BY <1>4 DEF Value
  <1> DEFINE r == [Idle EXCEPT !.pc = "type", !.v = v]
  <1>6. r \in Task /\ r.pc = "type" /\ r.i = 0 /\ r.r = 0 /\ r.v = v
    BY <1>5 DEF Task, Idle, Pc
  <1> HIDE DEF r
  <1>7. k \in Kind /\ k # "answer" /\ k # "deliver"
    BY DEF Commands, Kind
  <1>8. job' \in [Kind -> Task] /\ job'[k] = r /\ \A j \in Kind : j # k => job'[j] = job[j]
    BY <1>1, <1>6, <1>7, Becomes DEF r, TerminalTyped
  <1>9. TerminalTyped'
    BY <1>2, <1>8 DEF TerminalTyped
  <1>10. Formed' /\ Answering'
    BY <1>2, <1>7, <1>8, DialogStays, KindsAre DEF SameForm
  <1>11. Alone'
    <2>1. \A j \in Kind : j # k => job'[j].pc = "none"
      BY <1>3, <1>8
    <2>2. \A j \in {"set", "effort", "compact"} : job'[j].pc \in {"none", "type"}
      BY <1>6, <1>8, <2>1, KindsAre
    <2>3. job'["mode"].pc \in {"none", "type"} /\ job'["deliver"].pc = "none"
      BY <1>6, <1>7, <1>8, <2>1, KindsAre
    <2>4. \A j \in Commands : job'[j].pc # "none" => j = k
      BY <2>1, KindsAre
    <2> QED BY <1>2, <1>3, <2>1, <2>2, <2>3, <2>4 DEF Alone
  <1>12. Owned'
    BY <1>2, <1>3, <1>7, <1>8, KindsAre DEF Owned
  <1>13. Changing'
    BY <1>2, <1>3, <1>4, <1>6, <1>8, KindsAre DEF Changing, Rest
  <1>14. Compacting'
    BY <1>2, <1>3, <1>4, <1>6, <1>8, KindsAre DEF Compacting, Rest
  <1>15. SaidTrue'
    BY <1>2, <1>3, <1>6, <1>8, KindsAre DEF SaidTrue, Rest
  <1> QED BY <1>9, <1>10, <1>11, <1>12, <1>13, <1>14, <1>15 DEF Rest

\* While a command is at work, nobody else is, and nothing asks
LEMMA OneWorks ==
  ASSUME TInv, NEW k \in Commands, job[k].pc # "none"
  PROVE  /\ k \in Kind /\ \A j \in Kind : j # k => job[j].pc = "none"
         /\ A.pc = "none" /\ job["deliver"].pc = "none"
         /\ scr.view \in {"input", "confirm", "slider", "compacting", "gone"} /\ scr.box \subseteq {k}
  <1>1. k \in Kind /\ k # "answer" /\ k # "deliver"
    BY KindsAre
  <1>2. /\ \A j \in Kind : j # k => job[j].pc = "none"
        /\ scr.view \in {"input", "confirm", "slider", "compacting", "gone"} /\ scr.box \subseteq {k}
    BY DEF TInv, Rest, Alone
  <1> QED BY <1>1, <1>2, KindsAre DEF A

\* A command's end, with the box empty and nothing open over it
LEMMA CommandEnds ==
  ASSUME TInv, NEW k \in Commands, job[k].pc # "none", End(k), seen' = seen, want' = want,
         scr' \in Display, SameForm(scr, scr'), scr'.view \in {"input", "gone"}, scr.view = "gone" => scr'.view = "gone",
         scr'.box = {}, scr'.status \in {Unset, scr'.level}, setting' \in [set : Value, mode : Nat], SaidTrue'
  PROVE  TInv'
  <1> USE DEF TInv
  <1>1. /\ k \in Kind /\ \A j \in Kind : j # k => job[j].pc = "none"
        /\ scr.view \in {"input", "confirm", "slider", "compacting", "gone"}
    BY OneWorks
  <1>2. job' \in [Kind -> Task] /\ job'[k].pc = "none" /\ \A j \in Kind : j # k => job'[j] = job[j]
    BY <1>1, Ends DEF TerminalTyped
  <1>3. \A j \in Kind : job'[j].pc = "none"
    BY <1>1, <1>2
  <1>4. TerminalTyped'
    BY <1>2 DEF TerminalTyped
  <1>5. k # "answer" /\ job'["answer"] = job["answer"]
    BY <1>2, KindsAre
  <1>6. Formed' /\ Answering'
    BY <1>1, <1>5, DialogStays
  <1>7. Alone'
    BY <1>3, KindsAre DEF Alone
  <1>8. Owned'
    BY <1>3, KindsAre DEF Owned
  <1>9. Changing'
    BY <1>3, KindsAre DEF Changing
  <1>10. Compacting'
    BY <1>3, KindsAre DEF Compacting
  <1> QED BY <1>4, <1>6, <1>7, <1>8, <1>9, <1>10 DEF Rest

\* (TypeCommand) A command is typed into an empty box
LEMMA TypeKeeps ==
  ASSUME TInv, NEW k \in {"set", "effort", "compact"}, TypeCommand(k)
  PROVE  TInv'
  <1> USE DEF TInv
  <1>1. k \in Commands /\ job[k].pc = "type" /\ UNCHANGED <<seen, want, setting>>
    BY DEF Commands, TypeCommand, At
  <1>2. /\ k \in Kind /\ (\A j \in Kind : j # k => job[j].pc = "none") /\ scr.box = {}
        /\ scr.view \in {"input", "confirm", "slider", "compacting", "gone"} /\ scr.box \subseteq {k}
    <2>1. k \notin scr.box
      BY <1>1 DEF Rest, Owned
    <2> QED BY <1>1, <2>1, OneWorks
  <1>3. scr.view \in {"input", "gone"}
    BY <1>1, <1>2, KindsAre DEF Rest, Owned
  <1>4. CASE scr.view = "gone"
    <2>1. End(k) /\ scr' = scr
      BY <1>4 DEF TypeCommand
    <2>2. job'[k].pc = "none" /\ \A j \in Kind : j # k => job'[j] = job[j]
      BY <1>2, <2>1, Ends DEF TerminalTyped
    <2>3. SaidTrue'
      BY <1>1, <1>2, <2>1, <2>2, KindsAre DEF SaidTrue, Rest
    <2> QED BY <1>1, <1>2, <1>4, <2>1, <2>3, CommandEnds DEF SameForm, TerminalTyped, Rest, Changing
  <1>5. CASE scr.view = "input"
    <2> DEFINE v == IF k = "set" THEN job[k].v ELSE scr.asked
               w == IF k = "compact" /\ scr.done THEN 1 ELSE job[k].v
               r == [job[k] EXCEPT !.pc = "typed", !.v = w]
    <2>1. scr' = Typed(scr, k, v) /\ Become(k, r)
      BY <1>5 DEF TypeCommand
    <2>2. job[k] \in Task /\ w \in Value \cup Nat
      BY <1>2 DEF TerminalTyped, Task
    <2>3. r \in Task /\ r.pc = "typed" /\ r.r = job[k].r /\ r.v = w
      BY <2>2 DEF Task, Pc
    <2> HIDE DEF r
    <2>4. job' \in [Kind -> Task] /\ job'[k] = r /\ \A j \in Kind : j # k => job'[j] = job[j]
      BY <1>2, <2>1, <2>3, Becomes DEF TerminalTyped
    <2>5. v \in Value
      BY <1>1 DEF Rest, Changing, Value, TerminalTyped, Display
    <2> HIDE DEF v, w
    <2>6. scr' = [scr EXCEPT !.box = scr.box \cup {k}, !.asked = v]
      BY <1>5, <2>1 DEF Typed, Boxes
    <2>7. /\ scr' \in Display /\ SameForm(scr, scr') /\ scr'.view = "input" /\ scr'.mode = scr.mode
          /\ scr'.box = {k} /\ scr'.asked = v /\ scr'.level = scr.level /\ scr'.lines = scr.lines
          /\ scr'.status = scr.status /\ scr'.nothing = scr.nothing /\ scr'.done = scr.done
      BY <1>2, <1>5, <2>5, <2>6 DEF TerminalTyped, Display, SameForm
    <2>8. TerminalTyped'
      BY <1>1, <2>4, <2>7 DEF TerminalTyped
    <2>9. Formed' /\ Answering'
      BY <1>1, <1>5, <2>4, <2>7, DialogStays, KindsAre
    <2>10. \A j \in Kind : j # k => job'[j].pc = "none"
      BY <1>2, <2>4
    <2>11. Alone'
      <3>1. \A j \in {"set", "effort", "compact"} : job'[j].pc \in {"none", "typed"}
        BY <2>3, <2>4, <2>10, KindsAre
      <3>2. \A j \in Commands : job'[j].pc # "none" => j = k
        BY <2>10, KindsAre
      <3> QED BY <1>1, <2>7, <2>10, <3>1, <3>2, KindsAre DEF Alone
    <2>12. Owned'
      BY <1>1, <2>3, <2>4, <2>7, <2>10, KindsAre DEF Owned
    <2>13. Changing'
      BY <1>1, <1>2, <2>3, <2>4, <2>7, <2>10, KindsAre DEF Changing, Rest, v, w
    <2>14. Compacting'
      BY <1>1, <1>2, <2>3, <2>4, <2>7, <2>10, KindsAre DEF Compacting, Rest, w
    <2>15. SaidTrue'
      BY <1>1, <1>2, <2>3, <2>4, <2>7, <2>10, KindsAre DEF SaidTrue, Rest
    <2> QED BY <2>8, <2>9, <2>11, <2>12, <2>13, <2>14, <2>15 DEF Rest
  <1> QED BY <1>3, <1>4, <1>5

\* Enter, pressed by a command for what it typed or for its own confirmation
LEMMA EnterByCommand ==
  ASSUME TInv, NEW k \in {"set", "effort", "compact"}, job[k].pc \in {"typed", "watch"}, scr' \in Takes(scr, "Enter"),
         scr.view \in {"input", "gone"} \/ (scr.view = "confirm" /\ k = "set"),
         job' \in [Kind -> Task], \A j \in Kind : j # k => job'[j] = job[j],
         job'[k].pc = "watch", job'[k].v = job[k].v, job'[k].r = job[k].r \/ k = "set",
         UNCHANGED <<seen, want, setting>>
  PROVE  TInv'
  <1> USE DEF TInv
  <1>1. k \in Commands /\ job[k].pc # "none"
    BY DEF Commands
  <1>2. /\ k \in Kind /\ (\A j \in Kind : j # k => job[j].pc = "none") /\ scr.box \subseteq {k}
    BY <1>1, OneWorks
  <1>3. \A j \in Kind : j # k => job'[j].pc = "none"
    BY <1>2
  <1>4. scr \in Display
    BY DEF TerminalTyped
  <1> DEFINE Shown1 == scr' \in Display /\ SameForm(scr, scr') /\ scr'.mode = scr.mode /\ scr'.asked = scr.asked /\ scr'.done = scr.done
             Stay == scr' = scr
             Empty == scr'.box = {} /\ SameWork(scr, scr') /\ scr'.view = scr.view
             Opens(name, view) == k = name /\ k \in scr.box /\ scr'.box = {} /\ SameWork(scr, scr') /\ scr'.view = view
             Sets == /\ k = "set" /\ scr'.view = "input" /\ scr'.box = {} /\ scr'.level = scr.asked
                     /\ scr'.lines \in {scr.lines, scr.lines \cup {scr.asked}} /\ scr'.status \in {Unset, scr'.level}
                     /\ scr'.nothing = scr.nothing
             Nought == /\ k = "compact" /\ scr'.view = "input" /\ scr'.box = {} /\ scr'.nothing = TRUE
                       /\ scr'.level = scr.level /\ scr'.lines = scr.lines /\ scr'.status = scr.status
  <1>5. /\ Shown1
        /\ \/ Stay \/ Empty \/ (Opens("set", "confirm") /\ scr.asked # scr.level) \/ Opens("effort", "slider")
           \/ Opens("compact", "compacting") \/ Sets \/ Nought
    <2>1. CASE scr.view = "gone"
      <3>1. scr' = scr
        BY <2>1, GoneStays
      <3> QED BY <1>4, <3>1 DEF SameForm
    <2>2. CASE scr.view = "confirm" /\ k = "set"
      <3>1. scr.box = {}
        BY <2>2 DEF Rest, Owned
      <3> QED BY <1>4, <2>2, <3>1, EnterConfirms DEF SameWork
    <2>3. CASE scr.view = "input"
      <3>1. scr.view \in Boxes /\ "deliver" \notin scr.box
        BY <1>2, <2>3 DEF Boxes
      <3>2. \A x \in {"set", "effort", "compact"} : x \in scr.box => k = x
        BY <1>2
      <3>3. \/ scr' = scr
            \/ /\ scr'.box = {} /\ SameWork(scr, scr')
               /\ \/ scr'.view = scr.view
                  \/ k = "set" /\ k \in scr.box /\ scr'.view = "confirm" /\ scr.asked # scr.level
                  \/ k = "effort" /\ k \in scr.box /\ scr'.view = "slider"
                  \/ k = "compact" /\ k \in scr.box /\ scr'.view = "compacting"
            \/ Sets \/ Nought
        BY <1>4, <2>3, <3>1, <3>2, EnterInBox, ZenonT(40)
      <3>4. Shown1
        BY <1>4, <3>1, EnterInBox
      <3> QED BY <2>3, <3>3, <3>4
    <2> QED BY <2>1, <2>2, <2>3
  <1>6. TerminalTyped'
    BY <1>5 DEF TerminalTyped
  <1>7. scr'.view \in {"input", "confirm", "slider", "compacting", "gone"} /\ scr'.box \subseteq {k}
        /\ (scr.view = "gone" => scr'.view = "gone")
    BY <1>2, <1>5, GoneStays
  <1>8. job'["answer"] = job["answer"]
    BY KindsAre
  <1>9. Formed' /\ Answering'
    BY <1>5, <1>7, <1>8, DialogStays, GoneStays
  <1>10. Alone'
    <2>1. \A j \in {"set", "effort", "compact"} : job'[j].pc \in {"none", "watch"}
      BY <1>3, KindsAre
    <2>2. \A j \in Commands : job'[j].pc # "none" => j = k
      BY <1>3, KindsAre
    <2>3. job'["mode"].pc = "none" /\ job'["deliver"].pc = "none"
      BY <1>3, KindsAre
    <2> QED BY <1>3, <1>7, <2>1, <2>2, <2>3 DEF Alone
  <1>11. Owned'
    <2>1. job'["deliver"].pc = "none"
      BY <1>3, KindsAre
    <2>2. \A j \in {"set", "effort", "compact"} : j \in scr'.box => job'[j].pc = "watch"
      BY <1>7
    <2>3. (scr'.view = "confirm" => k = "set") /\ (scr'.view = "slider" => k = "effort")
          /\ (scr'.view = "compacting" => k = "compact")
      BY <1>3, <1>5, <1>7, <1>2, KindsAre DEF Rest, Owned
    <2>4. scr'.box # {} => scr'.view \notin {"confirm", "slider", "compacting", "gone"}
      BY <1>5, GoneStays DEF Rest, Owned
    <2> QED BY <2>1, <2>2, <2>3, <2>4 DEF Owned
  <1>12. Changing'
    <2>1. CASE k = "set"
      <3>1. scr.asked = job["set"].v /\ job'["set"].v = job["set"].v
        BY <2>1 DEF Rest, Changing
      <3> QED BY <1>1, <1>5, <2>1, <3>1 DEF Rest, Changing, SameWork
    <2>2. CASE k # "set"
      <3>1. job'["set"].pc = "none" /\ scr'.view # "confirm"
        BY <1>3, <1>5, <2>2, <1>2, KindsAre DEF Rest, Owned
      <3> QED BY <1>5, <2>2, <3>1 DEF Rest, Changing, SameWork
    <2> QED BY <2>1, <2>2
  <1>13. Compacting'
    <2>1. CASE k = "compact"
      BY <1>5, <1>1, <2>1 DEF Rest, Compacting, SameWork, Owned
    <2>2. CASE k # "compact"
      BY <1>3, <2>2, KindsAre DEF Compacting
    <2> QED BY <2>1, <2>2
  <1>14. SaidTrue'
    <2>1. CASE k = "set"
      BY <1>5, <2>1, <1>3, KindsAre DEF Rest, SaidTrue, SameWork
    <2>2. CASE k # "set"
      BY <1>5, <2>2, <1>3, KindsAre DEF Rest, SaidTrue, SameWork
    <2> QED BY <2>1, <2>2
  <1> QED BY <1>6, <1>9, <1>10, <1>11, <1>12, <1>13, <1>14 DEF Rest

\* (EnterCommand) Enter hands over what the box holds
LEMMA EnterKeeps ==
  ASSUME TInv, NEW k \in {"set", "effort", "compact"}, EnterCommand(k)
  PROVE  TInv'
  <1>1. /\ k \in Commands /\ job[k].pc = "typed" /\ UNCHANGED <<seen, want, setting>>
        /\ scr' \in Takes(scr, "Enter") /\ Now(k, "watch")
    BY DEF Commands, EnterCommand, At, Press
  <1>2. /\ k \in Kind /\ (\A j \in Kind : j # k => job[j].pc = "none")
        /\ scr.view \in {"input", "confirm", "slider", "compacting", "gone"}
    BY <1>1, OneWorks
  <1>3. scr.view \in {"input", "gone"}
    BY <1>1, <1>2, KindsAre DEF TInv, Rest, Owned
  <1>4. "watch" \in Pc /\ job \in [Kind -> Task]
    BY DEF Pc, TInv, TerminalTyped
  <1>5. /\ job' \in [Kind -> Task] /\ \A j \in Kind : j # k => job'[j] = job[j]
        /\ job'[k].pc = "watch" /\ job'[k].r = job[k].r /\ job'[k].v = job[k].v
    BY <1>1, <1>2, <1>4, Goes
  <1> QED BY <1>1, <1>3, <1>5, EnterByCommand

\* (Again) Enter is pressed again while the box still holds the command
LEMMA AgainKeeps ==
  ASSUME TInv, NEW k \in {"set", "effort", "compact"}, Again(k)
  PROVE  TInv'
  <1> DEFINE r == [job[k] EXCEPT !.i = job[k].i + 1]
  <1>1. /\ k \in Commands /\ job[k].pc = "watch" /\ UNCHANGED <<seen, want, setting>> /\ scr.view \in Boxes /\ k \in scr.box
        /\ scr' \in Takes(scr, "Enter") /\ Become(k, r)
    BY DEF Commands, Again, At, Press, Unsent
  <1>2. k \in Kind /\ scr.view \in {"input", "confirm", "slider", "compacting", "gone"}
    BY <1>1, OneWorks
  <1>3. scr.view = "input"
    BY <1>1, <1>2 DEF TInv, Rest, Owned, Boxes
  <1>4. job \in [Kind -> Task] /\ job[k] \in Task
    BY <1>2 DEF TInv, TerminalTyped
  <1>5. r \in Task /\ r.pc = "watch" /\ r.r = job[k].r /\ r.v = job[k].v
    BY <1>1, <1>4 DEF Task
  <1> HIDE DEF r
  <1>6. job' \in [Kind -> Task] /\ job'[k] = r /\ \A j \in Kind : j # k => job'[j] = job[j]
    BY <1>1, <1>2, <1>4, <1>5, Becomes
  <1> QED BY <1>1, <1>3, <1>5, <1>6, EnterByCommand

\* (ConfirmSet) The change is confirmed, and is the one that was asked for
LEMMA ConfirmKeeps ==
  ASSUME TInv, ConfirmSet
  PROVE  TInv'
  <1> DEFINE k == "set"
             r == [job[k] EXCEPT !.r = job[k].r + 1]
  <1>1. /\ job[k].pc = "watch" /\ UNCHANGED <<seen, want, setting>> /\ scr.view = "confirm"
        /\ scr' \in Takes(scr, "Enter") /\ Become(k, r)
    BY DEF ConfirmSet, At, Press
  <1>2. job \in [Kind -> Task] /\ job[k] \in Task
    BY KindsAre DEF TInv, TerminalTyped
  <1>3. r \in Task /\ r.pc = "watch" /\ r.v = job[k].v
    BY <1>1, <1>2 DEF Task
  <1> HIDE DEF r
  <1>4. job' \in [Kind -> Task] /\ job'[k] = r /\ \A j \in Kind : j # k => job'[j] = job[j]
    BY <1>1, <1>2, <1>3, KindsAre, Becomes
  <1> QED BY <1>1, <1>3, <1>4, EnterByCommand

\* (SetDone) A change is said to be made on a sign that is no older than it
LEMMA SetDoneKeeps ==
  ASSUME TerminalGiven, TInv, SetDone
  PROVE  TInv'
  <1> USE DEF TInv
  <1> DEFINE v == job["set"].v
  <1>1. /\ job["set"].pc = "watch" /\ ~Unsent("set") /\ Confirmed(v) /\ UNCHANGED <<scr, seen, want>>
        /\ setting' = [setting EXCEPT !.set = v] /\ End("set")
    BY DEF SetDone, At
  <1>2. "set" \in Commands /\ "set" \in Kind
    BY KindsAre DEF Commands
  <1>3. /\ \A j \in Kind : j # "set" => job[j].pc = "none"
        /\ scr.view \in {"input", "confirm", "slider", "compacting", "gone"} /\ scr.box \subseteq {"set"}
    BY <1>1, <1>2, OneWorks
  <1>4. v \in Levels /\ v # Unset /\ scr.level = v
    BY <1>1 DEF Rest, Changing, Confirmed, TerminalGiven
  <1>5. scr.view # "confirm"
    BY <1>1, <1>4 DEF Rest, Changing
  <1>6. scr.view \in {"input", "gone"}
    BY <1>3, <1>5, KindsAre DEF Rest, Owned
  <1>7. scr.box = {}
    BY <1>1, <1>3, <1>6 DEF Rest, Owned, Unsent, Boxes
  <1>8. setting' \in [set : Value, mode : Nat] /\ setting'.set = v /\ setting'.mode = setting.mode
    BY <1>1, <1>4 DEF TerminalTyped, Value
  <1>9. job'["mode"] = job["mode"]
    BY <1>1, <1>2, Ends, KindsAre DEF TerminalTyped
  <1>10. SaidTrue'
    BY <1>1, <1>4, <1>8, <1>9 DEF SaidTrue, Rest
  <1>11. scr' \in Display /\ SameForm(scr, scr') /\ scr'.status \in {Unset, scr'.level}
    BY <1>1 DEF TerminalTyped, SameForm, Rest, Changing
  <1> QED BY <1>1, <1>2, <1>6, <1>7, <1>8, <1>10, <1>11, CommandEnds

\* Escape by a command that gives up, or has read what it came for
LEMMA EscapeByCommand ==
  ASSUME TInv, NEW k \in {"set", "effort"}, job[k].pc = "watch", End(k), scr' \in Takes(scr, "Escape"), UNCHANGED <<seen, want>>,
         setting' = IF k = "set" THEN [setting EXCEPT !.set = Unset] ELSE setting
  PROVE  TInv'
  <1> USE DEF TInv
  <1>1. k \in Commands /\ k \in Kind
    BY KindsAre DEF Commands
  <1>2. /\ \A j \in Kind : j # k => job[j].pc = "none"
        /\ scr.view \in {"input", "confirm", "slider", "compacting", "gone"}
    BY <1>1, OneWorks
  <1>3. scr.view # "compacting" /\ scr \in Display /\ scr.status \in {Unset, scr.level}
    BY <1>2, KindsAre DEF Rest, Owned, TerminalTyped, Changing
  <1>4. /\ scr' \in Display /\ SameForm(scr, scr') /\ scr'.mode = scr.mode /\ scr'.box = {}
        /\ scr'.view \in {"input", "gone"} /\ (scr.view = "gone" => scr'.view = "gone")
        /\ scr'.level = scr.level /\ scr'.status \in {Unset, scr'.level}
    <2>1. CASE scr.view = "gone"
      <3>1. scr' = scr
        BY <2>1, GoneStays
      <3> QED BY <1>3, <2>1, <3>1 DEF SameForm, Rest, Owned
    <2>2. CASE scr.view # "gone"
      <3>1. scr.view \in {"input", "confirm", "slider"} /\ (scr.view # "input" => scr.box = {})
        BY <1>2, <1>3, <2>2 DEF Rest, Owned
      <3> QED BY <1>3, <3>1, EscapeClears
    <2> QED BY <2>1, <2>2
  <1>5. job'[k].pc = "none" /\ \A j \in Kind : j # k => job'[j] = job[j]
    BY <1>1, Ends DEF TerminalTyped
  <1>6. setting' \in [set : Value, mode : Nat] /\ setting'.mode = setting.mode
        /\ (k = "set" => setting'.set = Unset) /\ (k # "set" => setting'.set = setting.set)
    BY DEF TerminalTyped, Value
  <1>7. SaidTrue'
    BY <1>2, <1>4, <1>5, <1>6, KindsAre DEF SaidTrue, Rest
  <1> QED BY <1>1, <1>4, <1>6, <1>7, CommandEnds

\* (GiveUp) A task gives up, and leaves nothing of its own behind
LEMMA GiveUpKeeps ==
  ASSUME TInv, NEW k \in {"set", "effort", "compact"}, GiveUp(k)
  PROVE  TInv'
  <1>1. /\ k \in {"set", "effort"} /\ job[k].pc = "watch" /\ scr' \in Takes(scr, "Escape") /\ End(k)
        /\ setting' = (IF k = "set" THEN [setting EXCEPT !.set = Unset] ELSE setting) /\ UNCHANGED <<seen, want>>
    BY DEF GiveUp, At, CleanUp, Press
  <1> QED BY <1>1, EscapeByCommand

\* (CloseSlider) The slider is read and closed
LEMMA SliderKeeps ==
  ASSUME TInv, CloseSlider
  PROVE  TInv'
  <1>1. /\ job["effort"].pc = "watch" /\ scr' \in Takes(scr, "Escape") /\ End("effort")
        /\ setting' = setting /\ UNCHANGED <<seen, want>>
    BY DEF CloseSlider, At, Press
  <1> QED BY <1>1, EscapeByCommand

\* (SeesCompaction) The compaction is seen to run
LEMMA SeesKeeps ==
  ASSUME TInv, SeesCompaction
  PROVE  TInv'
  <1> USE DEF TInv
  <1> DEFINE r == [job["compact"] EXCEPT !.r = 1]
  <1>1. job["compact"].pc = "watch" /\ scr.view = "compacting" /\ Become("compact", r) /\ UNCHANGED <<scr, seen, want, setting>>
    BY DEF SeesCompaction, At
  <1>2. job["compact"] \in Task
    BY KindsAre DEF TerminalTyped
  <1>3. r \in Task /\ r.pc = "watch" /\ r.v = job["compact"].v
    BY <1>1, <1>2 DEF Task
  <1> HIDE DEF r
  <1>4. job' \in [Kind -> Task] /\ job'["compact"] = r /\ \A j \in Kind : j # "compact" => job'[j] = job[j]
    BY <1>1, <1>3, Becomes, KindsAre DEF TerminalTyped
  <1>5. \A j \in Kind : job'[j].pc = job[j].pc
    BY <1>1, <1>3, <1>4
  <1>6. scr.box = {}
    BY <1>1 DEF Rest, Owned
  <1>7. TerminalTyped'
    BY <1>1, <1>4 DEF TerminalTyped
  <1>8. Formed' /\ Answering'
    BY <1>1, <1>4, DialogStays, KindsAre DEF SameForm
  <1>9. Alone'
    BY <1>1, <1>5, KindsAre DEF Alone, Rest
  <1>10. Owned'
    BY <1>1, <1>5, KindsAre DEF Owned, Rest
  <1>11. Changing'
    BY <1>1, <1>4, KindsAre DEF Changing, Rest
  <1>12. Compacting'
    BY <1>1, <1>3, <1>4, <1>6 DEF Compacting, Rest
  <1>13. SaidTrue'
    BY <1>1, <1>4, KindsAre DEF SaidTrue, Rest
  <1> QED BY <1>7, <1>8, <1>9, <1>10, <1>11, <1>12, <1>13 DEF Rest

\* (CompactDone) The end of a compaction is seen, and it is this one's
LEMMA CompactDoneKeeps ==
  ASSUME TInv, CompactDone
  PROVE  TInv'
  <1> USE DEF TInv
  <1>1. /\ job["compact"].pc = "watch" /\ End("compact") /\ UNCHANGED <<scr, seen, want, setting>>
        /\ \/ scr.nothing
           \/ scr.view # "compacting" /\ (job["compact"].r = 1 \/ (scr.done /\ job["compact"].v = 0))
    BY DEF CompactDone, At
  <1>2. "compact" \in Commands /\ "compact" \in Kind
    BY KindsAre DEF Commands
  <1>3. /\ \A j \in Kind : j # "compact" => job[j].pc = "none"
        /\ scr.view \in {"input", "confirm", "slider", "compacting", "gone"}
    BY <1>1, <1>2, OneWorks
  <1>4. scr.box = {} /\ scr.view # "compacting"
    BY <1>1 DEF Rest, Compacting
  <1>5. scr.view \in {"input", "gone"}
    BY <1>3, <1>4, KindsAre DEF Rest, Owned
  <1>6. \A j \in Kind : j # "compact" => job'[j] = job[j]
    BY <1>1, <1>2, Ends DEF TerminalTyped
  <1>7. SaidTrue'
    BY <1>1, <1>6, KindsAre DEF SaidTrue, Rest
  <1>8. scr' \in Display /\ SameForm(scr, scr') /\ scr'.status \in {Unset, scr'.level} /\ setting' \in [set : Value, mode : Nat]
    BY <1>1 DEF TerminalTyped, SameForm, Rest, Changing
  <1> QED BY <1>1, <1>2, <1>4, <1>5, <1>7, <1>8, CommandEnds

\* (ModeEnds) The mode is reported as the screen shows it
LEMMA ModeEndsKeeps ==
  ASSUME TInv, ModeEnds
  PROVE  TInv'
  <1> USE DEF TInv
  <1>1. /\ job["mode"].pc = "type" /\ End("mode") /\ UNCHANGED <<scr, seen, want>>
        /\ setting' = [setting EXCEPT !.mode = IF scr.mode = job["mode"].v THEN scr.mode ELSE Unset]
    BY DEF ModeEnds, At
  <1>2. "mode" \in Commands /\ "mode" \in Kind
    BY KindsAre DEF Commands
  <1>3. /\ \A j \in Kind : j # "mode" => job[j].pc = "none"
        /\ scr.view \in {"input", "confirm", "slider", "compacting", "gone"} /\ scr.box \subseteq {"mode"}
    BY <1>1, <1>2, OneWorks
  <1>4. scr.box = {}
    BY <1>3 DEF TerminalTyped, Display
  <1>5. scr.view \in {"input", "gone"}
    BY <1>3, KindsAre DEF Rest, Owned
  <1>6. \A j \in Kind : j # "mode" => job'[j] = job[j]
    BY <1>1, <1>2, Ends DEF TerminalTyped
  <1>7. setting' \in [set : Value, mode : Nat] /\ setting'.set = setting.set /\ setting'.mode \in {Unset, scr.mode}
    BY <1>1 DEF TerminalTyped, Display, Unset
  <1>8. SaidTrue'
    BY <1>1, <1>6, <1>7, KindsAre DEF SaidTrue, Rest
  <1>9. scr' \in Display /\ SameForm(scr, scr') /\ scr'.status \in {Unset, scr'.level}
    BY <1>1 DEF TerminalTyped, SameForm, Rest, Changing
  <1> QED BY <1>1, <1>2, <1>4, <1>5, <1>7, <1>8, <1>9, CommandEnds

\* (PressMode) The mode key steps on by one
LEMMA PressModeKeeps ==
  ASSUME TerminalGiven, TInv, PressMode
  PROVE  TInv'
  <1> USE DEF TInv
  <1> DEFINE r == [job["mode"] EXCEPT !.i = job["mode"].i + 1]
  <1>1. job["mode"].pc = "type" /\ Become("mode", r) /\ scr' \in Takes(scr, "BTab") /\ UNCHANGED <<seen, want, setting>>
    BY DEF PressMode, At, Press
  <1>2. job["mode"] \in Task /\ scr \in Display
    BY KindsAre DEF TerminalTyped
  <1>3. r \in Task /\ r.pc = "type"
    BY <1>1, <1>2 DEF Task
  <1> HIDE DEF r
  <1>4. job' \in [Kind -> Task] /\ job'["mode"] = r /\ \A j \in Kind : j # "mode" => job'[j] = job[j]
    BY <1>1, <1>3, Becomes, KindsAre DEF TerminalTyped
  <1>5. \A j \in Kind : job'[j].pc = job[j].pc
    BY <1>1, <1>3, <1>4
  <1>6. scr' = scr \/ scr' = [scr EXCEPT !.mode = (scr.mode % ModeCycle) + 1]
    BY <1>1 DEF Takes
  <1>7. (scr.mode % ModeCycle) + 1 \in Nat
    BY <1>2 DEF Display, TerminalGiven
  <1>8. scr' \in Display /\ SameForm(scr, scr') /\ SameWork(scr, scr') /\ scr'.box = scr.box /\ scr'.view = scr.view
    BY <1>2, <1>6, <1>7 DEF Display, SameForm, SameWork
  <1>9. TerminalTyped'
    BY <1>1, <1>4, <1>8 DEF TerminalTyped
  <1>10. Formed' /\ Answering'
    BY <1>1, <1>4, <1>8, DialogStays, KindsAre
  <1>11. Alone'
    BY <1>5, <1>8, KindsAre DEF Alone, Rest
  <1>12. Owned'
    BY <1>5, <1>8, KindsAre DEF Owned, Rest
  <1>13. Changing'
    BY <1>4, <1>8, KindsAre DEF Changing, Rest, SameWork
  <1>14. Compacting'
    BY <1>4, <1>8, KindsAre DEF Compacting, Rest, SameWork
  <1>15. SaidTrue'
    BY <1>1, <1>4, <1>5, <1>8, KindsAre DEF SaidTrue, Rest, SameWork
  <1> QED BY <1>9, <1>10, <1>11, <1>12, <1>13, <1>14, <1>15 DEF Rest

\* A step of a delivery: no command is at work, and no form is touched
LEMMA BodySteps ==
  ASSUME TInv, \A k \in Commands : job[k].pc = "none", UNCHANGED <<seen, want, setting>>,
         job' \in [Kind -> Task], \A j \in Kind : j # "deliver" => job'[j] = job[j],
         job'["deliver"].pc \in {"none", "look", "type", "typed", "watch"},
         scr' \in Display, SameForm(scr, scr'), SameWork(scr, scr'), scr'.mode = scr.mode, scr'.box \subseteq {"deliver"},
         scr'.view = scr.view \/ (scr.view = "input" /\ scr'.view = "turn"),
         scr'.box # {} => scr'.view # "gone",
         job'["deliver"].pc \in {"type", "typed"} => scr'.view \notin {"list", "review"}
  PROVE  TInv'
  <1> USE DEF TInv
  <1>1. \A j \in {"set", "effort", "compact", "mode"} : j \in Commands /\ job'[j] = job[j] /\ job[j].pc = "none"
    BY KindsAre DEF Commands
  <1>2. TerminalTyped'
    BY DEF TerminalTyped
  <1>3. Formed' /\ Answering'
    BY DialogStays, KindsAre
  <1>4. Alone'
    BY <1>1 DEF Alone, Commands
  <1>5. Owned'
    BY <1>1 DEF Owned, Rest
  <1>6. Changing'
    BY <1>1 DEF Changing, Rest, SameWork, Owned
  <1>7. Compacting'
    BY <1>1 DEF Compacting
  <1>8. SaidTrue'
    BY <1>1 DEF SaidTrue, Rest, SameWork
  <1> QED BY <1>2, <1>3, <1>4, <1>5, <1>6, <1>7, <1>8 DEF Rest

\* Nothing of a command's is on the screen while none is at work
LEMMA NoneWorks ==
  ASSUME TInv, \A k \in Commands : job[k].pc = "none"
  PROVE  /\ scr \in Display /\ scr.box \subseteq {"deliver"} /\ (scr.box # {} => scr.view # "gone")
         /\ scr.view \notin {"confirm", "slider", "compacting"}
         /\ SameForm(scr, scr) /\ SameWork(scr, scr)
  BY DEF TInv, Rest, Owned, TerminalTyped, Display, Commands, SameForm, SameWork

\* A delivery at work: no command is
LEMMA BodyWorks ==
  ASSUME TInv, job["deliver"].pc # "none"
  PROVE  \A k \in Commands : job[k].pc = "none"
  BY KindsAre DEF TInv, Rest, Alone

\* (Deliver) A body waits for the box to take keys
LEMMA DeliverKeeps ==
  ASSUME TInv, ~slip', Deliver
  PROVE  TInv'
  <1> DEFINE r == [Idle EXCEPT !.pc = "look"]
  <1>1. Become("deliver", r) /\ UNCHANGED <<scr, seen, want, setting>> /\ Busy(Commands) = {}
    BY DEF Deliver
  <1>2. \A k \in Commands : job[k].pc = "none"
    BY <1>1 DEF Busy, Free
  <1>3. r \in Task /\ r.pc = "look"
    <2>1. 0 \in Value \cup Nat /\ "look" \in Pc
      BY DEF Pc
    <2> QED BY <2>1 DEF Task, Idle, Unset
  <1> HIDE DEF r
  <1>4. job' \in [Kind -> Task] /\ job'["deliver"] = r /\ \A j \in Kind : j # "deliver" => job'[j] = job[j]
    BY <1>1, <1>3, Becomes, KindsAre DEF TInv, TerminalTyped
  <1> QED BY <1>1, <1>2, <1>3, <1>4, BodySteps, NoneWorks

\* (DeliverLooks) The box is seen to take keys
LEMMA LooksKeeps ==
  ASSUME TInv, ~slip', DeliverLooks
  PROVE  TInv'
  <1>1. /\ job["deliver"].pc = "look" /\ UNCHANGED <<scr, seen, want, setting>> /\ scr.view # "review"
        /\ (Accepts /\ Now("deliver", "type")) \/ End("deliver")
    BY DEF DeliverLooks, At
  <1>2. \A k \in Commands : job[k].pc = "none"
    BY <1>1, BodyWorks
  <1>3. CASE Accepts /\ Now("deliver", "type")
    <2>1. job' \in [Kind -> Task] /\ job'["deliver"].pc = "type" /\ \A j \in Kind : j # "deliver" => job'[j] = job[j]
      BY <1>3, Goes, KindsAre DEF TInv, TerminalTyped, Pc
    <2>2. scr.view \notin {"list", "review"}
      BY <1>1, <1>3 DEF Accepts, Modals
    <2> QED BY <1>1, <1>2, <2>1, <2>2, BodySteps, NoneWorks
  <1>4. CASE End("deliver")
    <2>1. job' \in [Kind -> Task] /\ job'["deliver"].pc = "none" /\ \A j \in Kind : j # "deliver" => job'[j] = job[j]
      BY <1>4, Ends, KindsAre DEF TInv, TerminalTyped
    <2> QED BY <1>1, <1>2, <2>1, BodySteps, NoneWorks
  <1> QED BY <1>1, <1>3, <1>4

\* (Paste) A body is pasted into the box
LEMMA PasteKeeps ==
  ASSUME TInv, Paste
  PROVE  TInv'
  <1>1. /\ job["deliver"].pc = "type" /\ UNCHANGED <<seen, want, setting>>
        /\ scr' = Typed(scr, "deliver", scr.asked) /\ Now("deliver", "typed")
    BY DEF Paste, At
  <1>2. \A k \in Commands : job[k].pc = "none"
    BY <1>1, BodyWorks
  <1>3. job' \in [Kind -> Task] /\ job'["deliver"].pc = "typed" /\ \A j \in Kind : j # "deliver" => job'[j] = job[j]
    BY <1>1, Goes, KindsAre DEF TInv, TerminalTyped, Pc
  <1>4. scr.view \notin {"list", "review"}
    BY <1>1 DEF TInv, Rest, Owned
  <1>5. scr' = scr \/ (scr.view # "gone" /\ scr' = [scr EXCEPT !.box = scr.box \cup {"deliver"}, !.asked = scr.asked])
    BY <1>1 DEF Typed, Boxes
  <1>6. /\ scr' \in Display /\ SameForm(scr, scr') /\ SameWork(scr, scr') /\ scr'.mode = scr.mode /\ scr'.view = scr.view
        /\ scr'.box \subseteq {"deliver"} /\ (scr'.box # {} => scr'.view # "gone")
    <2>1. CASE scr' = scr
      BY <1>2, <2>1, NoneWorks
    <2>2. CASE scr.view # "gone" /\ scr' = [scr EXCEPT !.box = scr.box \cup {"deliver"}, !.asked = scr.asked]
      <3>1. scr \in Display /\ scr.box \subseteq {"deliver"}
        BY <1>2, NoneWorks
      <3> QED BY <2>2, <3>1 DEF Display, SameForm, SameWork
    <2> QED BY <1>5, <2>1, <2>2
  <1> QED BY <1>1, <1>2, <1>3, <1>4, <1>6, BodySteps

\* Enter by a delivery: what is in the box becomes a turn, or stays
LEMMA EnterByBody ==
  ASSUME TInv, \A k \in Commands : job[k].pc = "none", scr.view \notin {"list", "review"}, scr' \in Takes(scr, "Enter")
  PROVE  /\ scr' \in Display /\ SameForm(scr, scr') /\ SameWork(scr, scr') /\ scr'.mode = scr.mode
         /\ scr'.box \subseteq {"deliver"} /\ scr'.view \notin {"list", "review"}
         /\ scr'.view = scr.view \/ (scr.view = "input" /\ scr'.view = "turn")
         /\ scr'.box # {} => scr'.view # "gone"
  <1>1. /\ scr \in Display /\ scr.box \subseteq {"deliver"} /\ (scr.box # {} => scr.view # "gone")
        /\ scr.view \notin {"confirm", "slider", "compacting"} /\ SameForm(scr, scr) /\ SameWork(scr, scr)
    BY NoneWorks
  <1>2. CASE scr.view = "gone"
    <2>1. scr' = scr
      BY <1>2, GoneStays
    <2> QED BY <1>1, <1>2, <2>1
  <1>3. CASE scr.view # "gone"
    <2>1. scr.view \in {"input", "turn"}
      BY <1>1, <1>3 DEF Display, View, Boxes, Modals
    <2>2. scr.view \in Boxes
      BY <2>1 DEF Boxes
    <2>3. scr' \in Display /\ SameForm(scr, scr') /\ scr'.mode = scr.mode
      BY <1>1, <2>2, EnterInBox
    <2>4. \/ scr' = scr
          \/ scr'.box = {} /\ SameWork(scr, scr') /\ (scr'.view = scr.view \/ (scr.view = "input" /\ scr'.view = "turn"))
      <3>1. "set" \notin scr.box /\ "effort" \notin scr.box /\ "compact" \notin scr.box
        BY <1>1
      <3> QED BY <1>1, <2>2, <3>1, EnterInBox
    <2> QED BY <1>1, <2>1, <2>3, <2>4
  <1> QED BY <1>2, <1>3

\* (EnterBody) Enter hands the body over
LEMMA EnterBodyKeeps ==
  ASSUME TInv, EnterBody
  PROVE  TInv'
  <1>1. /\ job["deliver"].pc = "typed" /\ UNCHANGED <<seen, want, setting>>
        /\ scr' \in Takes(scr, "Enter") /\ Now("deliver", "watch")
    BY DEF EnterBody, At, Press
  <1>2. \A k \in Commands : job[k].pc = "none"
    BY <1>1, BodyWorks
  <1>3. job' \in [Kind -> Task] /\ job'["deliver"].pc = "watch" /\ \A j \in Kind : j # "deliver" => job'[j] = job[j]
    BY <1>1, Goes, KindsAre DEF TInv, TerminalTyped, Pc
  <1>4. scr.view \notin {"list", "review"}
    BY <1>1 DEF TInv, Rest, Owned
  <1>5. /\ scr' \in Display /\ SameForm(scr, scr') /\ SameWork(scr, scr') /\ scr'.mode = scr.mode
        /\ scr'.box \subseteq {"deliver"} /\ (scr'.view = scr.view \/ (scr.view = "input" /\ scr'.view = "turn"))
        /\ (scr'.box # {} => scr'.view # "gone")
    BY <1>1, <1>2, <1>4, EnterByBody
  <1> QED BY <1>1, <1>2, <1>3, <1>5, BodySteps

\* (DeliverWatches) The box is looked at after the Enter
LEMMA WatchesKeeps ==
  ASSUME TInv, ~slip', DeliverWatches
  PROVE  TInv'
  <1> DEFINE r == [job["deliver"] EXCEPT !.i = job["deliver"].i + 1]
  <1>1. /\ job["deliver"].pc = "watch" /\ UNCHANGED <<seen, want, setting>> /\ scr.view # "review"
        /\ \/ Accepts /\ scr' \in Takes(scr, "Enter") /\ Become("deliver", r)
           \/ scr' = scr /\ End("deliver")
    BY DEF DeliverWatches, At, Press
  <1>2. \A k \in Commands : job[k].pc = "none"
    BY <1>1, BodyWorks
  <1>3. CASE Accepts /\ scr' \in Takes(scr, "Enter") /\ Become("deliver", r)
    <2>1. job["deliver"] \in Task
      BY KindsAre DEF TInv, TerminalTyped
    <2>2. r \in Task /\ r.pc = "watch"
      BY <1>1, <2>1 DEF Task
    <2> HIDE DEF r
    <2>3. job' \in [Kind -> Task] /\ job'["deliver"] = r /\ \A j \in Kind : j # "deliver" => job'[j] = job[j]
      BY <1>3, <2>2, Becomes, KindsAre DEF TInv, TerminalTyped
    <2>4. scr.view \notin {"list", "review"}
      BY <1>1, <1>3 DEF Accepts, Modals
    <2>5. /\ scr' \in Display /\ SameForm(scr, scr') /\ SameWork(scr, scr') /\ scr'.mode = scr.mode
          /\ scr'.box \subseteq {"deliver"} /\ (scr'.view = scr.view \/ (scr.view = "input" /\ scr'.view = "turn"))
          /\ (scr'.box # {} => scr'.view # "gone")
      BY <1>2, <1>3, <2>4, EnterByBody
    <2> QED BY <1>1, <1>2, <2>2, <2>3, <2>5, BodySteps
  <1>4. CASE scr' = scr /\ End("deliver")
    <2>1. job' \in [Kind -> Task] /\ job'["deliver"].pc = "none" /\ \A j \in Kind : j # "deliver" => job'[j] = job[j]
      BY <1>4, Ends, KindsAre DEF TInv, TerminalTyped
    <2> QED BY <1>1, <1>2, <1>4, <2>1, BodySteps, NoneWorks
  <1> QED BY <1>1, <1>3, <1>4

\* While an answer is at work no command is
LEMMA AnswerWorks ==
  ASSUME TInv, A.pc # "none"
  PROVE  \A k \in Commands : job[k].pc = "none"
  BY KindsAre DEF TInv, Rest, Alone, A

\* A step of an answer, given what it leaves of the form
LEMMA AnswerSteps ==
  ASSUME TInv, \A k \in Commands : job[k].pc # "none" => A.pc = "none" /\ A'.pc = "none",
         setting' = setting, seen' = seen, want' \in Seq(Reply),
         job' \in [Kind -> Task], \A j \in Kind : j # "answer" => job'[j] = job[j],
         scr' \in Display, SameRest(scr, scr'),
         \/ scr'.view = scr.view
         \/ scr.view \in {"list", "review"} /\ scr'.view \in {"list", "review", "turn"},
         Formed', Answering'
  PROVE  TInv'
  <1>1. TerminalTyped'
    BY DEF TInv, TerminalTyped
  <1>2. Rest'
    BY CommandsStay DEF TInv, SameRest, A
  <1> QED BY <1>1, <1>2 DEF TInv

\* The same, when the step only moves the task on
LEMMA AnswerGoes ==
  ASSUME TInv, A.pc # "none", UNCHANGED <<scr, seen, want, setting>>,
         job' \in [Kind -> Task], \A j \in Kind : j # "answer" => job'[j] = job[j], Answering'
  PROVE  TInv'
  <1>1. \A k \in Commands : job[k].pc # "none" => A.pc = "none" /\ A'.pc = "none"
    BY AnswerWorks
  <1>2. Formed'
    BY DEF TInv, Formed, Meaning
  <1>3. want' \in Seq(Reply) /\ scr' \in Display /\ SameRest(scr, scr')
    BY DEF TInv, TerminalTyped, SameRest, SameWork
  <1> QED BY <1>1, <1>2, <1>3, AnswerSteps

\* The end of an answer
LEMMA AnswerEnds ==
  ASSUME TInv, A.pc # "none", UNCHANGED <<scr, seen, want, setting>>, End("answer")
  PROVE  TInv'
  <1>1. job' \in [Kind -> Task] /\ job'["answer"].pc = "none" /\ \A j \in Kind : j # "answer" => job'[j] = job[j]
    BY Ends, KindsAre DEF TInv, TerminalTyped
  <1>2. A'.pc = "none"
    BY <1>1 DEF A
  <1>3. Answering'
    BY <1>2 DEF TInv, Answering, OnItsRow, Between, Stepping
  <1> QED BY <1>1, <1>3, AnswerGoes

\* A sequence of elements of a set is a sequence of that set
LEMMA SequenceOf ==
  \A S : \A k \in Nat : \A f \in [1 .. k -> S] : f \in Seq(S) /\ Len(f) = k
  OBVIOUS

\* A question that takes several is answered with two rows
LEMMA TicksAre ==
  ASSUME NEW x \in AnswersTo("many")
  PROVE  \E a, b \in 0 .. Options - 1 : x = [how |-> "ticks", rows |-> <<a, b>>]
  BY DEF AnswersTo

\* A question that takes one is answered with one row
LEMMA PicksAre ==
  ASSUME NEW x \in AnswersTo("one")
  PROVE  \E a \in 0 .. Options - 1 : x = [how |-> "pick", rows |-> <<a>>]
  <1>1. "one" # "many"
    OBVIOUS
  <1> QED BY <1>1 DEF AnswersTo

\* (StartAnswer) A walk begins on the first row of a form that is still empty
LEMMA StartsKeeps ==
  ASSUME TerminalGiven, TInv, ~slip', StartAnswer
  PROVE  TInv'
  <1> USE DEF TInv
  <1>1. /\ scr.view = "list" /\ seen = [ask |-> scr.ask, row |-> scr.row] /\ scr.ask = 1
        /\ (\A q \in DOMAIN scr.got : scr.got[q] = {}) /\ UNCHANGED <<scr, seen, setting>>
        /\ A.pc = "none" /\ Busy(Commands) = {}
    BY DEF StartAnswer, Frame, Free, A
  <1>2. PICK reps :
          /\ \E S : reps \in [DOMAIN scr.kinds -> S]
          /\ \A q \in DOMAIN reps : reps[q] \in AnswersTo(scr.kinds[q]) \cup InWords /\ ~Twice(reps[q])
          /\ want' = reps
    <2>1. \E x \in [DOMAIN scr.kinds -> UNION {AnswersTo(k) : k \in {"one", "many"}} \cup InWords] :
            (\A q \in DOMAIN x : x[q] \in AnswersTo(scr.kinds[q]) \cup InWords /\ ~Twice(x[q])) /\ want' = x
      BY DEF StartAnswer
    <2> QED BY ONLY <2>1
  <1>3. scr.kinds \in Seq(Asked) /\ Len(scr.kinds) \in Nat /\ scr.got \in Seq(SUBSET Nat) /\ Len(scr.got) = Len(scr.kinds)
        /\ Len(scr.kinds) >= 1 /\ scr \in Display
    BY <1>1 DEF TerminalTyped, Display, Formed
  <1>5. DOMAIN reps = 1 .. Len(scr.kinds)
    BY <1>2, <1>3
  <1>4. ASSUME NEW q \in DOMAIN reps
        PROVE  reps[q] \in Reply /\ Fits(reps[q], scr.kinds[q]) /\ Len(reps[q].rows) > 0
    <2>1. reps[q] \in AnswersTo(scr.kinds[q]) \cup InWords /\ ~Twice(reps[q])
      BY <1>2
    <2>2. scr.kinds[q] \in {"one", "many"}
      BY <1>3, <1>5, ElementOfSeq DEF Asked
    <2>3. Options \in Nat
      BY DEF TerminalGiven
    <2>4. CASE reps[q] \in InWords
      <3>1. scr.form /\ reps[q] = [how |-> "words", rows |-> <<Options>>]
        BY <2>4 DEF InWords
      <3>2. reps[q].rows = <<Options>> /\ Len(reps[q].rows) = 1 /\ reps[q].rows[1] = Options /\ reps[q].how = "words"
        BY <3>1
      <3>3. reps[q] \in Reply
        BY <2>3, <3>1 DEF Reply
      <3> QED BY <3>1, <3>2, <3>3 DEF Fits
    <2>5. CASE scr.kinds[q] = "many" /\ reps[q] \in AnswersTo(scr.kinds[q])
      <3>1. PICK a \in 0 .. Options - 1, b \in 0 .. Options - 1 : reps[q] = [how |-> "ticks", rows |-> <<a, b>>]
        <4>1. reps[q] \in AnswersTo("many")
          BY <2>5
        <4> QED BY <4>1, TicksAre
      <3>2. a \in Nat /\ b \in Nat /\ b < Options
        BY <2>3
      <3>3. reps[q].rows = <<a, b>> /\ Len(reps[q].rows) = 2 /\ reps[q].rows[1] = a /\ reps[q].rows[2] = b /\ reps[q].how = "ticks"
        BY <3>1
      <3>4. a < b
        BY <2>1, <3>2, <3>3 DEF Twice
      <3>5. reps[q] \in Reply
        BY <3>1, <3>2 DEF Reply
      <3> QED BY <2>5, <3>2, <3>3, <3>4, <3>5 DEF Fits
    <2>6. CASE scr.kinds[q] = "one" /\ reps[q] \in AnswersTo(scr.kinds[q])
      <3>1. PICK a \in 0 .. Options - 1 : reps[q] = [how |-> "pick", rows |-> <<a>>]
        <4>1. reps[q] \in AnswersTo("one")
          BY <2>6
        <4> QED BY <4>1, PicksAre
      <3>2. a \in Nat /\ a < Options
        BY <2>3
      <3>3. reps[q].rows = <<a>> /\ Len(reps[q].rows) = 1 /\ reps[q].rows[1] = a /\ reps[q].how = "pick"
        BY <3>1
      <3>4. reps[q] \in Reply
        BY <3>1, <3>2 DEF Reply
      <3> QED BY <2>6, <3>2, <3>3, <3>4 DEF Fits
    <2> QED BY <2>1, <2>2, <2>4, <2>5, <2>6
  <1>6. reps \in Seq(Reply) /\ Len(reps) = Len(scr.kinds)
    <2>1. reps \in [1 .. Len(scr.kinds) -> Reply]
      BY <1>2, <1>4, <1>5
    <2> QED BY ONLY <1>3, <2>1, SequenceOf
  <1> DEFINE r == [pc |-> "walk", i |-> 1, r |-> 1, v |-> 0]
  <1>7. r \in Task /\ r.pc = "walk" /\ r.i = 1 /\ r.r = 1
    <2>1. 0 \in Value \cup Nat /\ "walk" \in Pc
      BY DEF Pc
    <2> QED BY <2>1 DEF Task
  <1> HIDE DEF r
  <1>8. job' \in [Kind -> Task] /\ job'["answer"] = r /\ \A j \in Kind : j # "answer" => job'[j] = job[j]
    <2>1. Become("answer", r)
      BY DEF StartAnswer, r
    <2> QED BY <1>7, <2>1, Becomes, KindsAre DEF TerminalTyped
  <1>9. A' = r
    BY <1>8 DEF A
  <1>10. Filled'
    <2>1. scr' = scr /\ DOMAIN reps = 1 .. Len(reps) /\ want' = reps
      BY <1>1, <1>2, <1>5, <1>6
    <2>2. \A q \in DOMAIN reps : Fits(reps[q], scr.kinds[q])
      BY <1>4
    <2>3. \A q \in DOMAIN reps : Fits(want[q], scr.kinds[q])'
      BY <2>1, <2>2 DEF Fits
    <2>4. \A q \in DOMAIN reps : scr.got[q] = {} /\ ~(q < scr.ask)
      BY <1>1, <1>3, <1>5, <1>6, <2>1
    <2> QED BY <1>1, <1>6, <2>1, <2>3, <2>4 DEF Filled
  <1>11. (A.pc)' = "walk" /\ (A.i)' = 1 /\ (A.r)' = 1
    BY <1>7, <1>9
  <1>12. Taken' = {}
    BY <1>11 DEF Taken
  <1>13. scr.got[scr.ask] = {}
    BY <1>1, <1>3
  <1>14. OnItsRow' /\ Between'
    BY <1>1, <1>10, <1>11, <1>12, <1>13 DEF OnItsRow, Between
  <1>15. Answering'
    <2>1. want' = reps /\ 1 \in DOMAIN reps /\ 1 \in 1 .. Len(reps)
      BY <1>2, <1>3, <1>5, <1>6
    <2>5. reps[1] \in Reply /\ Len(reps[1].rows) > 0
      BY <1>4, <2>1
    <2>2. Len(reps[1].rows) \in Nat /\ Len(reps[1].rows) > 0
      BY <2>5 DEF Reply
    <2>3. 1 \in 1 .. Len(reps[1].rows)
      BY <2>2
    <2>4. \A q \in DOMAIN reps : Len(reps[q].rows) > 0
      BY <1>4
    <2> QED BY <1>11, <1>14, <2>1, <2>3, <2>4 DEF Answering, Stepping
  <1>16. Formed'
    BY <1>1 DEF Formed
  <1>17. \A k \in Commands : job[k].pc = "none"
    BY <1>1 DEF Busy, Free
  <1> QED BY <1>1, <1>2, <1>3, <1>6, <1>8, <1>15, <1>16, <1>17, AnswerSteps DEF SameRest, SameWork

\* The reply being given
LEMMA ReplyIs ==
  ASSUME TInv, A.pc # "none"
  PROVE  /\ A \in Task /\ A.i \in 1 .. Len(want) /\ A.i \in DOMAIN want /\ A.i \in Nat /\ Len(want) \in Nat
         /\ want[A.i] \in Reply /\ want[A.i].rows \in Seq(Nat) /\ Len(want[A.i].rows) \in Nat /\ Len(want[A.i].rows) > 0
         /\ A.r \in 1 .. Len(want[A.i].rows) => Target \in Nat /\ A.r \in Nat
  <1>1. A \in Task /\ want \in Seq(Reply) /\ A.i \in 1 .. Len(want)
    BY KindsAre DEF TInv, TerminalTyped, A, Answering
  <1>2. A.i \in DOMAIN want /\ A.i \in Nat /\ Len(want) \in Nat /\ want[A.i] \in Reply
    BY <1>1
  <1>3. want[A.i].rows \in Seq(Nat) /\ Len(want[A.i].rows) > 0
    BY <1>2 DEF TInv, Answering, Reply
  <1>4. Len(want[A.i].rows) \in Nat
    BY <1>3
  <1>5. A.r \in 1 .. Len(want[A.i].rows) => want[A.i].rows[A.r] \in Nat /\ A.r \in Nat
    BY <1>3, <1>4
  <1> QED BY <1>1, <1>2, <1>3, <1>4, <1>5 DEF Target

\* A task moved on inside its question
LEMMA SameQuestion ==
  ASSUME UNCHANGED <<scr, want>>, (A.i)' = A.i, (A.r)' = A.r
  PROVE  Filled' = Filled /\ Target' = Target /\ (A.pc # "right" /\ (A.pc)' # "right" => Taken' = Taken)
  <1>1. Filled' = Filled
    BY DEF Filled, Fits, Meant
  <1>2. Target' = Target
    BY DEF Target
  <1>3. A.pc # "right" /\ (A.pc)' # "right" => Taken' = Taken
    BY DEF Taken
  <1> QED BY <1>1, <1>2, <1>3

\* (Walk) The walk presses towards its row, or is on it
LEMMA WalkKeeps ==
  ASSUME TInv, Walk
  PROVE  TInv'
  <1> USE DEF TInv
  <1>1. A.pc = "walk" /\ UNCHANGED <<scr, seen, want, setting>>
    BY DEF Walk, At, A
  <1>2. A.r \in 1 .. Len(want[A.i].rows) /\ (scr.view = "gone" \/ OnItsRow)
    BY <1>1 DEF Answering, Stepping
  <1>3. A \in Task /\ A.i \in 1 .. Len(want) /\ Target \in Nat
    BY <1>1, <1>2, ReplyIs
  <1>4. seen.row \in Nat /\ scr.row \in Nat /\ seen.row \in Value \cup Nat
    BY DEF TerminalTyped, Display
  <1>5. CASE ~Shown
    BY <1>1, <1>5, AnswerEnds DEF Walk
  <1>6. CASE Shown /\ seen.row = Target
    <2> DEFINE pc == IF want[A.i].how = "words" THEN "words" ELSE "enter"
    <2>1. Now("answer", pc) /\ pc \in Pc /\ pc \in {"words", "enter"} /\ (pc = "words" => want[A.i].how = "words")
          /\ (pc = "enter" => want[A.i].how # "words")
      BY <1>6 DEF Walk, Pc
    <2> HIDE DEF pc
    <2>2. /\ job' \in [Kind -> Task] /\ \A j \in Kind : j # "answer" => job'[j] = job[j]
          /\ (A.pc)' = pc /\ (A.i)' = A.i /\ (A.r)' = A.r /\ (A.v)' = A.v
      BY <2>1, Goes, KindsAre DEF TerminalTyped, A
    <2>3. Filled' = Filled /\ Target' = Target /\ Taken' = Taken
      BY <1>1, <2>1, <2>2, SameQuestion
    <2>4. OnItsRow => OnItsRow'
      BY <1>1, <1>6, <2>1, <2>2, <2>3 DEF OnItsRow, Stepping
    <2>5. Between'
      BY <2>1, <2>2 DEF Between
    <2>6. Answering'
      BY <1>1, <1>2, <1>3, <2>1, <2>2, <2>4, <2>5 DEF Answering, Stepping
    <2> QED BY <1>1, <2>2, <2>6, AnswerGoes
  <1>7. CASE Shown /\ seen.row # Target
    <2> DEFINE pc == IF Target > seen.row THEN "Down" ELSE "Up"
               r == [A EXCEPT !.pc = pc, !.v = seen.row]
    <2>1. Become("answer", r) /\ pc \in Pc /\ pc \in {"Down", "Up"} /\ (pc = "Down" => seen.row < Target)
          /\ (pc = "Up" => seen.row > Target)
      BY <1>3, <1>4, <1>7 DEF Walk, Pc
    <2> HIDE DEF pc
    <2>2. r \in Task /\ r.pc = pc /\ r.i = A.i /\ r.r = A.r /\ r.v = seen.row
      BY <1>3, <1>4, <2>1 DEF Task
    <2> HIDE DEF r
    <2>3. job' \in [Kind -> Task] /\ job'["answer"] = r /\ \A j \in Kind : j # "answer" => job'[j] = job[j]
      BY <2>1, <2>2, Becomes, KindsAre DEF TerminalTyped
    <2>4. (A.pc)' = pc /\ (A.i)' = A.i /\ (A.r)' = A.r /\ (A.v)' = seen.row
      BY <2>2, <2>3 DEF A
    <2>5. Filled' = Filled /\ Target' = Target /\ Taken' = Taken
      BY <1>1, <2>1, <2>4, SameQuestion
    <2>6. OnItsRow => OnItsRow'
      BY <1>1, <1>4, <2>1, <2>4, <2>5 DEF OnItsRow, Stepping
    <2>7. Between'
      BY <2>1, <2>4 DEF Between
    <2>8. Answering'
      BY <1>1, <1>2, <1>3, <2>1, <2>4, <2>6, <2>7 DEF Answering, Stepping
    <2> QED BY <1>1, <2>3, <2>8, AnswerGoes
  <1> QED BY <1>5, <1>6, <1>7

\* (Moved) The walk looks until the row has moved
LEMMA MovedKeeps ==
  ASSUME TInv, Moved
  PROVE  TInv'
  <1> USE DEF TInv
  <1>1. A.pc = "moved" /\ UNCHANGED <<scr, seen, want, setting>> /\ Now("answer", "walk") /\ (~Shown \/ seen.row # A.v)
    BY DEF Moved, Landed, At, A
  <1>2. A.r \in 1 .. Len(want[A.i].rows) /\ (scr.view = "gone" \/ OnItsRow)
    BY <1>1 DEF Answering, Stepping
  <1>3. A.i \in 1 .. Len(want)
    BY <1>1, ReplyIs
  <1>4. /\ job' \in [Kind -> Task] /\ \A j \in Kind : j # "answer" => job'[j] = job[j]
        /\ (A.pc)' = "walk" /\ (A.i)' = A.i /\ (A.r)' = A.r
    BY <1>1, Goes, KindsAre DEF TerminalTyped, A, Pc
  <1>5. Filled' = Filled /\ Target' = Target /\ Taken' = Taken
    BY <1>1, <1>4, SameQuestion
  <1>6. Filled => scr.ask # 0
    BY DEF Filled, Formed
  <1>7. OnItsRow => OnItsRow'
    BY <1>1, <1>4, <1>5, <1>6 DEF OnItsRow, Stepping, Shown
  <1>8. Between'
    BY <1>4 DEF Between
  <1>9. Answering'
    BY <1>1, <1>2, <1>3, <1>4, <1>7, <1>8 DEF Answering, Stepping
  <1> QED BY <1>1, <1>4, <1>9, AnswerGoes

\* A key that leaves the form as it is but for the row and what is typed
LEMMA KeyInForm ==
  ASSUME NEW s \in Display, NEW key \in {"Down", "Up", "text"}, NEW t \in Takes(s, key)
  PROVE  /\ t \in Display /\ SameRest(s, t) /\ t.view = s.view /\ t.ask = s.ask /\ t.kinds = s.kinds
         /\ t.got = s.got /\ t.sent = s.sent
         /\ key = "text" => t.row = s.row /\ (s.view = "list" /\ s.row = Options => t.typed)
         /\ key = "Down" => t.row = IF s.view = "list" /\ s.row < Last(s) THEN s.row + 1 ELSE s.row
         /\ key = "Up" => t.row = IF s.view = "list" /\ s.row > 0 THEN s.row - 1 ELSE s.row
  <1>1. s.row + 1 \in Nat /\ (s.row > 0 => s.row - 1 \in Nat)
    BY DEF Display
  <1>2. CASE key = "text"
    <2>1. t = IF s.view = "list" /\ s.row = Options THEN [s EXCEPT !.typed = TRUE] ELSE s
      BY <1>2 DEF Takes
    <2> QED BY <1>2, <2>1 DEF Display, SameRest, SameWork
  <1>3. CASE key = "Down"
    <2>1. t = IF s.view = "list" /\ s.row < Last(s) THEN [s EXCEPT !.row = s.row + 1] ELSE s
      BY <1>3 DEF Takes
    <2> QED BY <1>1, <1>3, <2>1 DEF Display, SameRest, SameWork
  <1>4. CASE key = "Up"
    <2>1. t = IF s.view = "list" /\ s.row > 0 THEN [s EXCEPT !.row = s.row - 1] ELSE s
      BY <1>4 DEF Takes
    <2> QED BY <1>1, <1>4, <2>1 DEF Display, SameRest, SameWork
  <1> QED BY <1>2, <1>3, <1>4

\* The row a reply is meant for is one the cursor reaches
LEMMA TargetIsThere ==
  ASSUME TerminalGiven, TInv, Filled, A.pc # "none", A.r \in 1 .. Len(want[A.i].rows)
  PROVE  /\ Target \in Nat /\ Target <= Options /\ (Target = Options <=> want[A.i].how = "words")
         /\ Target <= Last(scr) /\ (Target = Options => scr.form)
  <1>1. /\ A.i \in DOMAIN want /\ want[A.i].rows \in Seq(Nat) /\ Target \in Nat /\ A.r \in Nat
        /\ Len(want[A.i].rows) \in Nat
    BY ReplyIs
  <1>2. Fits(want[A.i], scr.kinds[A.i]) /\ Options \in Nat \ {0}
    BY <1>1 DEF Filled, TerminalGiven
  <1>3. CASE want[A.i].how = "pick" /\ Len(want[A.i].rows) = 1 /\ want[A.i].rows[1] < Options
    BY <1>1, <1>2, <1>3 DEF Target, Last
  <1>4. CASE want[A.i].how = "words" /\ scr.form /\ Len(want[A.i].rows) = 1 /\ want[A.i].rows[1] = Options
    BY <1>1, <1>2, <1>4 DEF Target, Last
  <1>5. CASE /\ want[A.i].how = "ticks" /\ Len(want[A.i].rows) = 2 /\ want[A.i].rows[1] < want[A.i].rows[2]
             /\ want[A.i].rows[2] < Options
    <2>1. want[A.i].rows[1] \in Nat /\ want[A.i].rows[2] \in Nat /\ A.r \in {1, 2}
      BY <1>1, <1>5
    <2>2. Target < Options
      BY <1>2, <1>5, <2>1 DEF Target
    <2> QED BY <1>1, <1>2, <1>5, <2>2 DEF Last
  <1> QED BY <1>2, <1>3, <1>4, <1>5 DEF Fits

\* A key under way in a form that stays as it is
LEMMA FormStays ==
  ASSUME TInv, scr' \in Display, SameRest(scr, scr'), scr'.view = scr.view, scr'.ask = scr.ask, scr'.kinds = scr.kinds,
         scr'.got = scr.got, scr'.sent = scr.sent, want' = want, (A.i)' = A.i, (A.r)' = A.r
  PROVE  Formed' /\ Filled' = Filled /\ Target' = Target /\ (A.pc # "right" /\ (A.pc)' # "right" => Taken' = Taken)
  <1>1. Formed'
    BY DEF TInv, Formed, Meaning, Meant, SameRest
  <1>2. Filled' = Filled
    BY DEF Filled, Fits, Meant, SameRest
  <1>3. Target' = Target
    BY DEF Target
  <1>4. A.pc # "right" /\ (A.pc)' # "right" => Taken' = Taken
    BY DEF Taken
  <1> QED BY <1>1, <1>2, <1>3, <1>4

\* (Move) An arrow moves the row by one, towards the target
LEMMA MoveKeeps ==
  ASSUME TerminalGiven, TInv, Move
  PROVE  TInv'
  <1> USE DEF TInv
  <1>1. PICK key \in {"Down", "Up"} : At("answer", key) /\ Press(key)
    BY DEF Move
  <1>2. A.pc = key /\ scr' \in Takes(scr, key) /\ Now("answer", "moved") /\ UNCHANGED <<seen, want, setting>>
    BY <1>1 DEF Move, At, Press, A
  <1>3. A.r \in 1 .. Len(want[A.i].rows) /\ (scr.view = "gone" \/ OnItsRow) /\ A.pc # "none" /\ A.pc \in Stepping
    BY <1>2 DEF Answering, Stepping
  <1>4. A.i \in 1 .. Len(want) /\ Target \in Nat
    BY <1>3, ReplyIs
  <1>5. /\ job' \in [Kind -> Task] /\ \A j \in Kind : j # "answer" => job'[j] = job[j]
        /\ (A.pc)' = "moved" /\ (A.i)' = A.i /\ (A.r)' = A.r /\ (A.v)' = A.v
    BY <1>2, Goes, KindsAre DEF TerminalTyped, A, Pc
  <1>6. /\ scr' \in Display /\ SameRest(scr, scr') /\ scr'.view = scr.view /\ scr'.ask = scr.ask /\ scr'.kinds = scr.kinds
        /\ scr'.got = scr.got /\ scr'.sent = scr.sent
        /\ (key = "Down" => scr'.row = IF scr.view = "list" /\ scr.row < Last(scr) THEN scr.row + 1 ELSE scr.row)
        /\ (key = "Up" => scr'.row = IF scr.view = "list" /\ scr.row > 0 THEN scr.row - 1 ELSE scr.row)
    BY <1>2, KeyInForm DEF TerminalTyped
  <1>7. Formed' /\ Filled' = Filled /\ Target' = Target /\ Taken' = Taken
    BY <1>2, <1>5, <1>6, FormStays
  <1>8. OnItsRow => OnItsRow'
    <2>1. SUFFICES ASSUME OnItsRow PROVE OnItsRow'
      OBVIOUS
    <2>2. Filled /\ A.i = scr.ask /\ seen.ask = scr.ask /\ scr.got[scr.ask] = Taken /\ seen.row = scr.row /\ A.v \in Nat
      BY <1>2, <1>3, <2>1 DEF OnItsRow
    <2>3. Target <= Last(scr) /\ scr.view = "list" /\ scr.row \in Nat /\ Last(scr) \in Int
      BY <1>3, <2>2, TargetIsThere DEF Filled, TerminalTyped, Display, TerminalGiven, Last
    <2>4. key = "Down" => A.v = scr.row /\ scr'.row = scr.row + 1
      BY <1>2, <1>3, <1>4, <1>6, <2>1, <2>3 DEF OnItsRow
    <2>5. key = "Up" => A.v = scr.row /\ scr'.row = scr.row - 1
      BY <1>2, <1>3, <1>4, <1>6, <2>1, <2>3 DEF OnItsRow
    <2>6. A.v = scr.row /\ scr'.row # A.v
      BY <2>3, <2>4, <2>5
    <2> QED BY <1>2, <1>5, <1>6, <1>7, <2>2, <2>6 DEF OnItsRow
  <1>9. Between'
    BY <1>5 DEF Between
  <1>10. Answering'
    BY <1>2, <1>3, <1>4, <1>5, <1>6, <1>8, <1>9 DEF Answering, Stepping
  <1>11. \A k \in Commands : job[k].pc # "none" => A.pc = "none" /\ A'.pc = "none"
    BY <1>3, AnswerWorks
  <1> QED BY <1>2, <1>5, <1>6, <1>7, <1>10, <1>11, AnswerSteps DEF TerminalTyped

\* (Words) Words are typed on the row that takes them
LEMMA WordsKeeps ==
  ASSUME TerminalGiven, TInv, Words
  PROVE  TInv'
  <1> USE DEF TInv
  <1>2. A.pc = "words" /\ scr' \in Takes(scr, "text") /\ Now("answer", "enter") /\ UNCHANGED <<seen, want, setting>>
    BY DEF Words, At, Press, A
  <1>3. A.r \in 1 .. Len(want[A.i].rows) /\ (scr.view = "gone" \/ OnItsRow) /\ A.pc # "none"
    BY <1>2 DEF Answering, Stepping
  <1>4. A.i \in 1 .. Len(want) /\ Target \in Nat
    BY <1>3, ReplyIs
  <1>5. /\ job' \in [Kind -> Task] /\ \A j \in Kind : j # "answer" => job'[j] = job[j]
        /\ (A.pc)' = "enter" /\ (A.i)' = A.i /\ (A.r)' = A.r /\ (A.v)' = A.v
    BY <1>2, Goes, KindsAre DEF TerminalTyped, A, Pc
  <1>6. /\ scr' \in Display /\ SameRest(scr, scr') /\ scr'.view = scr.view /\ scr'.ask = scr.ask /\ scr'.kinds = scr.kinds
        /\ scr'.got = scr.got /\ scr'.sent = scr.sent /\ scr'.row = scr.row
        /\ (scr.view = "list" /\ scr.row = Options => scr'.typed)
    BY <1>2, KeyInForm DEF TerminalTyped
  <1>7. Formed' /\ Filled' = Filled /\ Target' = Target /\ Taken' = Taken
    BY <1>2, <1>5, <1>6, FormStays
  <1>8. OnItsRow => OnItsRow'
    <2>1. SUFFICES ASSUME OnItsRow PROVE OnItsRow'
      OBVIOUS
    <2>2. Filled /\ A.i = scr.ask /\ seen.ask = scr.ask /\ scr.got[scr.ask] = Taken /\ seen.row = scr.row
          /\ scr.row = Target /\ want[A.i].how = "words"
      BY <1>2, <2>1 DEF OnItsRow, Stepping
    <2>3. Target = Options /\ scr.view = "list"
      BY <1>3, <2>2, TargetIsThere DEF Filled
    <2> QED BY <1>2, <1>5, <1>6, <1>7, <2>2, <2>3 DEF OnItsRow
  <1>9. Between'
    BY <1>5 DEF Between
  <1>10. Answering'
    BY <1>2, <1>3, <1>4, <1>5, <1>6, <1>8, <1>9 DEF Answering, Stepping
  <1>11. \A k \in Commands : job[k].pc # "none" => A.pc = "none" /\ A'.pc = "none"
    BY <1>3, AnswerWorks
  <1> QED BY <1>2, <1>5, <1>6, <1>7, <1>10, <1>11, AnswerSteps DEF TerminalTyped

\* What an answer of each kind means
LEMMA MeantIs ==
  ASSUME NEW a, a.rows \in Seq(Nat)
  PROVE  /\ Len(a.rows) = 1 => Meant(a) = {a.rows[1]}
         /\ Len(a.rows) = 2 => Meant(a) = {a.rows[1], a.rows[2]}
  <1>1. DOMAIN a.rows = 1 .. Len(a.rows)
    OBVIOUS
  <1>2. Len(a.rows) = 1 => DOMAIN a.rows = {1}
    BY <1>1
  <1>3. Len(a.rows) = 2 => DOMAIN a.rows = {1, 2}
    BY <1>1
  <1> QED BY <1>2, <1>3 DEF Meant

\* The open question is answered in full, and the form moves on
LEMMA QuestionDone ==
  ASSUME TInv, Filled, A.i = scr.ask, NEW u \in Display, SameRest(scr, u), u.view = "list", u.ask = scr.ask,
         u.kinds = scr.kinds, u.sent = scr.sent, Len(u.got) = Len(scr.got), u.got[scr.ask] = Meant(want[A.i]),
         \A j \in 1 .. Len(scr.got) : j # scr.ask => u.got[j] = scr.got[j],
         scr' = MoveOn(u), want' = want
  PROVE  /\ scr' \in Display /\ SameRest(scr, scr') /\ scr'.view \in {"list", "review", "turn"} /\ Formed'
         /\ A.i < Len(want) => Filled' /\ scr'.ask = scr.ask + 1 /\ scr'.row = 0 /\ scr'.got[scr'.ask] = {}
  <1> USE DEF TInv
  <1>1. /\ scr.view = "list" /\ scr.ask \in 1 .. Len(scr.kinds) /\ Len(scr.got) = Len(scr.kinds) /\ ~scr.sent
        /\ Len(want) = Len(scr.kinds) /\ (scr.form \/ scr.kinds = <<"one">>)
    BY DEF Filled, Formed
  <1>2. /\ want \in Seq(Reply) /\ scr.kinds \in Seq(Asked) /\ Len(scr.kinds) \in Nat /\ scr.ask \in Nat
        /\ u.got \in Seq(SUBSET Nat) /\ scr \in Display
    BY DEF TerminalTyped, Display
  <1>3. DOMAIN want = 1 .. Len(want) /\ DOMAIN u.got = 1 .. Len(want)
    BY <1>1, <1>2
  <1>4. \A q \in 1 .. Len(want) : (q <= scr.ask => u.got[q] = Meant(want[q])) /\ (q > scr.ask => u.got[q] = {})
    <2>1. SUFFICES ASSUME NEW q \in 1 .. Len(want)
                   PROVE  (q <= scr.ask => u.got[q] = Meant(want[q])) /\ (q > scr.ask => u.got[q] = {})
      OBVIOUS
    <2>2. q \in DOMAIN want /\ q \in Nat /\ q \in 1 .. Len(scr.got)
      BY <1>1, <1>2, <1>3, <2>1
    <2>3. CASE q = scr.ask
      BY <1>2, <2>3
    <2>4. CASE q < scr.ask
      BY <1>2, <2>2, <2>4 DEF Filled
    <2>5. CASE q > scr.ask
      BY <1>2, <2>2, <2>5 DEF Filled
    <2> QED BY <1>2, <2>2, <2>3, <2>4, <2>5
  <1>5. /\ scr' \in Display /\ SameRest(u, scr') /\ scr'.got = u.got
        /\ \/ /\ u.ask < Len(u.kinds) /\ scr'.view = "list" /\ scr'.ask = u.ask + 1 /\ scr'.row = 0
              /\ scr'.kinds = u.kinds /\ scr'.sent = u.sent
           \/ u.ask = Len(u.kinds) /\ u.form /\ scr'.view = "review" /\ scr'.sent = u.sent
           \/ u.ask = Len(u.kinds) /\ scr'.view = "turn" /\ scr'.sent = TRUE
    <2>1. u.ask \in 1 .. Len(u.kinds)
      BY <1>1
    <2> QED BY <2>1, MovesOn, ZenonT(40)
  <1>6. SameRest(scr, scr') /\ scr'.form = scr.form
    BY <1>5 DEF SameRest, SameWork
  <1>7. CASE scr.ask < Len(want)
    <2>1. /\ scr'.view = "list" /\ scr'.ask = scr.ask + 1 /\ scr'.row = 0 /\ scr'.kinds = scr.kinds /\ ~scr'.sent
      BY <1>1, <1>5, <1>7
    <2>2. Formed'
      BY <1>1, <1>2, <1>5, <1>6, <1>7, <2>1 DEF Formed
    <2>3. \A q \in DOMAIN want : Fits(want[q], scr.kinds[q])'
      BY <1>6, <2>1 DEF Filled, Fits
    <2>4. \A q \in DOMAIN want : (q < scr'.ask => u.got[q] = Meant(want[q])) /\ (q > scr'.ask => u.got[q] = {})
      BY <1>2, <1>3, <1>4, <2>1
    <2>5. \A q \in DOMAIN want : Meant(want[q])' = Meant(want[q])
      BY DEF Meant
    <2>6. Filled'
      BY <1>1, <1>5, <2>1, <2>3, <2>4, <2>5 DEF Filled
    <2>7. scr'.got[scr'.ask] = {}
      <3>1. scr.ask + 1 \in 1 .. Len(want) /\ scr.ask + 1 > scr.ask
        BY <1>1, <1>2, <1>7
      <3>2. u.got[scr.ask + 1] = {}
        BY <1>4, <3>1
      <3> QED BY <1>5, <2>1, <3>2
    <2> QED BY <1>5, <1>6, <2>1, <2>2, <2>6, <2>7
  <1>8. CASE scr.ask = Len(want)
    <2>1. \A q \in 1 .. Len(want) : u.got[q] = Meant(want[q])
      BY <1>2, <1>4, <1>8
    <2>2. u.got = [q \in 1 .. Len(want) |-> u.got[q]]
      BY <1>3, <1>2
    <2>3. Meaning = [q \in 1 .. Len(want) |-> Meant(want[q])]
      BY <1>3 DEF Meaning
    <2>4. u.got = Meaning
      BY <2>1, <2>2, <2>3
    <2>5. Meaning' = Meaning
      BY DEF Meaning, Meant
    <2>6. (scr'.view = "review" /\ ~scr'.sent) \/ (scr'.view = "turn" /\ scr'.sent)
      BY <1>1, <1>5, <1>8
    <2>7. Formed'
      BY <1>5, <2>4, <2>5, <2>6 DEF Formed
    <2> QED BY <1>2, <1>5, <1>6, <1>8, <2>6, <2>7
  <1>9. scr.ask < Len(want) \/ scr.ask = Len(want)
    BY <1>1, <1>2
  <1> QED BY <1>7, <1>8, <1>9

\* The walk is over for one question: the next, or the end, may not be drawn yet
LEMMA ToNext ==
  ASSUME TInv, A.pc \in {"enter", "right"}, scr.view = "gone" \/ (OnItsRow /\ A.i = scr.ask),
         UNCHANGED <<seen, want, setting>>, job' \in [Kind -> Task], \A j \in Kind : j # "answer" => job'[j] = job[j],
         (A.pc)' = "next", (A.i)' = A.i, (A.v)' = seen.ask,
         scr' \in Display, SameRest(scr, scr'), Formed',
         scr.view = "gone" => scr'.view = "gone", scr.view # "gone" => scr'.view \in {"list", "review", "turn"},
         scr.view # "gone" /\ A.i < Len(want) => Filled' /\ scr'.ask = scr.ask + 1 /\ scr'.row = 0 /\ scr'.got[scr'.ask] = {}
  PROVE  TInv'
  <1>1. A.i \in 1 .. Len(want) /\ A.i \in Nat
    BY ReplyIs
  <1>2. scr.view # "gone" => scr.view = "list" /\ seen.ask = scr.ask /\ A.i = scr.ask
    BY DEF OnItsRow, Filled, Stepping
  <1>3. scr.view # "gone" => Between' /\ OnItsRow'
    BY <1>1, <1>2 DEF Between, OnItsRow, Stepping
  <1>4. Answering'
    BY <1>1, <1>2, <1>3 DEF TInv, Answering, Stepping
  <1>5. \A k \in Commands : job[k].pc # "none" => A.pc = "none" /\ A'.pc = "none"
    BY AnswerWorks
  <1> QED BY <1>2, <1>4, <1>5, AnswerSteps DEF TInv, TerminalTyped

\* (Right) Right closes a question that takes several
LEMMA RightKeeps ==
  ASSUME TInv, Right
  PROVE  TInv'
  <1> USE DEF TInv
  <1> DEFINE r == [A EXCEPT !.pc = "next", !.v = seen.ask]
  <1>1. A.pc = "right" /\ scr' \in Takes(scr, "Right") /\ Become("answer", r) /\ UNCHANGED <<seen, want, setting>>
    BY DEF Right, At, Press, A
  <1>2. A \in Task /\ seen.ask \in Nat /\ scr \in Display
    BY KindsAre DEF TerminalTyped, A
  <1>3. r \in Task /\ r.pc = "next" /\ r.i = A.i /\ r.v = seen.ask
    <2>1. "next" \in Pc /\ seen.ask \in Value \cup Nat
      BY <1>2 DEF Pc
    <2> QED BY <1>2, <2>1 DEF Task
  <1> HIDE DEF r
  <1>4. job' \in [Kind -> Task] /\ job'["answer"] = r /\ \A j \in Kind : j # "answer" => job'[j] = job[j]
    BY <1>1, <1>3, Becomes, KindsAre DEF TerminalTyped
  <1>5. (A.pc)' = "next" /\ (A.i)' = A.i /\ (A.v)' = seen.ask
    BY <1>3, <1>4 DEF A
  <1>6. scr.view = "gone" \/ OnItsRow
    BY DEF Answering
  <1>7. CASE scr.view = "gone"
    <2>1. scr' = scr
      BY <1>1, <1>7, GoneStays
    <2>2. Formed'
      BY <1>1, <1>7, <2>1 DEF Formed, Meaning
    <2> QED BY <1>1, <1>2, <1>4, <1>5, <1>7, <2>1, <2>2, ToNext DEF SameRest, SameWork
  <1>8. CASE OnItsRow /\ scr.view # "gone"
    <2>1. Filled /\ A.i = scr.ask /\ scr.got[scr.ask] = Meant(want[A.i]) /\ scr.view = "list"
      BY <1>1, <1>8 DEF OnItsRow, Stepping, Taken, Filled
    <2>2. scr' = MoveOn(scr)
      BY <1>1, <2>1 DEF Takes
    <2>3. SameRest(scr, scr)
      BY DEF SameRest, SameWork
    <2>4. /\ scr' \in Display /\ SameRest(scr, scr') /\ scr'.view \in {"list", "review", "turn"} /\ Formed'
          /\ A.i < Len(want) => Filled' /\ scr'.ask = scr.ask + 1 /\ scr'.row = 0 /\ scr'.got[scr'.ask] = {}
      BY <1>1, <1>2, <2>1, <2>2, <2>3, QuestionDone
    <2> QED BY <1>1, <1>4, <1>5, <1>8, <2>1, <2>4, ToNext
  <1> QED BY <1>6, <1>7, <1>8

\* Enter on a row of the list, in each of the ways it goes on
LEMMA EnterInForm ==
  ASSUME TerminalGiven, TInv, A.pc = "enter", OnItsRow, scr' \in Takes(scr, "Enter"), want' = want
  PROVE  /\ scr' \in Display /\ SameRest(scr, scr') /\ scr.view = "list" /\ Filled /\ A.i = scr.ask /\ seen.ask = scr.ask
         /\ \/ /\ want[A.i].how = "ticks" /\ Len(want[A.i].rows) = 2 /\ scr'.view = "list" /\ scr'.row = scr.row
               /\ scr'.ask = scr.ask /\ Filled' /\ Formed' /\ scr.form
               /\ \/ A.r = 1 /\ scr'.got[scr.ask] = {want[A.i].rows[1]}
                  \/ A.r = 2 /\ scr'.got[scr.ask] = Meant(want[A.i])
            \/ /\ want[A.i].how # "ticks" /\ A.r = Len(want[A.i].rows)
               /\ scr'.view \in {"list", "review", "turn"} /\ Formed'
               /\ A.i < Len(want) => Filled' /\ scr'.ask = scr.ask + 1 /\ scr'.row = 0 /\ scr'.got[scr'.ask] = {}
  <1> USE DEF TInv
  <1>1. /\ Filled /\ A.i = scr.ask /\ seen.ask = scr.ask /\ scr.got[scr.ask] = Taken /\ scr.row = Target
        /\ (want[A.i].how = "words" => scr.typed)
    BY DEF OnItsRow, Stepping
  <1>2. /\ scr.view = "list" /\ scr.ask \in 1 .. Len(scr.kinds) /\ Len(scr.got) = Len(scr.kinds) /\ ~scr.sent
        /\ scr \in Display /\ Options \in Nat
        /\ (scr.form \/ scr.kinds = <<"one">>)
    BY <1>1 DEF Filled, Formed, TerminalTyped, TerminalGiven
  <1>3. A.r \in 1 .. Len(want[A.i].rows) /\ A.i \in DOMAIN want /\ want[A.i].rows \in Seq(Nat) /\ A.r \in Nat
        /\ Len(want[A.i].rows) \in Nat
    <2>1. A.r \in 1 .. Len(want[A.i].rows)
      BY DEF Answering, Stepping
    <2> QED BY <2>1, ReplyIs
  <1>4. Target \in Nat /\ Target <= Options /\ (Target = Options <=> want[A.i].how = "words") /\ (Target = Options => scr.form)
    BY <1>1, <1>3, TargetIsThere
  <1>5. Fits(want[A.i], scr.kinds[scr.ask])
    BY <1>1, <1>3 DEF Filled
  <1>6. scr.row <= Options /\ (scr.row = Options => scr.form /\ scr.typed)
    BY <1>1, <1>4
  <1>7. PICK rows \in SUBSET Nat, u \in Display :
            /\ RowsSet(scr, scr.ask, rows, u)
            /\ \/ scr.row = Options /\ rows = scr.got[scr.ask] \cup {Options} /\ scr' = MoveOn(u)
               \/ scr.row < Options /\ scr.kinds[scr.ask] = "many" /\ rows = Ticked(scr.got[scr.ask], scr.row) /\ scr' = u
               \/ scr.row < Options /\ scr.kinds[scr.ask] # "many" /\ rows = {scr.row} /\ scr' = MoveOn(u)
    BY <1>2, <1>6, TakesRow
  <1>8. /\ SameRest(scr, u) /\ u.view = scr.view /\ u.row = scr.row /\ u.ask = scr.ask
        /\ u.kinds = scr.kinds /\ u.typed = scr.typed /\ u.sent = scr.sent
        /\ Len(u.got) = Len(scr.got) /\ u.got[scr.ask] = rows
        /\ \A j \in 1 .. Len(scr.got) : j # scr.ask => u.got[j] = scr.got[j]
    BY <1>7 DEF RowsSet
  <1>9. (Len(want[A.i].rows) = 1 => Meant(want[A.i]) = {want[A.i].rows[1]})
        /\ (Len(want[A.i].rows) = 2 => Meant(want[A.i]) = {want[A.i].rows[1], want[A.i].rows[2]})
    BY <1>3, MeantIs
  <1>10. CASE want[A.i].how # "ticks"
    <2>1. Len(want[A.i].rows) = 1 /\ A.r = 1 /\ want[A.i].rows[1] = scr.row /\ scr.got[scr.ask] = {}
          /\ (want[A.i].how = "words" \/ scr.kinds[scr.ask] # "many")
      BY <1>1, <1>3, <1>5, <1>10 DEF Fits, Taken, Target
    <2>2. rows = Meant(want[A.i]) /\ scr' = MoveOn(u)
      BY <1>1, <1>4, <1>7, <1>9, <2>1
    <2>3. /\ scr' \in Display /\ SameRest(scr, scr') /\ scr'.view \in {"list", "review", "turn"} /\ Formed'
          /\ A.i < Len(want) => Filled' /\ scr'.ask = scr.ask + 1 /\ scr'.row = 0 /\ scr'.got[scr'.ask] = {}
      BY <1>1, <1>2, <1>7, <1>8, <2>2, QuestionDone
    <2> QED BY <1>1, <1>2, <1>10, <2>1, <2>3
  <1>11. CASE want[A.i].how = "ticks"
    <2>1. /\ scr.kinds[scr.ask] = "many" /\ Len(want[A.i].rows) = 2 /\ want[A.i].rows[1] < want[A.i].rows[2]
          /\ want[A.i].rows[1] \in Nat /\ want[A.i].rows[2] \in Nat /\ A.r \in {1, 2}
      <3>1. /\ scr.kinds[scr.ask] = "many" /\ Len(want[A.i].rows) = 2 /\ want[A.i].rows[1] < want[A.i].rows[2]
        BY <1>5, <1>11 DEF Fits
      <3>2. 1 \in 1 .. Len(want[A.i].rows) /\ 2 \in 1 .. Len(want[A.i].rows)
        BY <3>1
      <3>3. want[A.i].rows[1] \in Nat /\ want[A.i].rows[2] \in Nat
        BY <1>3, <3>2, ElementOfSeq
      <3>4. A.r \in {1, 2}
        BY <1>3, <3>1
      <3> QED BY <3>1, <3>3, <3>4
    <2>2. scr.row < Options /\ rows = Ticked(scr.got[scr.ask], scr.row) /\ scr' = u
      BY <1>1, <1>4, <1>7, <1>11, <2>1
    <2>3. A.r = 1 => rows = {want[A.i].rows[1]}
      BY <1>1, <2>2 DEF Taken, Target, Ticked
    <2>4. A.r = 2 => rows = Meant(want[A.i])
      BY <1>1, <1>9, <2>1, <2>2 DEF Taken, Target, Ticked
    <2>5. scr.form
      BY <1>2, <2>1
    <2>6. Formed'
      BY <1>2, <1>8, <2>2 DEF Formed, SameRest
    <2>7. Filled'
      <3>1. \A q \in DOMAIN want : Fits(want[q], scr.kinds[q])'
        BY <1>1, <1>8, <2>2 DEF Filled, Fits, SameRest
      <3>2. \A q \in DOMAIN want : Meant(want[q])' = Meant(want[q])
        BY DEF Meant
      <3>3. \A q \in DOMAIN want : q \in 1 .. Len(scr.got)
        BY <1>1, <1>2 DEF Filled, TerminalTyped
      <3> QED BY <1>1, <1>2, <1>8, <2>2, <3>1, <3>2, <3>3, SMTT(20) DEF Filled
    <2> QED BY <1>1, <1>2, <1>7, <1>8, <1>11, <2>1, <2>2, <2>3, <2>4, <2>5, <2>6, <2>7
  <1> QED BY <1>10, <1>11

\* (EnterRow) Enter takes the row that is meant
LEMMA EnterRowKeeps ==
  ASSUME TerminalGiven, TInv, EnterRow
  PROVE  TInv'
  <1> USE DEF TInv
  <1> DEFINE many == Len(want[A.i].rows)
             again == [A EXCEPT !.pc = "walk", !.r = A.r + 1]
             next == [A EXCEPT !.pc = "next", !.v = seen.ask]
  <1>1. /\ A.pc = "enter" /\ scr' \in Takes(scr, "Enter") /\ UNCHANGED <<seen, want, setting>>
        /\ \/ A.r < many /\ Become("answer", again)
           \/ ~(A.r < many) /\ want[A.i].how = "ticks" /\ Now("answer", "right")
           \/ ~(A.r < many) /\ want[A.i].how # "ticks" /\ scr.form /\ Become("answer", next)
           \/ ~(A.r < many) /\ want[A.i].how # "ticks" /\ ~scr.form /\ End("answer")
    BY DEF EnterRow, At, Press, A
  <1>2. A \in Task /\ A.i \in 1 .. Len(want) /\ many \in Nat /\ A.r \in 1 .. many /\ A.r \in Nat /\ seen.ask \in Nat /\ scr \in Display
    <2>1. A.r \in 1 .. many
      BY <1>1 DEF Answering, Stepping
    <2> QED BY <1>1, <2>1, ReplyIs DEF TerminalTyped
  <1>3. again \in Task /\ again.pc = "walk" /\ again.i = A.i /\ again.r = A.r + 1
    <2>1. "walk" \in Pc /\ A.r + 1 \in Nat
      BY <1>2 DEF Pc
    <2> QED BY <1>2, <2>1 DEF Task
  <1>4. next \in Task /\ next.pc = "next" /\ next.i = A.i /\ next.v = seen.ask
    <2>1. "next" \in Pc /\ seen.ask \in Value \cup Nat
      BY <1>2 DEF Pc
    <2> QED BY <1>2, <2>1 DEF Task
  <1> HIDE DEF many, again, next
  <1>5. \A k \in Commands : job[k].pc = "none"
    BY <1>1, AnswerWorks
  <1>6. scr.view = "gone" \/ (OnItsRow /\ scr.view # "gone")
    BY DEF Answering
  <1>7. scr.view = "gone" => scr' = scr /\ SameRest(scr, scr') /\ Formed'
    <2>1. SUFFICES ASSUME scr.view = "gone" PROVE scr' = scr /\ SameRest(scr, scr') /\ Formed'
      OBVIOUS
    <2>2. scr' = scr
      BY <1>1, <2>1, GoneStays
    <2> QED BY <1>1, <2>2 DEF Formed, Meaning, SameRest, SameWork
  <1> DEFINE Ticking1 == /\ want[A.i].how = "ticks" /\ many = 2 /\ scr'.view = "list" /\ scr'.row = scr.row
                         /\ scr'.ask = scr.ask /\ Filled' /\ Formed' /\ scr.form
                         /\ \/ A.r = 1 /\ scr'.got[scr.ask] = {want[A.i].rows[1]}
                            \/ A.r = 2 /\ scr'.got[scr.ask] = Meant(want[A.i])
             Ended == /\ want[A.i].how # "ticks" /\ A.r = many
                      /\ scr'.view \in {"list", "review", "turn"} /\ Formed'
                      /\ A.i < Len(want) => Filled' /\ scr'.ask = scr.ask + 1 /\ scr'.row = 0 /\ scr'.got[scr'.ask] = {}
  <1>8. scr.view # "gone" => /\ scr' \in Display /\ SameRest(scr, scr') /\ scr.view = "list" /\ Filled
                             /\ A.i = scr.ask /\ seen.ask = scr.ask /\ seen.row = scr.row
                             /\ Ticking1 \/ Ended
    <2>1. SUFFICES ASSUME scr.view # "gone"
                   PROVE  /\ scr' \in Display /\ SameRest(scr, scr') /\ scr.view = "list" /\ Filled
                          /\ A.i = scr.ask /\ seen.ask = scr.ask /\ seen.row = scr.row
                          /\ Ticking1 \/ Ended
      OBVIOUS
    <2>2. OnItsRow
      BY <1>6, <2>1
    <2>3. want' = want
      BY <1>1
    <2>4. A.pc = "enter" /\ scr' \in Takes(scr, "Enter")
      BY <1>1
    <2>5. seen.row = scr.row
      BY <2>2, <2>4 DEF OnItsRow, Stepping
    <2>6. /\ scr' \in Display /\ SameRest(scr, scr') /\ scr.view = "list" /\ Filled /\ A.i = scr.ask /\ seen.ask = scr.ask
          /\ \/ /\ want[A.i].how = "ticks" /\ Len(want[A.i].rows) = 2 /\ scr'.view = "list" /\ scr'.row = scr.row
                /\ scr'.ask = scr.ask /\ Filled' /\ Formed' /\ scr.form
                /\ \/ A.r = 1 /\ scr'.got[scr.ask] = {want[A.i].rows[1]}
                   \/ A.r = 2 /\ scr'.got[scr.ask] = Meant(want[A.i])
             \/ /\ want[A.i].how # "ticks" /\ A.r = Len(want[A.i].rows)
                /\ scr'.view \in {"list", "review", "turn"} /\ Formed'
                /\ A.i < Len(want) => Filled' /\ scr'.ask = scr.ask + 1 /\ scr'.row = 0 /\ scr'.got[scr'.ask] = {}
      BY ONLY TerminalGiven, TInv, <2>2, <2>3, <2>4, EnterInForm
    <2>7. Ticking1 \/ Ended
      BY ONLY <2>6 DEF many
    <2> QED BY <2>5, <2>6, <2>7
  <1> HIDE DEF Ticking1, Ended
  <1>9. CASE A.r < many /\ Become("answer", again)
    <2>1. job' \in [Kind -> Task] /\ job'["answer"] = again /\ \A j \in Kind : j # "answer" => job'[j] = job[j]
      BY <1>3, <1>9, Becomes, KindsAre DEF TerminalTyped
    <2>2. (A.pc)' = "walk" /\ (A.i)' = A.i /\ (A.r)' = A.r + 1
      BY <1>3, <2>1 DEF A
    <2>3. scr.view # "gone" => Ticking1 /\ A.r = 1
      BY <1>8, <1>9, <1>2 DEF Ticking1, Ended
    <2>4. Taken' = {want[A.i].rows[1]}
      BY <1>1, <1>2, <2>2 DEF Taken
    <2>5. scr.view # "gone" => OnItsRow'
      BY <1>1, <1>8, <2>2, <2>3, <2>4 DEF OnItsRow, Ticking1
    <2>6. Between'
      BY <2>2 DEF Between
    <2>7. A.r + 1 \in 1 .. many
      BY <1>2, <1>9
    <2>8. many' = many
      BY <1>1, <2>2 DEF many
    <2>9. Answering'
      BY <1>1, <1>2, <1>7, <2>2, <2>5, <2>6, <2>7, <2>8 DEF Answering, Stepping, many
    <2>10. Formed' /\ scr' \in Display /\ SameRest(scr, scr') /\ scr'.view = scr.view
      BY <1>2, <1>7, <1>8, <2>3 DEF Ticking1
    <2> QED BY <1>1, <1>5, <2>1, <2>9, <2>10, AnswerSteps DEF TerminalTyped
  <1>10. CASE ~(A.r < many) /\ want[A.i].how = "ticks" /\ Now("answer", "right")
    <2>1. /\ job' \in [Kind -> Task] /\ \A j \in Kind : j # "answer" => job'[j] = job[j]
          /\ (A.pc)' = "right" /\ (A.i)' = A.i /\ (A.r)' = A.r
      BY <1>10, Goes, KindsAre DEF TerminalTyped, A, Pc
    <2>2. scr.view # "gone" => Ticking1 /\ A.r = 2
      BY <1>8, <1>10, <1>2 DEF Ticking1, Ended
    <2>3. Taken' = Meant(want[A.i])
      BY <1>1, <2>1 DEF Taken, Meant
    <2>4. scr.view # "gone" => OnItsRow'
      BY <1>1, <1>8, <1>10, <2>1, <2>2, <2>3 DEF OnItsRow, Ticking1
    <2>5. Between'
      BY <2>1 DEF Between
    <2>6. Answering'
      BY <1>1, <1>2, <1>7, <2>1, <2>4, <2>5 DEF Answering, Stepping
    <2>7. Formed' /\ scr' \in Display /\ SameRest(scr, scr') /\ scr'.view = scr.view
      BY <1>2, <1>7, <1>8, <2>2 DEF Ticking1
    <2> QED BY <1>1, <1>5, <2>1, <2>6, <2>7, AnswerSteps DEF TerminalTyped
  <1>11. CASE ~(A.r < many) /\ want[A.i].how # "ticks" /\ scr.form /\ Become("answer", next)
    <2>1. job' \in [Kind -> Task] /\ job'["answer"] = next /\ \A j \in Kind : j # "answer" => job'[j] = job[j]
      BY <1>4, <1>11, Becomes, KindsAre DEF TerminalTyped
    <2>2. (A.pc)' = "next" /\ (A.i)' = A.i /\ (A.v)' = seen.ask
      BY <1>4, <2>1 DEF A
    <2>3. scr.view # "gone" => Ended
      BY <1>8, <1>11 DEF Ticking1
    <2>4. scr' \in Display /\ SameRest(scr, scr') /\ Formed' /\ (scr.view = "gone" => scr'.view = "gone")
          /\ (scr.view # "gone" => scr'.view \in {"list", "review", "turn"})
          /\ (scr.view # "gone" /\ A.i < Len(want) =>
                Filled' /\ scr'.ask = scr.ask + 1 /\ scr'.row = 0 /\ scr'.got[scr'.ask] = {})
      BY <1>2, <1>7, <1>8, <2>3 DEF Ended
    <2>5. scr.view = "gone" \/ (OnItsRow /\ A.i = scr.ask)
      BY <1>6, <1>8
    <2> QED BY <1>1, <2>1, <2>2, <2>4, <2>5, ToNext
  <1>12. CASE ~(A.r < many) /\ want[A.i].how # "ticks" /\ ~scr.form /\ End("answer")
    <2>1. job' \in [Kind -> Task] /\ job'["answer"].pc = "none" /\ \A j \in Kind : j # "answer" => job'[j] = job[j]
      BY <1>12, Ends, KindsAre DEF TerminalTyped
    <2>2. A'.pc = "none"
      BY <2>1 DEF A
    <2>3. Answering'
      BY <1>1, <2>2 DEF Answering, OnItsRow, Between, Stepping
    <2>4. scr.view # "gone" => Ended
      BY <1>8, <1>12 DEF Ticking1
    <2>5. scr' \in Display /\ SameRest(scr, scr') /\ Formed'
          /\ (scr'.view = scr.view \/ (scr.view = "list" /\ scr'.view \in {"list", "review", "turn"}))
      BY <1>2, <1>7, <1>8, <2>4 DEF Ended
    <2> QED BY <1>1, <1>5, <2>1, <2>3, <2>5, AnswerSteps DEF TerminalTyped
  <1> QED BY <1>1, <1>9, <1>10, <1>11, <1>12

\* (Next1) The walk waits for the next question, or ends
LEMMA NextKeeps ==
  ASSUME TInv, Next1
  PROVE  TInv'
  <1> USE DEF TInv
  <1> DEFINE r == [A EXCEPT !.pc = "walk", !.i = A.i + 1, !.r = 1]
  <1>1. /\ A.pc = "next" /\ seen.ask # A.v /\ UNCHANGED <<scr, seen, want, setting>>
        /\ \/ A.i < Len(want) /\ Become("answer", r)
           \/ Now("answer", "review") \/ End("answer")
    BY DEF Next1, NextQuestion, Turned, At, A
  <1>2. A \in Task /\ A.i \in 1 .. Len(want) /\ A.i \in Nat /\ Len(want) \in Nat /\ want \in Seq(Reply)
    BY <1>1, ReplyIs DEF TerminalTyped
  <1>3. r \in Task /\ r.pc = "walk" /\ r.i = A.i + 1 /\ r.r = 1
    <2>1. "walk" \in Pc /\ A.i + 1 \in Nat
      BY <1>2 DEF Pc
    <2> QED BY <1>2, <2>1 DEF Task
  <1> HIDE DEF r
  <1>4. CASE A.i < Len(want) /\ Become("answer", r)
    <2>1. job' \in [Kind -> Task] /\ job'["answer"] = r /\ \A j \in Kind : j # "answer" => job'[j] = job[j]
      BY <1>3, <1>4, Becomes, KindsAre DEF TerminalTyped
    <2>2. (A.pc)' = "walk" /\ (A.i)' = A.i + 1 /\ (A.r)' = 1
      BY <1>3, <2>1 DEF A
    <2>3. A.i + 1 \in 1 .. Len(want) /\ A.i + 1 \in DOMAIN want
      BY <1>2, <1>4
    <2>4. 1 \in 1 .. Len(want[A.i + 1].rows)
      <3>1. want[A.i + 1] \in Reply /\ Len(want[A.i + 1].rows) > 0
        BY <1>2, <2>3 DEF Answering
      <3>2. Len(want[A.i + 1].rows) \in Nat
        BY <3>1 DEF Reply
      <3> QED BY <3>1, <3>2
    <2>5. Taken' = {}
      BY <2>2 DEF Taken
    <2>6. Filled' = Filled
      BY <1>1 DEF Filled, Fits, Meant
    <2>7. scr.view = "gone" \/ Between
      BY DEF Answering
    <2>8. Between => OnItsRow'
      BY <1>1, <1>2, <1>4, <2>2, <2>5, <2>6 DEF Between, OnItsRow
    <2>9. Between'
      BY <2>2 DEF Between
    <2>10. Answering'
      BY <1>1, <2>2, <2>3, <2>4, <2>7, <2>8, <2>9 DEF Answering, Stepping
    <2> QED BY <1>1, <2>1, <2>10, AnswerGoes
  <1>5. CASE Now("answer", "review")
    <2>1. /\ job' \in [Kind -> Task] /\ \A j \in Kind : j # "answer" => job'[j] = job[j]
          /\ (A.pc)' = "review" /\ (A.i)' = A.i
      BY <1>5, Goes, KindsAre DEF TerminalTyped, A, Pc
    <2>2. Answering'
      BY <1>1, <1>2, <2>1 DEF Answering, OnItsRow, Between, Stepping
    <2> QED BY <1>1, <2>1, <2>2, AnswerGoes
  <1>6. CASE End("answer")
    BY <1>1, <1>6, AnswerEnds
  <1> QED BY <1>1, <1>4, <1>5, <1>6

\* (Review) Enter on the review screen submits the form
LEMMA ReviewKeeps ==
  ASSUME TInv, Review
  PROVE  TInv'
  <1> USE DEF TInv
  <1>1. /\ A.pc = "review" /\ End("answer") /\ UNCHANGED <<seen, want, setting>>
        /\ (scr.view = "review" /\ scr' \in Takes(scr, "Enter")) \/ scr' = scr
    BY DEF Review, At, Press, A
  <1>2. CASE scr' = scr
    BY <1>1, <1>2, AnswerEnds
  <1>3. CASE scr.view = "review" /\ scr' \in Takes(scr, "Enter")
    <2> DEFINE t == Closed(scr, "turn")
    <2>1. scr' = [t EXCEPT !.sent = TRUE]
      BY <1>3 DEF Takes, Entered, Boxes
    <2>2. t \in Display /\ SameRest(scr, t) /\ t.got = scr.got /\ t.view = "turn"
      BY Closes DEF TerminalTyped, View, Boxes
    <2> HIDE DEF t
    <2>3. scr' \in Display /\ SameRest(scr, scr') /\ scr'.got = scr.got /\ scr'.view = "turn" /\ scr'.sent = TRUE
      BY <2>1, <2>2 DEF Display, SameRest, SameWork
    <2>4. Formed'
      BY <1>1, <1>3, <2>3 DEF Formed, Meaning, Meant
    <2>5. job' \in [Kind -> Task] /\ job'["answer"].pc = "none" /\ \A j \in Kind : j # "answer" => job'[j] = job[j]
      BY <1>1, Ends, KindsAre DEF TerminalTyped
    <2>6. A'.pc = "none"
      BY <2>5 DEF A
    <2>7. Answering'
      BY <1>1, <2>6 DEF Answering, OnItsRow, Between, Stepping
    <2>8. \A k \in Commands : job[k].pc = "none"
      BY <1>1, AnswerWorks
    <2> QED BY <1>1, <1>3, <2>3, <2>4, <2>5, <2>7, <2>8, AnswerSteps DEF TerminalTyped
  <1> QED BY <1>1, <1>2, <1>3

\* TInv holds until something happens the code makes no promise for
Promised == ~slip => TInv

\* The invariant holds at the start
LEMMA TerminalStarts == ASSUME TerminalGiven, TerminalInit PROVE TInv
  <1> DEFINE least == CHOOSE l \in Levels : \A k \in Levels : l <= k
  <1>1. /\ scr = [view |-> "input", box |-> {}, asked |-> Unset, row |-> 0, ask |-> 0, kinds |-> <<>>,
                  form |-> FALSE, typed |-> FALSE, got |-> <<>>, sent |-> FALSE,
                  level |-> least, lines |-> {}, status |-> Unset,
                  nothing |-> FALSE, done |-> FALSE, mode |-> 1]
        /\ seen = [ask |-> 0, row |-> 0] /\ job = [k \in Kind |-> Idle] /\ want = <<>>
        /\ setting = [set |-> Unset, mode |-> Unset]
    BY DEF TerminalInit
  <1>2. least \in Value /\ Unset \in Value /\ Unset \in Nat /\ "input" \in View
    BY DEF Value, Unset, View, Boxes
  <1> HIDE DEF least
  <1>3. Idle \in Task /\ Idle.pc = "none"
    <2>1. Unset \in Value \cup Nat /\ "none" \in Pc
      BY DEF Unset, Pc
    <2> QED BY <2>1 DEF Idle, Task
  <1>4. scr \in Display
    <2>1. <<>> \in Seq(Asked) /\ <<>> \in Seq(SUBSET Nat) /\ 0 \in Nat /\ 1 \in Nat
      OBVIOUS
    <2> QED BY <1>1, <1>2, <2>1 DEF Display
  <1>5. TerminalTyped
    BY <1>1, <1>2, <1>3, <1>4 DEF TerminalTyped
  <1>6. scr.view = "input" /\ scr.box = {} /\ scr.sent = FALSE /\ scr.status = Unset
    BY <1>1
  <1>7. \A k \in Kind : job[k].pc = "none"
    BY <1>1, <1>3
  <1>8. Formed
    BY <1>6 DEF Formed
  <1>9. Answering
    BY <1>1, <1>7, KindsAre DEF Answering, OnItsRow, Between, Stepping, A
  <1>10. Alone
    BY <1>7, KindsAre DEF Alone
  <1>11. Owned
    BY <1>6, <1>7, KindsAre DEF Owned
  <1>12. Changing
    BY <1>6, <1>7, KindsAre DEF Changing
  <1>13. Compacting
    BY <1>7, KindsAre DEF Compacting
  <1>14. SaidTrue
    BY <1>1 DEF SaidTrue
  <1> QED BY <1>5, <1>8, <1>9, <1>10, <1>11, <1>12, <1>13, <1>14 DEF TInv, Rest

\* ... is kept by every step that is no slip
LEMMA TerminalSteps ==
  ASSUME TerminalGiven, TInv, TerminalNext, ~slip'
  PROVE  TInv'
  <1>1. CASE Outside
    BY <1>1, AsksKeeps, PersonKeeps, RepliesKeeps, TurnOverKeeps, CompactionEndsKeeps, DiesKeeps, RedrawKeeps DEF Outside
  <1>2. CASE Command
    <2>1. CASE Guarded
      BY <2>1, StartKeeps DEF Guarded
    <2>2. CASE SetDone \/ ConfirmSet \/ CloseSlider \/ SeesCompaction \/ CompactDone \/ PressMode \/ ModeEnds
      BY <2>2, SetDoneKeeps, ConfirmKeeps, SliderKeeps, SeesKeeps, CompactDoneKeeps, PressModeKeeps, ModeEndsKeeps
    <2>3. CASE CompactGivesUp
      BY <2>3 DEF CompactGivesUp
    <2>4. ASSUME NEW k \in {"set", "effort", "compact"}, TypeCommand(k) \/ EnterCommand(k) \/ Again(k) \/ GiveUp(k)
          PROVE  TInv'
      BY <2>4, TypeKeeps, EnterKeeps, AgainKeeps, GiveUpKeeps
    <2> QED BY <1>2, <2>1, <2>2, <2>3, <2>4 DEF Command
  <1>3. CASE Body
    BY <1>3, DeliverKeeps, LooksKeeps, PasteKeeps, EnterBodyKeeps, WatchesKeeps DEF Body
  <1>4. CASE Answer
    <2>1. CASE StartAnswer \/ Cancel \/ Walk \/ Move \/ Moved \/ Words \/ EnterRow \/ Right \/ Next1 \/ Review
      BY <2>1, StartsKeeps, CancelKeeps, WalkKeeps, MoveKeeps, MovedKeeps, WordsKeeps, EnterRowKeeps, RightKeeps,
         NextKeeps, ReviewKeeps
    <2>2. CASE MovedTooSlow \/ NextTooSlow
      BY <2>2 DEF MovedTooSlow, NextTooSlow
    <2> QED BY <1>4, <2>1, <2>2 DEF Answer
  <1> QED BY <1>1, <1>2, <1>3, <1>4 DEF TerminalNext

\* ... and implies what the run checks
LEMMA KeysLand == ASSUME TInv PROVE AnswersAsMeant /\ NothingLeft /\ SetAsTold
  <1>1. AnswersAsMeant
    BY DEF TInv, Formed, Meaning, AnswersAsMeant
  <1>2. NothingLeft
    BY KindsAre DEF TInv, Rest, Owned, NothingLeft, Busy, Free, TerminalTyped, Display
  <1>3. SetAsTold
    BY DEF TInv, Rest, SaidTrue, SetAsTold, Free
  <1> QED BY <1>1, <1>2, <1>3

\* Until something happens the code makes no promise for, keys land where they
\* were meant: whatever the forms, the settings' values, the modes and the bounds.
\* (answer_questions, cursor_to, until_moved; drive, effort, compact, set_mode;
\* not_accepting_keys)
THEOREM KeysAlwaysLand == ASSUME TerminalGiven PROVE TerminalSpec => []KeysLandWhereMeant
  <1>1. TerminalInit => Promised
    BY TerminalStarts DEF Promised
  <1>2. Promised /\ [TerminalNext]_terminalVars => Promised'
    <2>1. ASSUME Promised, TerminalNext
          PROVE  Promised'
      <3>1. ~slip /\ TInv
        BY <2>1 DEF Promised, TerminalNext
      <3> QED BY <2>1, <3>1, TerminalSteps DEF Promised
    <2>2. ASSUME Promised, UNCHANGED terminalVars
          PROVE  Promised'
      BY <2>2, AllStay DEF Promised, terminalVars
    <2> QED BY <2>1, <2>2
  <1>3. Promised => KeysLandWhereMeant
    BY KeysLand DEF Promised, KeysLandWhereMeant
  <1> QED BY <1>1, <1>2, <1>3, PTL DEF TerminalSpec
=============================================================================
