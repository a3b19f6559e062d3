----------------------------- MODULE FleetProofs -----------------------------
(***************************************************************************)
(* Theorems about Fleet, for any machines in any order, any versions and   *)
(* every fault: the types of all it does; the roll-out of one update while *)
(* nobody is renamed; the names of the machines while updates run.         *)
(*                                                                         *)
(* One update, because two begun at once write their plans over each other *)
(* (begin_rollout looks before Slack takes its message and not again), and *)
(* the download of one that was given up goes on.  No new names, because a *)
(* plan lists names, and a rename may have begun before it.                *)
(*                                                                         *)
(* Neither property is inductive.  A machine is told because of what it    *)
(* last said, so what was said, what is on its way and what is on file     *)
(* must be known to agree (BoxHolds), a machine nobody told must be known  *)
(* to be as it was (Untouched), every machine before the one on its way    *)
(* must have ended (InOrder), and the copy drive_updates works on must be  *)
(* related to the plan on file, which fails machines beside it (Beside).   *)
(*                                                                         *)
(* Nor is it inductive that no two machines share a name.  A name is given *)
(* away when no record has it and nobody is linked under it, so every box  *)
(* must be known to have its name on record while no rename is under way,  *)
(* also a name it is only told or will have after a restart (Goes, Phase). *)
(***************************************************************************)
EXTENDS Fleet, SequenceTheorems, TLAPS

\* What the theorems are about
OneUpdate == MaxUpdates <= 1 /\ MaxRenames = 0

UpdateFrames == [kind : {"update"}, version : Version, local : BOOLEAN]
Answers == {UpdateFailed} \cup {Says(v) : v \in Version}
Drive == {Rest} \cup [at : {"write", "tell"}, plan : Plan, tell : Name \cup {None}, finished : BOOLEAN]

(* The types a step needs: TypeOK, and the frames on their way.            *)
Types ==
    /\ plan = None \/ plan \in Plan
    /\ known \subseteq Name
    /\ said \in [Name -> Version \cup {None}]
    /\ {route, row, thread} \subseteq Name
    /\ grown \in BOOLEAN /\ overdue \in BOOLEAN
    /\ drafts \subseteq Plan
    /\ drive \in Drive
    /\ runs \in [Box -> Version] /\ disk \in [Box -> Version]
    /\ jobs \in [Box -> SUBSET UpdateFrames]
    /\ down \in [Box -> Seq(UpdateFrames)]
    /\ up \in [Box -> Seq(Answers)]
    /\ aged \subseteq builds /\ builds \subseteq Version
    /\ updates \in Nat

(* Nobody is renamed: a name is the box that was first called by it.       *)
Unnamed ==
    /\ asking = Rest /\ renaming = None /\ undo = {} /\ notes = <<>> /\ renames = 0
    /\ called = [b \in Box |-> b] /\ dotenv = called
    /\ linked \in [Name -> Box \cup {None}]
    /\ \A n \in Name : linked[n] \in {n, None}
    /\ linked[Me] = Me
    /\ known \subseteq Box

(* A machine nobody has told anything: its file is the binary it runs.     *)
Untouched(b) ==
    /\ jobs[b] = {} /\ down[b] = <<>> /\ disk[b] = runs[b]
    /\ said[b] \in {None, runs[b]}
    /\ \A i \in DOMAIN up[b] : up[b][i] # UpdateFailed

Waiting(p) == \A n \in DOMAIN p.steps : p.steps[n] = "pending"
Tried(p, b) == b \in DOMAIN p.steps /\ p.steps[b] \in {"updating", "done", "failed"}

(* Everything before the machine on its way has ended.                     *)
InOrder(p) ==
    \A n, m \in DOMAIN p.steps :
        p.steps[n] = "updating" /\ Rank[m] < Rank[n] => ~Open(p.steps[m])
DoneRuns(p, T) == \A n \in DOMAIN p.steps : p.steps[n] = "done" => n \in Box /\ runs[n] = T
PlanHolds(p, T) ==
    /\ p.target = T
    /\ DOMAIN p.steps \subseteq Box
    /\ InOrder(p)
    /\ DoneRuns(p, T)
    /\ \A b \in Box : Tried(p, b) \/ Untouched(b)

(* Where an update has come to.                                            *)
NoneYet == plan = None /\ drafts = {} /\ drive = Rest /\ \A b \in Box : Untouched(b)
Drafted(T) ==
    /\ plan = None /\ drive = Rest
    /\ \E p \in Plan : drafts = {p} /\ p.target = T /\ DOMAIN p.steps \subseteq Box /\ Waiting(p)
                       /\ (p.local => T \in builds \ aged)
    /\ \A b \in Box : Untouched(b)
UnderWay(T) ==
    /\ plan # None /\ drafts = {}
    /\ PlanHolds(plan, T)
    /\ plan.local => T \in builds
Through == plan = None /\ drafts = {} /\ drive = Rest

Where(T) ==
    \/ NoneYet
    \/ updates > 0 /\ Drafted(T)
    \/ updates > 0 /\ UnderWay(T)
    \/ updates > 0 /\ Through

(* The copy drive_updates works on, beside the plan on file.               *)
Follows(old, new) ==
    \/ new = old
    \/ old = "pending"
    \/ old = "updating" /\ new \in {"done", "failed"}
Beside(T) ==
    drive # Rest =>
        /\ plan # None /\ PlanHolds(drive.plan, T)
        /\ drive.plan.local = plan.local
        /\ DOMAIN drive.plan.steps = DOMAIN plan.steps
        /\ drive.finished => drive.tell = None
        /\ drive.at = "tell" => drive.plan = plan /\ drive.tell # None
        /\ drive.at = "write" =>
              \A n \in DOMAIN plan.steps :
                  /\ Follows(plan.steps[n], drive.plan.steps[n])
                  /\ plan.steps[n] = "updating" => drive.plan.steps[n] # "updating"
        /\ drive.tell # None =>
              /\ drive.tell \in DOMAIN plan.steps
              /\ drive.plan.steps[drive.tell] = "updating"
              /\ runs[drive.tell] # T /\ Untouched(drive.tell)

(* A box: what it runs and has on file, what it said and has been told.    *)
BoxHolds(b, T) ==
    /\ disk[b] \in {runs[b], T}
    /\ said[b] = T => runs[b] = T
    /\ OnItsWay(b) => runs[b] # T
    /\ \A job \in jobs[b] : job.version = T
    /\ \A i \in DOMAIN down[b] : down[b][i].version = T
    /\ \A i \in DOMAIN up[b] : up[b][i] = Says(runs[b]) \/ (up[b][i] = UpdateFailed /\ runs[b] # T)

Holds(T) == Where(T) /\ Beside(T) /\ \A b \in Box : BoxHolds(b, T)
Inv == Types /\ Unnamed /\ \E T \in Version : Holds(T)
-----------------------------------------------------------------------------
\* The plan

LEMMA PlanFields ==
    ASSUME NEW p \in Plan
    PROVE  /\ p.target \in Version /\ p.local \in BOOLEAN
           /\ DOMAIN p.steps \subseteq Name
           /\ \A n \in DOMAIN p.steps : p.steps[n] \in StepStates
           /\ p.steps = [n \in DOMAIN p.steps |-> p.steps[n]]
           /\ p = [target |-> p.target, local |-> p.local, steps |-> p.steps]
<1>1. p.steps \in UNION {[ids -> StepStates] : ids \in SUBSET Name}
  BY DEF Plan
<1>2. PICK ids \in SUBSET Name : p.steps \in [ids -> StepStates]
  BY <1>1
<1>3. QED BY <1>2 DEF Plan

LEMMA PlanMade ==
    ASSUME NEW v \in Version, NEW l \in BOOLEAN, NEW ids, ids \subseteq Name,
           NEW steps \in [ids -> StepStates]
    PROVE  [target |-> v, local |-> l, steps |-> steps] \in Plan
<1>1. steps \in UNION {[s -> StepStates] : s \in SUBSET Name}
  OBVIOUS
<1>2. QED BY <1>1 DEF Plan

(* A plan with other states for the same machines. *)
LEMMA PlanMoved ==
    ASSUME NEW p \in Plan, NEW steps, DOMAIN steps = DOMAIN p.steps,
           steps = [n \in DOMAIN p.steps |-> steps[n]],
           \A n \in DOMAIN p.steps : steps[n] \in StepStates
    PROVE  /\ [p EXCEPT !.steps = steps] \in Plan
           /\ [p EXCEPT !.steps = steps].steps = steps
           /\ [p EXCEPT !.steps = steps].target = p.target
           /\ [p EXCEPT !.steps = steps].local = p.local
<1>1. [p EXCEPT !.steps = steps] = [target |-> p.target, local |-> p.local, steps |-> steps]
  BY DEF Plan
<1>2. steps \in [DOMAIN p.steps -> StepStates]
  OBVIOUS
<1>3. [target |-> p.target, local |-> p.local, steps |-> steps] \in Plan
  BY <1>2, PlanMade, PlanFields
<1>4. QED BY <1>1, <1>3

(* What an open step may become. *)
LEMMA VerdictIs ==
    ASSUME NEW p \in Plan, NEW n \in DOMAIN p.steps, NEW late \in BOOLEAN
    PROVE  /\ Verdict(p, n, late) \in StepStates
           /\ Verdict(p, n, late) # p.steps[n] => ~Open(Verdict(p, n, late))
           /\ Verdict(p, n, late) = "done" =>
                  p.steps[n] = "done" \/ (Here(n) /\ Runs(n) = p.target)
           /\ p.steps[n] = "updating" => Verdict(p, n, late) \in {"updating", "done", "failed"}
           /\ p.steps[n] = "pending" /\ Verdict(p, n, late) = "pending" =>
                  Here(n) /\ Runs(n) \notin {None, p.target}
<1> DEFINE state == p.steps[n]
           there == Here(n) /\ Runs(n) = p.target
<1>1. state \in StepStates
  BY PlanFields
<1>2. CASE there
  BY <1>1, <1>2 DEF Verdict, StepStates, Open
<1>3. CASE ~there /\ state = "pending" /\ ~Here(n)
  BY <1>3 DEF Verdict, StepStates, Open
<1>4. CASE ~there /\ state = "pending" /\ Here(n) /\ Runs(n) = None
  BY <1>4 DEF Verdict, StepStates, Open
<1>5. CASE ~there /\ state = "pending" /\ Here(n) /\ Runs(n) # None
  BY <1>5 DEF Verdict, StepStates, Open
<1>6. CASE ~there /\ state = "updating" /\ late
  BY <1>6 DEF Verdict, StepStates, Open
<1>7. CASE ~there /\ state = "updating" /\ ~late
  BY <1>7 DEF Verdict, StepStates, Open
<1>8. CASE ~there /\ state \notin {"pending", "updating"}
  BY <1>1, <1>8 DEF Verdict, StepStates, Open
<1>9. QED BY <1>2, <1>3, <1>4, <1>5, <1>6, <1>7, <1>8

(* A plan moved on, beside the one it was made from. *)
MovedOn(p, new, tell, finished, T) ==
    /\ new \in Plan /\ new.local = p.local
    /\ DOMAIN new.steps = DOMAIN p.steps
    /\ PlanHolds(new, T)
    /\ finished => tell = None
    /\ \A n \in DOMAIN p.steps :
          /\ Follows(p.steps[n], new.steps[n])
          /\ p.steps[n] = "updating" => new.steps[n] # "updating"
    /\ tell # None =>
          /\ tell \in DOMAIN p.steps
          /\ new.steps[tell] = "updating"
          /\ runs[tell] # T /\ Untouched(tell)

LEMMA Advanced ==
    ASSUME NEW p \in Plan, NEW late \in BOOLEAN, NEW T \in Version,
           Types, Unnamed, PlanHolds(p, T), \A b \in Box : BoxHolds(b, T),
           Advance(p, late).plan # p \/ Advance(p, late).finished
    PROVE  MovedOn(p, Advance(p, late).plan, Advance(p, late).tell, Advance(p, late).finished, T)
           /\ Advance(p, late).tell \in Name \cup {None} /\ Advance(p, late).finished \in BOOLEAN
<1> DEFINE ids == DOMAIN p.steps
           stop == Stops(p, late)
           next == {n \in First(stop) : p.steps[n] = "pending"}
           passed == {n \in ids : \A other \in stop : Rank[n] < Rank[other]}
           steps == [n \in ids |-> IF n \in next THEN "updating"
                                   ELSE IF n \in passed /\ Open(p.steps[n]) THEN Verdict(p, n, late)
                                   ELSE p.steps[n]]
           tell == IF next = {} THEN None ELSE CHOOSE n \in next : TRUE
<1>1. /\ Advance(p, late).plan = [p EXCEPT !.steps = steps]
      /\ Advance(p, late).tell = tell
      /\ Advance(p, late).finished = (stop = {})
  BY DEF Advance
<1>2. /\ ids \subseteq Box /\ Box \subseteq Name /\ None \notin Name
      /\ p.target = T /\ InOrder(p) /\ DoneRuns(p, T)
      /\ \A n \in ids : p.steps[n] \in StepStates /\ Rank[n] \in Nat
      /\ \A n, m \in ids : n # m => Rank[n] # Rank[m]
  BY PlanFields, NameAssumption DEF PlanHolds, Name
<1>3. /\ stop \subseteq ids /\ next \subseteq stop
      /\ \A n \in ids : n \in stop <=> Open(p.steps[n]) /\ Verdict(p, n, late) = p.steps[n]
      /\ \A n \in next : p.steps[n] = "pending" /\ \A other \in stop : Rank[n] <= Rank[other]
  BY DEF Stops, First
<1>4. /\ \A n \in next : steps[n] = "updating"
      /\ \A n \in ids \ next : n \in passed /\ Open(p.steps[n]) => steps[n] = Verdict(p, n, late)
      /\ \A n \in ids \ next : ~(n \in passed /\ Open(p.steps[n])) => steps[n] = p.steps[n]
  BY <1>3
<1>5. \A n \in ids : n \in passed <=> \A other \in stop : Rank[n] < Rank[other]
  OBVIOUS
<1>6. DOMAIN steps = ids /\ \A n \in ids : steps[n] \in StepStates
  <2>1. \A n \in ids : Verdict(p, n, late) \in StepStates
    BY VerdictIs
  <2>2. QED BY <1>2, <2>1 DEF StepStates
<1>7. steps = [n \in ids |-> steps[n]]
  OBVIOUS
<1> HIDE DEF ids, stop, next, passed, steps, tell
<1>8. /\ Advance(p, late).plan \in Plan /\ Advance(p, late).plan.steps = steps
      /\ Advance(p, late).plan.target = p.target /\ Advance(p, late).plan.local = p.local
  <2>1. DOMAIN p.steps = ids
    BY DEF ids
  <2>2. QED BY <1>1, <1>6, <1>7, <2>1, PlanMoved
\* A machine on its way stops the plan only when nothing changes
<1>9. ASSUME NEW x \in ids, p.steps[x] = "updating", x \in stop PROVE FALSE
  <2>1. \A n \in ids : Rank[n] < Rank[x] => ~Open(p.steps[n])
    BY <1>2, <1>9 DEF InOrder, ids
  <2>2. next = {}
    <3>1. SUFFICES ASSUME NEW n \in next PROVE FALSE
      OBVIOUS
    <3>2. p.steps[n] = "pending" /\ Rank[n] <= Rank[x] /\ n \in ids
      BY <1>3, <1>9
    <3>3. n # x
      BY <1>9, <3>2
    <3>4. Rank[n] < Rank[x]
      BY <1>2, <1>9, <3>2, <3>3
    <3>5. QED BY <2>1, <3>2, <3>4 DEF Open
  <2>3. \A n \in ids : steps[n] = p.steps[n]
    BY <1>4, <1>5, <1>9, <2>1, <2>2
  <2>4. steps = p.steps
    BY <1>7, <2>3, PlanFields DEF ids
  <2>5. [p EXCEPT !.steps = steps] = p
    BY <2>4, PlanFields, ZenonT(40)
  <2>6. stop # {}
    BY <1>9
  <2>7. QED BY <1>1, <2>5, <2>6
\* ... and otherwise it has ended
<1>10. ASSUME NEW x \in ids, p.steps[x] = "updating"
       PROVE  steps[x] \in {"done", "failed"}
  <2>1. x \notin stop
    BY <1>9, <1>10
  <2>2. Verdict(p, x, late) # "updating" /\ Verdict(p, x, late) \in {"updating", "done", "failed"}
    <3>1. Open(p.steps[x])
      BY <1>10 DEF Open
    <3>2. Verdict(p, x, late) # "updating"
      BY <1>3, <1>10, <2>1, <3>1
    <3>3. x \in DOMAIN p.steps
      BY DEF ids
    <3>4. QED BY <1>10, <3>2, <3>3, VerdictIs
  <2>3. ASSUME NEW other \in stop PROVE Rank[x] < Rank[other]
    <3>1. other \in ids /\ Open(p.steps[other]) /\ other # x
      BY <1>3, <2>1, <2>3
    <3>2. ~(Rank[other] < Rank[x])
      BY <1>2, <1>10, <3>1 DEF InOrder, ids
    <3>3. Rank[x] \in Nat /\ Rank[other] \in Nat /\ Rank[x] # Rank[other]
      BY <1>2, <3>1
    <3>4. QED BY <3>2, <3>3
  <2>4. x \in passed /\ Open(p.steps[x]) /\ x \notin next
    BY <1>3, <1>5, <1>10, <2>1, <2>3 DEF Open
  <2>5. QED BY <1>4, <2>2, <2>4
\* A step that was passed has ended
<1>11. ASSUME NEW n \in ids \ next, n \in passed, Open(p.steps[n])
       PROVE  /\ steps[n] = Verdict(p, n, late) /\ ~Open(steps[n])
  <2>1. n \notin stop
    <3>1. n \in stop => Rank[n] < Rank[n]
      BY <1>5, <1>11
    <3>2. QED BY <1>2, <3>1
  <2>2. Verdict(p, n, late) # p.steps[n]
    BY <1>3, <1>11, <2>1
  <2>3. n \in DOMAIN p.steps
    BY DEF ids
  <2>4. QED BY <1>4, <1>11, <2>2, <2>3, VerdictIs
<1>12. \A n \in ids : steps[n] = "updating" => n \in next
  <2>1. SUFFICES ASSUME NEW n \in ids \ next, steps[n] = "updating" PROVE FALSE
    OBVIOUS
  <2>2. CASE n \in passed /\ Open(p.steps[n])
    BY <1>11, <2>1, <2>2 DEF Open
  <2>3. CASE ~(n \in passed /\ Open(p.steps[n]))
    <3>1. p.steps[n] = "updating"
      BY <1>4, <2>1, <2>3
    <3>2. QED BY <1>10, <2>1, <3>1
  <2>4. QED BY <2>2, <2>3
<1>13. InOrder(Advance(p, late).plan)
  <2>1. SUFFICES ASSUME NEW n \in ids, NEW m \in ids, steps[n] = "updating", Rank[m] < Rank[n]
                 PROVE  ~Open(steps[m])
    BY <1>6, <1>8 DEF InOrder
  <2>2. n \in next /\ \A other \in stop : Rank[n] <= Rank[other]
    BY <1>3, <1>12, <2>1
  <2>3. \A other \in stop : Rank[m] < Rank[other]
    <3>1. ASSUME NEW other \in stop PROVE Rank[m] < Rank[other]
      <4>1. Rank[m] \in Nat /\ Rank[n] \in Nat /\ Rank[other] \in Nat
        BY <1>2, <1>3
      <4>2. Rank[n] <= Rank[other]
        BY <2>2
      <4>3. QED BY <2>1, <4>1, <4>2
    <3>2. QED BY <3>1
  <2>4. m \in passed /\ m \notin next
    <3>1. m \notin stop
      <4>1. m \in stop => Rank[m] < Rank[m]
        BY <2>3
      <4>2. QED BY <1>2, <4>1
    <3>2. QED BY <1>3, <1>5, <2>3, <3>1
  <2>5. CASE Open(p.steps[m])
    BY <1>11, <2>4, <2>5
  <2>6. CASE ~Open(p.steps[m])
    BY <1>4, <2>4, <2>6
  <2>7. QED BY <2>5, <2>6
<1>14. DoneRuns(Advance(p, late).plan, T)
  <2>1. SUFFICES ASSUME NEW n \in ids, steps[n] = "done" PROVE n \in Box /\ runs[n] = T
    BY <1>6, <1>8 DEF DoneRuns
  <2>2. n \in Box /\ n \notin next
    BY <1>2, <1>4, <2>1
  <2>3. CASE n \in passed /\ Open(p.steps[n])
    <3>1. Verdict(p, n, late) = "done" /\ p.steps[n] # "done" /\ n \in DOMAIN p.steps
      BY <1>11, <2>1, <2>2, <2>3 DEF Open, ids
    <3>2. Runs(n) = T
      BY <1>2, <3>1, VerdictIs
    <3>3. said[n] = T => runs[n] = T
      BY <2>2 DEF BoxHolds
    <3>4. QED BY <2>2, <3>2, <3>3 DEF Runs
  <2>4. CASE ~(n \in passed /\ Open(p.steps[n]))
    <3>1. p.steps[n] = "done"
      BY <1>4, <2>1, <2>2, <2>4
    <3>2. QED BY <1>2, <3>1 DEF DoneRuns, ids
  <2>5. QED BY <2>3, <2>4
<1>15. \A b \in Box : Tried(Advance(p, late).plan, b) \/ Untouched(b)
  <2>1. SUFFICES ASSUME NEW b \in Box, Tried(p, b) PROVE Tried(Advance(p, late).plan, b)
    BY DEF PlanHolds
  <2>2. b \in ids /\ p.steps[b] \in {"updating", "done", "failed"}
    BY <2>1 DEF Tried, ids
  <2>3. steps[b] \in {"done", "failed"}
    <3>1. CASE p.steps[b] = "updating"
      BY <1>10, <2>2, <3>1
    <3>2. CASE p.steps[b] \in {"done", "failed"}
      BY <1>3, <1>4, <2>2, <3>2 DEF Open
    <3>3. QED BY <2>2, <3>1, <3>2
  <2>4. QED BY <1>6, <1>8, <2>2, <2>3 DEF Tried
<1>16. PlanHolds(Advance(p, late).plan, T)
  BY <1>2, <1>6, <1>8, <1>13, <1>14, <1>15 DEF PlanHolds
<1>17. \A n \in ids : /\ Follows(p.steps[n], steps[n])
                      /\ p.steps[n] = "updating" => steps[n] # "updating"
  <2>1. SUFFICES ASSUME NEW n \in ids, p.steps[n] \notin {"pending", "updating"}
                 PROVE  steps[n] = p.steps[n]
    BY <1>10 DEF Follows
  <2>2. QED BY <1>3, <1>4, <2>1 DEF Open
<1>18. ASSUME next # {}
       PROVE  tell \in ids /\ steps[tell] = "updating" /\ runs[tell] # T /\ Untouched(tell)
  <2>1. tell \in next
    BY <1>18 DEF tell
  <2>2. /\ tell \in ids /\ tell \in Box /\ p.steps[tell] = "pending" /\ steps[tell] = "updating"
        /\ Verdict(p, tell, late) = "pending"
    BY <1>2, <1>3, <1>4, <2>1
  <2>3. Runs(tell) \notin {None, T}
    BY <1>2, <2>2, VerdictIs DEF ids
  <2>4. Untouched(tell)
    BY <2>2 DEF PlanHolds, Tried
  <2>5. CASE tell = Me
    BY <2>2, <2>3, <2>4, <2>5 DEF Runs
  <2>6. CASE tell # Me
    <3>1. said[tell] \notin {None, T} /\ said[tell] \in {None, runs[tell]}
      BY <2>3, <2>4, <2>6 DEF Runs, Untouched
    <3>2. QED BY <2>2, <2>4, <3>1
  <2>7. QED BY <2>5, <2>6
<1>19. next = {} => tell = None
  BY DEF tell
<1>20. stop = {} => tell = None
  BY <1>3, <1>19
<1>21. tell # None =>
          /\ tell \in ids
          /\ Advance(p, late).plan.steps[tell] = "updating"
          /\ runs[tell] # T /\ Untouched(tell)
  BY <1>8, <1>18, <1>19
<1>22. MovedOn(p, Advance(p, late).plan, tell, stop = {}, T)
  BY <1>6, <1>8, <1>16, <1>17, <1>20, <1>21 DEF MovedOn, ids
<1>23. tell \in Name \cup {None}
  BY <1>2, <1>18, <1>19
<1>24. QED BY <1>1, <1>22, <1>23

-----------------------------------------------------------------------------
\* Frames on their way

LEMMA Joined ==
    ASSUME NEW S, NEW s \in Seq(S), NEW e \in S
    PROVE  /\ s \o <<e>> \in Seq(S) /\ Append(s, e) = s \o <<e>>
           /\ Append(s, e) # s
           /\ \A i \in DOMAIN (s \o <<e>>) :
                 (i \in DOMAIN s /\ (s \o <<e>>)[i] = s[i]) \/ (s \o <<e>>)[i] = e
OBVIOUS

LEMMA Shortened ==
    ASSUME NEW S, NEW s \in Seq(S), s # <<>>
    PROVE  /\ Tail(s) \in Seq(S) /\ Head(s) \in S /\ 1 \in DOMAIN s /\ Head(s) = s[1]
           /\ \A i \in DOMAIN Tail(s) : i + 1 \in DOMAIN s /\ Tail(s)[i] = s[i + 1]
OBVIOUS

-----------------------------------------------------------------------------
\* What a step of the machines leaves true

Good(T) == Types /\ Unnamed /\ Holds(T)

SameBox(b) ==
    /\ runs'[b] = runs[b] /\ disk'[b] = disk[b] /\ said'[b] = said[b]
    /\ jobs'[b] = jobs[b] /\ down'[b] = down[b] /\ up'[b] = up[b]
BoxStep(b, T) ==
    /\ BoxHolds(b, T)'
    /\ Untouched(b) => Untouched(b)' /\ runs'[b] = runs[b]
    /\ runs[b] = T => runs'[b] = T

LEMMA SameBoxStep ==
    ASSUME NEW T, NEW b \in Box, BoxHolds(b, T), SameBox(b)
    PROVE  BoxStep(b, T)
BY DEF SameBox, BoxStep, BoxHolds, Untouched, OnItsWay

LEMMA PlanStep ==
    ASSUME NEW T, NEW p, PlanHolds(p, T),
           \A b \in Box : runs[b] = T => runs'[b] = T,
           \A b \in Box : Untouched(b) /\ ~Tried(p, b) => Untouched(b)'
    PROVE  PlanHolds(p, T)'
<1>1. /\ p.target = T /\ DOMAIN p.steps \subseteq Box /\ InOrder(p)
      /\ \A b \in Box : Tried(p, b) \/ Untouched(b)
      /\ \A n \in DOMAIN p.steps : p.steps[n] = "done" => n \in Box /\ runs[n] = T
  BY DEF PlanHolds, DoneRuns
<1>2. \A n \in DOMAIN p.steps : p.steps[n] = "done" => n \in Box /\ runs'[n] = T
  BY <1>1
<1>3. DoneRuns(p, T)'
  BY <1>2 DEF DoneRuns
<1>4. \A b \in Box : Tried(p, b) \/ Untouched(b)'
  BY <1>1
<1>5. InOrder(p)' /\ \A b \in Box : Tried(p, b)' <=> Tried(p, b)
  BY <1>1 DEF InOrder, Open, Tried
<1>6. QED BY <1>1, <1>3, <1>4, <1>5 DEF PlanHolds

(* What drive_updates works on stays true of the same plan. *)
LEMMA BesideStep ==
    ASSUME NEW T, Beside(T), UNCHANGED <<plan, drive>>,
           plan # None => DOMAIN plan.steps \subseteq Box,
           \A b \in Box : BoxStep(b, T)
    PROVE  Beside(T)'
<1>1. SUFFICES ASSUME drive # Rest PROVE Beside(T)'
  BY DEF Beside
<1>2. PICK p : p = drive.plan
  OBVIOUS
<1>3. PICK tell : tell = drive.tell
  OBVIOUS
<1>4. PlanHolds(p, T) /\ plan # None
  BY <1>1, <1>2 DEF Beside
<1>5. \A b \in Box : /\ Untouched(b) => Untouched(b)' /\ runs'[b] = runs[b]
                     /\ runs[b] = T => runs'[b] = T
  BY DEF BoxStep
<1>6. PlanHolds(p, T)'
  BY <1>4, <1>5, PlanStep
<1>7. tell # None => runs'[tell] # T /\ Untouched(tell)'
  <2>1. tell # None => tell \in Box /\ runs[tell] # T /\ Untouched(tell)
    BY <1>1, <1>3, <1>4 DEF Beside
  <2>2. QED BY <1>5, <2>1
<1>8. drive'.plan = p /\ drive'.tell = tell
  BY <1>2, <1>3
<1>9. PlanHolds(drive.plan, T)'
  BY <1>6, <1>8
<1>10. drive'.tell # None => runs'[drive'.tell] # T /\ Untouched(drive.tell)'
  BY <1>7, <1>8
<1>11. QED BY <1>1, <1>9, <1>10 DEF Beside, Follows, Untouched

(* A step of the machines alone, or one that stops the gateway. *)
LEMMA BoxesStep ==
    ASSUME NEW T, Holds(T), UNCHANGED <<plan, builds, aged, updates>>,
           UNCHANGED <<drafts, drive>> \/ (drafts' = {} /\ drive' = Rest),
           \A b \in Box : BoxStep(b, T)
    PROVE  Holds(T)'
<1>1. \A b \in Box : BoxHolds(b, T)'
  BY DEF BoxStep
<1>2. \A b \in Box : /\ Untouched(b) => Untouched(b)'
                     /\ runs[b] = T => runs'[b] = T
  BY DEF BoxStep
<1>3. NoneYet => NoneYet'
  BY <1>2 DEF NoneYet
<1>4. Drafted(T) => Drafted(T)' \/ Through'
  <2>1. ASSUME Drafted(T), UNCHANGED <<drafts, drive>> PROVE Drafted(T)'
    BY <1>2, <2>1 DEF Drafted, Waiting
  <2>2. ASSUME Drafted(T), drafts' = {}, drive' = Rest PROVE Through'
    BY <2>2 DEF Drafted, Through
  <2>3. QED BY <2>1, <2>2
<1>5. UnderWay(T) => UnderWay(T)'
  <2>1. PICK p : p = plan
    OBVIOUS
  <2>2. ASSUME UnderWay(T) PROVE PlanHolds(p, T)'
    <3>1. PlanHolds(p, T)
      BY <2>1, <2>2 DEF UnderWay
    <3>2. QED BY <1>2, <3>1, PlanStep
  <2>3. ASSUME UnderWay(T) PROVE PlanHolds(plan, T)'
    BY <2>1, <2>2, <2>3
  <2>4. QED BY <2>3 DEF UnderWay
<1>6. Through => Through'
  BY DEF Through
<1>7. Where(T)'
  BY <1>3, <1>4, <1>5, <1>6 DEF Holds, Where
<1>8. Beside(T)'
  <2>1. CASE UNCHANGED <<drafts, drive>>
    <3>1. plan # None => DOMAIN plan.steps \subseteq Box
      BY DEF Holds, Where, NoneYet, Drafted, UnderWay, Through, PlanHolds
    <3>2. Beside(T)
      BY DEF Holds
    <3>3. QED BY <2>1, <3>1, <3>2, BesideStep
  <2>2. CASE drive' = Rest
    BY <2>2 DEF Beside
  <2>3. QED BY <2>1, <2>2
<1>9. QED BY <1>1, <1>7, <1>8 DEF Holds

(* A step of one machine. *)
LEMMA OneBoxStep ==
    ASSUME NEW T, NEW b \in Box, Holds(T), BoxStep(b, T), \A o \in Box \ {b} : SameBox(o),
           UNCHANGED <<plan, builds, aged, updates, drafts, drive>>
    PROVE  Holds(T)'
<1>1. \A o \in Box : BoxStep(o, T)
  <2>1. ASSUME NEW o \in Box \ {b} PROVE BoxStep(o, T)
    BY SameBoxStep DEF Holds
  <2>2. QED BY <2>1
<1>2. QED BY <1>1, BoxesStep

(* A step of neither: only the plan and its copies may change. *)
LEMMA StillBoxes ==
    ASSUME NEW T, Holds(T), UNCHANGED <<runs, disk, said, jobs, down, up>>
    PROVE  /\ \A b \in Box : BoxHolds(b, T)' /\ BoxStep(b, T)
           /\ \A b \in Box : Untouched(b)' <=> Untouched(b)
           /\ \A p : PlanHolds(p, T) => PlanHolds(p, T)'
<1>1. ASSUME NEW b \in Box PROVE BoxHolds(b, T)' /\ BoxStep(b, T)
  BY SameBoxStep DEF Holds, SameBox, BoxStep
<1>2. \A b \in Box : Untouched(b)' <=> Untouched(b)
  BY DEF Untouched
<1>3. ASSUME NEW p, PlanHolds(p, T) PROVE PlanHolds(p, T)'
  BY <1>2, <1>3, PlanStep
<1>4. QED BY <1>1, <1>2, <1>3

(* Only the machine on its way can fail, and nothing else of a plan moves. *)
LEMMA FailedIs ==
    ASSUME NEW T, NEW p \in Plan, PlanHolds(p, T), NEW b \in Box,
           \A x, y \in DOMAIN p.steps : x # y => Rank[x] # Rank[y] /\ Rank[x] \in Nat /\ Rank[y] \in Nat
    PROVE  /\ Failed(p, b) \in Plan /\ Failed(p, b) # None
           /\ PlanHolds(Failed(p, b), T)
           /\ Failed(p, b).local = p.local /\ Failed(p, b).target = p.target
           /\ DOMAIN Failed(p, b).steps = DOMAIN p.steps
           /\ \A n \in DOMAIN p.steps :
                 Failed(p, b).steps[n] = IF n = b /\ p.steps[n] = "updating" THEN "failed" ELSE p.steps[n]
           /\ ~(b \in DOMAIN p.steps /\ p.steps[b] = "updating") => Failed(p, b) = p
           /\ \A x, y \in DOMAIN p.steps : p.steps[x] = "updating" /\ p.steps[y] = "updating" => x = y
<1> DEFINE steps == [n \in DOMAIN p.steps |->
                        IF n = b /\ p.steps[n] = "updating" THEN "failed" ELSE p.steps[n]]
<1>1. Failed(p, b) = [p EXCEPT !.steps = steps]
  BY NameAssumption DEF Failed
<1>2. /\ DOMAIN steps = DOMAIN p.steps /\ steps = [n \in DOMAIN p.steps |-> steps[n]]
      /\ \A n \in DOMAIN p.steps : steps[n] \in StepStates
  BY PlanFields DEF StepStates
<1>3. \A n \in DOMAIN p.steps :
          steps[n] = IF n = b /\ p.steps[n] = "updating" THEN "failed" ELSE p.steps[n]
  OBVIOUS
<1> HIDE DEF steps
<1>4. /\ Failed(p, b) \in Plan /\ Failed(p, b).steps = steps
      /\ Failed(p, b).target = p.target /\ Failed(p, b).local = p.local
  BY <1>1, <1>2, PlanMoved
<1>5. Failed(p, b) # None
  BY <1>4, NameAssumption
<1>6. InOrder(Failed(p, b)) /\ DoneRuns(Failed(p, b), T)
  BY <1>2, <1>3, <1>4 DEF PlanHolds, InOrder, DoneRuns, Open
<1>7. \A o \in Box : Tried(p, o) => Tried(Failed(p, b), o)
  BY <1>2, <1>3, <1>4 DEF Tried
<1>8. PlanHolds(Failed(p, b), T)
  BY <1>2, <1>4, <1>6, <1>7 DEF PlanHolds
<1>9. ASSUME ~(b \in DOMAIN p.steps /\ p.steps[b] = "updating") PROVE Failed(p, b) = p
  <2>1. \A n \in DOMAIN p.steps : steps[n] = p.steps[n]
    BY <1>3, <1>9
  <2>2. steps = p.steps
    BY <1>2, <2>1, PlanFields
  <2>3. QED BY <1>1, <2>2, PlanFields
<1>10. ASSUME NEW x \in DOMAIN p.steps, NEW y \in DOMAIN p.steps,
              p.steps[x] = "updating", p.steps[y] = "updating", x # y
       PROVE  FALSE
  <2>1. Rank[x] < Rank[y] \/ Rank[y] < Rank[x]
    BY <1>10
  <2>2. QED BY <1>10, <2>1 DEF PlanHolds, InOrder, Open
<1>11. QED BY <1>2, <1>3, <1>4, <1>5, <1>8, <1>9, <1>10

-----------------------------------------------------------------------------
\* The machines

LEMMA BoxHearsGood ==
    ASSUME NEW T \in Version, Good(T), NEW b \in Box, BoxHears(b)
    PROVE  Good(T)'
<1>1. Types /\ Unnamed /\ Holds(T) /\ BoxHolds(b, T)
  BY DEF Good, Holds
<1>2. PICK q \in Seq(UpdateFrames) : q = down[b] /\ q # <<>>
  BY <1>1 DEF BoxHears, Types
<1>3. PICK frame \in UpdateFrames : frame = Head(q) /\ frame = q[1] /\ 1 \in DOMAIN q
  BY <1>2, Shortened
<1>4. frame.kind = "update" /\ frame.version = T
  BY <1>1, <1>2, <1>3 DEF UpdateFrames, BoxHolds
<1>5. runs[b] # T
  BY <1>1, <1>2, <1>3, <1>4 DEF BoxHolds, OnItsWay
<1>6. /\ down' = [down EXCEPT ![b] = Tail(q)]
      /\ jobs' = [jobs EXCEPT ![b] = @ \cup {frame}] /\ UNCHANGED <<dotenv, up>>
  BY <1>2, <1>3, <1>4, <1>5 DEF BoxHears
<1>7. Tail(q) \in Seq(UpdateFrames) /\ \A i \in DOMAIN Tail(q) : i + 1 \in DOMAIN q /\ Tail(q)[i] = q[i + 1]
  BY <1>2, Shortened
<1>8. /\ UNCHANGED <<plan, said, known, route, builds, aged, drafts, drive, overdue>>
      /\ UNCHANGED <<row, thread, notes, renaming, asking, undo, runs, disk, called, linked, grown>>
      /\ UNCHANGED <<updates, renames>>
  BY DEF BoxHears, accessVars, fileVars, driverVars, renameVars, boundVars
<1>9. /\ down'[b] = Tail(q) /\ jobs'[b] = jobs[b] \cup {frame}
      /\ \A o \in Box \ {b} : down'[o] = down[o] /\ jobs'[o] = jobs[o]
  BY <1>1, <1>6 DEF Types
<1>10. jobs' \in [Box -> SUBSET UpdateFrames] /\ down' \in [Box -> Seq(UpdateFrames)]
  BY <1>1, <1>6, <1>7 DEF Types
<1>11. Types' /\ Unnamed'
  BY <1>1, <1>6, <1>8, <1>10 DEF Types, Unnamed
<1>12. BoxHolds(b, T)'
  <2>1. \A job \in jobs'[b] : job.version = T
    BY <1>1, <1>4, <1>9 DEF BoxHolds
  <2>2. \A i \in DOMAIN down'[b] : down'[b][i].version = T
    BY <1>1, <1>2, <1>7, <1>9 DEF BoxHolds
  <2>3. QED BY <1>1, <1>5, <1>6, <1>8, <2>1, <2>2 DEF BoxHolds
<1>13. BoxStep(b, T)
  BY <1>2, <1>8, <1>12 DEF BoxStep, Untouched
<1>14. Holds(T)'
  BY <1>1, <1>6, <1>8, <1>9, <1>13, OneBoxStep DEF SameBox
<1>15. QED BY <1>11, <1>14 DEF Good

(* What a machine answers reaches the gateway, or is lost with its link. *)
LEMMA AnswerIs ==
    ASSUME Types, NEW b \in Box, NEW e \in Answers, Answer(b, <<e>>)
    PROVE  /\ up' \in [Box -> Seq(Answers)]
           /\ \A o \in Box \ {b} : up'[o] = up[o]
           /\ \A i \in DOMAIN up'[b] : (i \in DOMAIN up[b] /\ up'[b][i] = up[b][i]) \/ up'[b][i] = e
<1>1. PICK q \in Seq(Answers) : q = up[b]
  BY DEF Types
<1>2. /\ q \o <<e>> \in Seq(Answers)
      /\ \A i \in DOMAIN (q \o <<e>>) : (i \in DOMAIN q /\ (q \o <<e>>)[i] = q[i]) \/ (q \o <<e>>)[i] = e
  BY Joined
<1>3. CASE up' = up
  BY <1>3 DEF Types
<1>4. CASE up' = [up EXCEPT ![b] = q \o <<e>>]
  <2>1. up'[b] = q \o <<e>> /\ \A o \in Box \ {b} : up'[o] = up[o]
    BY <1>4 DEF Types
  <2>2. up' \in [Box -> Seq(Answers)]
    BY <1>2, <1>4 DEF Types
  <2>3. QED BY <1>1, <1>2, <2>1, <2>2
<1>5. QED BY <1>1, <1>3, <1>4 DEF Answer

LEMMA JobEndsGood ==
    ASSUME NEW T \in Version, Good(T), NEW b \in Box, NEW job \in jobs[b], JobEnds(b, job)
    PROVE  Good(T)'
<1>1. Types /\ Unnamed /\ Holds(T) /\ BoxHolds(b, T)
  BY DEF Good, Holds
<1>2. job.version = T /\ runs[b] # T
  BY <1>1 DEF BoxHolds, OnItsWay
<1>3. /\ UNCHANGED <<plan, said, known, route, builds, aged, drafts, drive, overdue>>
      /\ UNCHANGED <<row, thread, notes, renaming, asking, undo, runs, called, dotenv, linked, grown>>
      /\ UNCHANGED <<down, updates, renames>>
      /\ jobs' = [jobs EXCEPT ![b] = @ \ {job}]
  BY DEF JobEnds, accessVars, fileVars, driverVars, renameVars, boundVars
<1>4. /\ jobs' \in [Box -> SUBSET UpdateFrames] /\ jobs'[b] \subseteq jobs[b]
      /\ \A o \in Box \ {b} : jobs'[o] = jobs[o]
  BY <1>1, <1>3 DEF Types
<1>5. \/ disk' = [disk EXCEPT ![b] = T] /\ up' = up
      \/ Answer(b, <<UpdateFailed>>) /\ disk' = disk
  BY <1>2 DEF JobEnds
<1>6. UpdateFailed \in Answers
  BY DEF Answers
<1>7. /\ up' \in [Box -> Seq(Answers)] /\ disk' \in [Box -> Version]
      /\ disk'[b] \in {disk[b], T}
      /\ \A o \in Box \ {b} : up'[o] = up[o] /\ disk'[o] = disk[o]
      /\ \A i \in DOMAIN up'[b] : (i \in DOMAIN up[b] /\ up'[b][i] = up[b][i]) \/ up'[b][i] = UpdateFailed
  <2>1. CASE disk' = [disk EXCEPT ![b] = T] /\ up' = up
    BY <1>1, <2>1 DEF Types
  <2>2. CASE Answer(b, <<UpdateFailed>>) /\ disk' = disk
    BY <1>1, <1>6, <2>2, AnswerIs DEF Types
  <2>3. QED BY <1>5, <2>1, <2>2
<1>8. Types' /\ Unnamed'
  BY <1>1, <1>3, <1>4, <1>7 DEF Types, Unnamed
<1>9. BoxHolds(b, T)'
  <2>1. disk'[b] \in {runs'[b], T}
    BY <1>1, <1>3, <1>7 DEF BoxHolds
  <2>2. \A i \in DOMAIN up'[b] :
            up'[b][i] = Says(runs'[b]) \/ (up'[b][i] = UpdateFailed /\ runs'[b] # T)
    BY <1>1, <1>2, <1>3, <1>7 DEF BoxHolds
  <2>3. QED BY <1>1, <1>2, <1>3, <1>4, <2>1, <2>2 DEF BoxHolds
<1>10. BoxStep(b, T)
  BY <1>3, <1>9 DEF BoxStep, Untouched
<1>11. Holds(T)'
  BY <1>1, <1>3, <1>4, <1>7, <1>10, OneBoxStep DEF SameBox
<1>12. QED BY <1>8, <1>11 DEF Good

(* A machine that starts again runs what it has on file. *)
LEMMA RebornStep ==
    ASSUME NEW T \in Version, Types, Unnamed, NEW b \in Box, BoxHolds(b, T), Reborn(b),
           down'[b] = <<>>, up'[b] = <<>>, said'[b] = said[b]
    PROVE  /\ BoxStep(b, T)
           /\ runs' \in [Box -> Version] /\ jobs' \in [Box -> SUBSET UpdateFrames]
           /\ UNCHANGED <<disk, called, dotenv>>
           /\ \A o \in Box \ {b} : runs'[o] = runs[o] /\ jobs'[o] = jobs[o]
<1>1. /\ runs' = [runs EXCEPT ![b] = disk[b]] /\ jobs' = [jobs EXCEPT ![b] = {}]
      /\ called' = [called EXCEPT ![b] = dotenv[b]] /\ UNCHANGED <<disk, dotenv>>
  BY DEF Reborn
<1>2. called' = called
  BY <1>1 DEF Unnamed
<1>3. /\ runs' \in [Box -> Version] /\ jobs' \in [Box -> SUBSET UpdateFrames]
      /\ runs'[b] = disk[b] /\ jobs'[b] = {}
      /\ \A o \in Box \ {b} : runs'[o] = runs[o] /\ jobs'[o] = jobs[o]
  BY <1>1 DEF Types
<1>4. runs[b] = T => runs'[b] = T
  BY <1>3 DEF BoxHolds
<1>5. Untouched(b) => Untouched(b)' /\ runs'[b] = runs[b]
  BY <1>1, <1>3 DEF Untouched
<1>6. BoxHolds(b, T)'
  BY <1>1, <1>3, <1>4 DEF BoxHolds, OnItsWay
<1>7. QED BY <1>1, <1>2, <1>3, <1>4, <1>5, <1>6 DEF BoxStep

(* A link that goes takes what was on its way with it. *)
LEMMA UnlinkIs ==
    ASSUME Types, Unnamed, NEW b \in Box, b # Me, Unlink(b)
    PROVE  /\ linked' \in [Name -> Box \cup {None}]
           /\ \A n \in Name : linked'[n] \in {n, None}
           /\ linked'[Me] = Me
           /\ down' \in [Box -> Seq(UpdateFrames)] /\ up' \in [Box -> Seq(Answers)]
           /\ down'[b] = <<>> /\ up'[b] = <<>>
           /\ \A o \in Box \ {b} : down'[o] = down[o] /\ up'[o] = up[o]
<1>1. linked' = [n \in Name |-> IF linked[n] = b THEN None ELSE linked[n]]
  BY DEF Unlink
<1>2. Me \in Name
  BY NameAssumption DEF Name
<1>3. /\ linked' \in [Name -> Box \cup {None}]
      /\ \A n \in Name : linked'[n] \in {n, None}
      /\ linked'[Me] = Me
  BY <1>1, <1>2 DEF Unnamed
<1>4. <<>> \in Seq(UpdateFrames) /\ <<>> \in Seq(Answers)
  OBVIOUS
<1>5. /\ down' \in [Box -> Seq(UpdateFrames)] /\ up' \in [Box -> Seq(Answers)]
      /\ down'[b] = <<>> /\ up'[b] = <<>>
      /\ \A o \in Box \ {b} : down'[o] = down[o] /\ up'[o] = up[o]
  BY <1>4 DEF Unlink, Types
<1>6. QED BY <1>3, <1>5

LEMMA RestartBoxGood ==
    ASSUME NEW T \in Version, Good(T), NEW b \in Box, RestartBox(b), UNCHANGED <<updates, renames>>
    PROVE  Good(T)'
<1>1. Types /\ Unnamed /\ Holds(T) /\ BoxHolds(b, T)
  BY DEF Good, Holds
<1>2. /\ UNCHANGED <<plan, said, known, route, builds, aged, drafts, drive, overdue>>
      /\ UNCHANGED <<row, thread, notes, renaming, asking, undo, grown>>
      /\ Reborn(b) /\ Unlink(b) /\ b # Me
  BY DEF RestartBox, accessVars, fileVars, driverVars, renameVars
<1>3. /\ linked' \in [Name -> Box \cup {None}]
      /\ \A n \in Name : linked'[n] \in {n, None}
      /\ linked'[Me] = Me
      /\ down' \in [Box -> Seq(UpdateFrames)] /\ up' \in [Box -> Seq(Answers)]
      /\ down'[b] = <<>> /\ up'[b] = <<>>
      /\ \A o \in Box \ {b} : down'[o] = down[o] /\ up'[o] = up[o]
  BY <1>1, <1>2, UnlinkIs
<1>4. /\ BoxStep(b, T)
      /\ runs' \in [Box -> Version] /\ jobs' \in [Box -> SUBSET UpdateFrames]
      /\ UNCHANGED <<disk, called, dotenv>>
      /\ \A o \in Box \ {b} : runs'[o] = runs[o] /\ jobs'[o] = jobs[o]
  BY <1>1, <1>2, <1>3, RebornStep
<1>5. Types' /\ Unnamed'
  BY <1>1, <1>2, <1>3, <1>4 DEF Types, Unnamed
<1>6. Holds(T)'
  BY <1>1, <1>2, <1>3, <1>4, OneBoxStep DEF SameBox
<1>7. QED BY <1>5, <1>6 DEF Good

LEMMA RestartGatewayGood ==
    ASSUME NEW T \in Version, Good(T), RestartGateway, UNCHANGED <<updates, renames>>
    PROVE  Good(T)'
<1>1. Types /\ Unnamed /\ Holds(T) /\ \A b \in Box : BoxHolds(b, T)
  BY DEF Good, Holds
<1>2. /\ UNCHANGED <<plan, said, known, route, builds, aged, overdue, row>>
      /\ drafts' = {} /\ drive' = Rest /\ grown' = FALSE /\ thread' = row
      /\ renaming' = None /\ asking' = Rest /\ undo' = {} /\ notes' = <<>>
      /\ linked' = [n \in Name |-> IF n = Me THEN Me ELSE None]
      /\ down' = [b \in Box |-> <<>>] /\ up' = [b \in Box |-> <<>>] /\ Reborn(Me)
  BY DEF RestartGateway, accessVars, fileVars
<1>3. Me \in Box /\ Me \in Name
  BY NameAssumption DEF Name
<1>4. \A b \in Box : down'[b] = <<>> /\ up'[b] = <<>>
  BY <1>2
<1>5. /\ BoxStep(Me, T)
      /\ runs' \in [Box -> Version] /\ jobs' \in [Box -> SUBSET UpdateFrames]
      /\ UNCHANGED <<disk, called, dotenv>>
      /\ \A o \in Box \ {Me} : runs'[o] = runs[o] /\ jobs'[o] = jobs[o]
  BY <1>1, <1>2, <1>3, <1>4, RebornStep
<1>6. ASSUME NEW b \in Box \ {Me} PROVE BoxStep(b, T)
  <2>1. /\ runs'[b] = runs[b] /\ disk'[b] = disk[b] /\ said'[b] = said[b] /\ jobs'[b] = jobs[b]
        /\ down'[b] = <<>> /\ up'[b] = <<>>
    BY <1>2, <1>4, <1>5
  <2>2. BoxHolds(b, T)'
    BY <1>1, <2>1 DEF BoxHolds, OnItsWay
  <2>3. Untouched(b) => Untouched(b)'
    BY <2>1 DEF Untouched
  <2>4. QED BY <2>1, <2>2, <2>3 DEF BoxStep
<1>7. \A b \in Box : BoxStep(b, T)
  BY <1>5, <1>6
<1>8. Holds(T)'
  BY <1>1, <1>2, <1>7, BoxesStep
<1>9. /\ linked' \in [Name -> Box \cup {None}]
      /\ \A n \in Name : linked'[n] \in {n, None}
      /\ linked'[Me] = Me
      /\ down' \in [Box -> Seq(UpdateFrames)] /\ up' \in [Box -> Seq(Answers)]
  BY <1>2, <1>3
<1>10. Types'
  BY <1>1, <1>2, <1>5, <1>9, ZenonT(40) DEF Types, Drive
<1>11. Unnamed'
  BY <1>1, <1>2, <1>5, <1>9 DEF Unnamed
<1>12. QED BY <1>8, <1>10, <1>11 DEF Good

LEMMA CutGood ==
    ASSUME NEW T \in Version, Good(T), NEW b \in Box, Cut(b)
    PROVE  Good(T)'
<1>1. Types /\ Unnamed /\ Holds(T) /\ BoxHolds(b, T)
  BY DEF Good, Holds
<1>2. /\ UNCHANGED <<plan, said, known, route, builds, aged, drafts, drive, overdue>>
      /\ UNCHANGED <<row, thread, notes, renaming, asking, undo, grown, updates, renames>>
      /\ UNCHANGED <<runs, disk, called, dotenv, jobs>>
      /\ Unlink(b) /\ b # Me
  BY DEF Cut, Fault, accessVars, fileVars, driverVars, renameVars, boxVars
<1>3. /\ linked' \in [Name -> Box \cup {None}]
      /\ \A n \in Name : linked'[n] \in {n, None}
      /\ linked'[Me] = Me
      /\ down' \in [Box -> Seq(UpdateFrames)] /\ up' \in [Box -> Seq(Answers)]
      /\ down'[b] = <<>> /\ up'[b] = <<>>
      /\ \A o \in Box \ {b} : down'[o] = down[o] /\ up'[o] = up[o]
  BY <1>1, <1>2, UnlinkIs
<1>4. Types' /\ Unnamed'
  BY <1>1, <1>2, <1>3 DEF Types, Unnamed
<1>5. BoxStep(b, T)
  BY <1>1, <1>2, <1>3 DEF BoxStep, BoxHolds, Untouched, OnItsWay
<1>6. Holds(T)'
  BY <1>1, <1>2, <1>3, <1>5, OneBoxStep DEF SameBox
<1>7. QED BY <1>4, <1>6 DEF Good

LEMMA DialGood ==
    ASSUME NEW T \in Version, Good(T), NEW b \in Box, Dial(b)
    PROVE  Good(T)'
<1>1. Types /\ Unnamed /\ Holds(T) /\ BoxHolds(b, T)
  BY DEF Good, Holds
<1>2. /\ UNCHANGED <<plan, said, route, builds, aged, drafts, drive, overdue>>
      /\ UNCHANGED <<row, thread, notes, renaming, asking, undo, grown, updates, renames>>
      /\ UNCHANGED <<runs, disk, called, dotenv, jobs>>
      /\ b # Me /\ known' = known \cup {called[b]}
      /\ linked' = [linked EXCEPT ![called[b]] = b]
  BY DEF Dial, fileVars, driverVars, renameVars, boxVars, boundVars
<1>3. called[b] = b /\ b \in Name /\ linked[b] = None /\ None \notin Box
  BY <1>1, NameAssumption DEF Dial, Up, Unnamed, Name
<1>4. /\ linked' \in [Name -> Box \cup {None}]
      /\ \A n \in Name : linked'[n] \in {n, None}
      /\ linked'[Me] = Me
  BY <1>1, <1>2, <1>3 DEF Unnamed
<1>5. down' = down
  <2>1. down' = [o \in Box |-> down[o]]
    BY <1>3 DEF Dial
  <2>2. QED BY <1>1, <2>1 DEF Types
<1>6. up' = [o \in Box |-> IF o = b THEN (IF b \in Old THEN <<>> ELSE <<Says(runs[b])>>) ELSE up[o]]
  BY <1>3 DEF Dial
<1>7. /\ Says(runs[b]) \in Answers
      /\ <<>> \in Seq(Answers) /\ <<Says(runs[b])>> \in Seq(Answers)
  BY <1>1 DEF Answers, Types
<1>8. /\ up' \in [Box -> Seq(Answers)]
      /\ \A o \in Box \ {b} : up'[o] = up[o]
      /\ \A i \in DOMAIN up'[b] : up'[b][i] = Says(runs[b])
  <2>1. up' \in [Box -> Seq(Answers)]
    BY <1>1, <1>6, <1>7 DEF Types
  <2>2. up'[b] \in {<<>>, <<Says(runs[b])>>}
    BY <1>6
  <2>3. \A i \in DOMAIN up'[b] : up'[b][i] = Says(runs[b])
    BY <2>2
  <2>4. QED BY <1>6, <2>1, <2>3
<1>9. Types' /\ Unnamed'
  BY <1>1, <1>2, <1>3, <1>4, <1>5, <1>8 DEF Types, Unnamed
<1>10. BoxStep(b, T)
  <2>1. BoxHolds(b, T)'
    BY <1>1, <1>2, <1>5, <1>8 DEF BoxHolds, OnItsWay
  <2>2. Untouched(b) => Untouched(b)'
    BY <1>2, <1>5, <1>8 DEF Untouched, Says, UpdateFailed
  <2>3. QED BY <1>2, <2>1, <2>2 DEF BoxStep
<1>11. Holds(T)'
  BY <1>1, <1>2, <1>5, <1>8, <1>10, OneBoxStep DEF SameBox
<1>12. QED BY <1>9, <1>11 DEF Good

-----------------------------------------------------------------------------
\* What a machine says

(* What is known wherever a plan is under way. *)
LEMMA PlanKnown ==
    ASSUME NEW T, Types, Holds(T), plan # None
    PROVE  /\ plan \in Plan /\ updates > 0 /\ UnderWay(T) /\ PlanHolds(plan, T)
           /\ \A x, y \in DOMAIN plan.steps :
                 x # y => Rank[x] # Rank[y] /\ Rank[x] \in Nat /\ Rank[y] \in Nat
<1>1. plan \in Plan
  BY DEF Types
<1>2. \A x, y \in DOMAIN plan.steps :
          x # y => Rank[x] # Rank[y] /\ Rank[x] \in Nat /\ Rank[y] \in Nat
  BY <1>1, PlanFields, NameAssumption
<1>3. UnderWay(T) /\ updates > 0
  BY DEF Holds, Where, NoneYet, Drafted, Through
<1>4. QED BY <1>1, <1>2, <1>3 DEF UnderWay

(* A machine that could not update, while the plan is under way. *)
LEMMA FailedGood ==
    ASSUME NEW T, Types, Holds(T), plan # None, NEW b \in Box, runs[b] # T, ~Untouched(b),
           plan' = Failed(plan, b), UNCHANGED <<builds, updates, drafts, drive>>,
           \A o \in Box : BoxStep(o, T)
    PROVE  Holds(T)'
<1>1. PICK p \in Plan : p = plan
  BY DEF Types
<1>2. /\ PlanHolds(p, T) /\ UnderWay(T) /\ updates > 0
      /\ \A x, y \in DOMAIN p.steps : x # y => Rank[x] # Rank[y] /\ Rank[x] \in Nat /\ Rank[y] \in Nat
  BY <1>1, PlanKnown
<1>3. PICK f : f = Failed(p, b)
  OBVIOUS
<1>4. /\ f \in Plan /\ f # None /\ PlanHolds(f, T)
      /\ f.local = p.local /\ DOMAIN f.steps = DOMAIN p.steps
      /\ \A n \in DOMAIN p.steps :
            f.steps[n] = IF n = b /\ p.steps[n] = "updating" THEN "failed" ELSE p.steps[n]
      /\ ~(b \in DOMAIN p.steps /\ p.steps[b] = "updating") => f = p
      /\ \A x, y \in DOMAIN p.steps : p.steps[x] = "updating" /\ p.steps[y] = "updating" => x = y
  BY <1>2, <1>3, FailedIs
<1>5. plan' = f
  BY <1>1, <1>3
<1>6. \A o \in Box : /\ Untouched(o) => Untouched(o)' /\ runs'[o] = runs[o]
                     /\ runs[o] = T => runs'[o] = T
                     /\ BoxHolds(o, T)'
  BY DEF BoxStep
<1>7. PlanHolds(f, T)'
  BY <1>4, <1>6, PlanStep
<1>8. UnderWay(T)'
  <2>1. PlanHolds(plan, T)'
    BY <1>5, <1>7
  <2>2. drafts' = {} /\ plan'.local = p.local /\ (p.local => T \in builds')
    BY <1>1, <1>2, <1>4, <1>5 DEF UnderWay
  <2>3. QED BY <1>4, <1>5, <2>1, <2>2 DEF UnderWay
<1>9. CASE f = p
  <2>1. UNCHANGED <<plan, drive>>
    BY <1>1, <1>5, <1>9
  <2>2. DOMAIN plan.steps \subseteq Box
    BY <1>1, <1>2 DEF PlanHolds
  <2>3. Beside(T)
    BY DEF Holds
  <2>4. Beside(T)'
    BY <2>1, <2>2, <2>3, BesideStep
  <2>5. QED BY <1>2, <1>6, <1>8, <2>4 DEF Holds, Where
<1>10. CASE f # p
  <2>1. b \in DOMAIN p.steps /\ p.steps[b] = "updating"
    BY <1>4, <1>10
  <2>2. CASE drive = Rest
    BY <1>2, <1>6, <1>8, <2>2 DEF Holds, Where, Beside
  <2>3. CASE drive # Rest
    <3>1. PICK d : d = drive.plan
      OBVIOUS
    <3>2. PICK tell : tell = drive.tell
      OBVIOUS
    <3>3. /\ PlanHolds(d, T) /\ d.local = p.local /\ DOMAIN d.steps = DOMAIN p.steps
          /\ drive.finished => tell = None
          /\ drive.at = "tell" => d = p /\ tell # None
          /\ drive.at = "write" =>
                \A n \in DOMAIN p.steps :
                    /\ Follows(p.steps[n], d.steps[n])
                    /\ p.steps[n] = "updating" => d.steps[n] # "updating"
          /\ tell # None =>
                /\ tell \in DOMAIN p.steps
                /\ d.steps[tell] = "updating"
                /\ runs[tell] # T /\ Untouched(tell)
      BY <1>1, <2>3, <3>1, <3>2 DEF Holds, Beside
    <3>4. drive.at # "tell"
      BY <1>4, <2>1, <3>3
    <3>5. drive.at = "write" => d.steps[b] = "failed"
      <4>1. drive.at = "write" => d.steps[b] \in {"done", "failed"}
        BY <2>1, <3>3 DEF Follows
      <4>2. d.steps[b] # "done"
        BY <2>1, <3>3 DEF PlanHolds, DoneRuns
      <4>3. QED BY <4>1, <4>2
    <3>6. drive.at = "write" =>
              \A n \in DOMAIN f.steps :
                  /\ Follows(f.steps[n], d.steps[n])
                  /\ f.steps[n] = "updating" => d.steps[n] # "updating"
      BY <1>4, <3>3, <3>5 DEF Follows
    <3>7. PlanHolds(d, T)'
      BY <1>6, <3>3, PlanStep
    <3>8. tell # None => runs'[tell] # T /\ Untouched(tell)' /\ tell \in Box
      BY <1>6, <3>3 DEF PlanHolds
    <3>9. drive'.plan = d /\ drive'.tell = tell /\ drive' = drive
      BY <3>1, <3>2
    <3>10. PlanHolds(drive.plan, T)'
      BY <3>7, <3>9
    <3>11. drive'.tell # None => runs'[drive'.tell] # T /\ Untouched(drive.tell)'
      BY <3>8, <3>9
    <3>12. Beside(T)'
      BY <1>4, <1>5, <3>3, <3>4, <3>6, <3>9, <3>10, <3>11 DEF Beside
    <3>13. QED BY <1>2, <1>6, <1>8, <3>12 DEF Holds, Where
  <2>4. QED BY <2>2, <2>3
<1>11. QED BY <1>9, <1>10

LEMMA GatewayHearsGood ==
    ASSUME NEW T \in Version, Good(T), NEW b \in Box, GatewayHears(b)
    PROVE  Good(T)'
<1>1. Types /\ Unnamed /\ Holds(T) /\ BoxHolds(b, T) /\ called[b] = b /\ b \in Name
  BY DEF Good, Holds, Unnamed, Name
<1>2. PICK q \in Seq(Answers) : q = up[b] /\ q # <<>>
  BY <1>1 DEF GatewayHears, Types
<1>3. PICK frame \in Answers : frame = Head(q) /\ frame = q[1] /\ 1 \in DOMAIN q
  BY <1>2, Shortened
<1>4. frame = Says(runs[b]) \/ (frame = UpdateFailed /\ runs[b] # T)
  BY <1>1, <1>2, <1>3 DEF BoxHolds
<1>5. Tail(q) \in Seq(Answers) /\ \A i \in DOMAIN Tail(q) : i + 1 \in DOMAIN q /\ Tail(q)[i] = q[i + 1]
  BY <1>2, Shortened
<1>6. /\ UNCHANGED <<route, builds, aged, drafts, drive, overdue>>
      /\ UNCHANGED <<row, thread, notes, asking, runs, disk, called, dotenv, jobs>>
      /\ UNCHANGED <<linked, down, grown, updates, renames>>
      /\ up' = [up EXCEPT ![b] = Tail(q)]
  BY <1>2 DEF GatewayHears, fileVars, driverVars, boxVars, boundVars
<1>7. /\ up' \in [Box -> Seq(Answers)] /\ up'[b] = Tail(q)
      /\ \A o \in Box \ {b} : up'[o] = up[o]
  BY <1>1, <1>5, <1>6 DEF Types
<1>8. \A i \in DOMAIN up'[b] : up'[b][i] = Says(runs[b]) \/ (up'[b][i] = UpdateFailed /\ runs[b] # T)
  BY <1>1, <1>2, <1>5, <1>7 DEF BoxHolds
<1>9. \/ /\ frame.kind = "version" /\ said' = [said EXCEPT ![b] = frame.version]
         /\ known' = known \cup {b} /\ UNCHANGED <<plan, renaming, undo>>
      \/ /\ frame = UpdateFailed /\ plan' = Failed(plan, b)
         /\ UNCHANGED <<said, known, renaming, undo>>
  BY <1>1, <1>2, <1>3, <1>4 DEF GatewayHears, Says, UpdateFailed, RenameFailed
<1>10. CASE /\ frame.kind = "version" /\ said' = [said EXCEPT ![b] = frame.version]
            /\ known' = known \cup {b} /\ UNCHANGED <<plan, renaming, undo>>
  <2>1. frame.version = runs[b]
    BY <1>4, <1>10 DEF Says, UpdateFailed
  <2>2. /\ said' \in [Name -> Version \cup {None}] /\ said'[b] = runs[b]
        /\ \A o \in Name \ {b} : said'[o] = said[o]
    BY <1>1, <1>10, <2>1 DEF Types
  <2>3. Types' /\ Unnamed'
    BY <1>1, <1>6, <1>7, <1>10, <2>2 DEF Types, Unnamed
  <2>4. BoxHolds(b, T)'
    BY <1>1, <1>6, <1>8, <2>2 DEF BoxHolds, OnItsWay
  <2>5. Untouched(b) => Untouched(b)'
    BY <1>2, <1>5, <1>6, <1>7, <2>2 DEF Untouched
  <2>6. BoxStep(b, T)
    BY <1>6, <2>4, <2>5 DEF BoxStep
  <2>7. \A o \in Box \ {b} : SameBox(o)
    BY <1>6, <1>7, <2>2 DEF SameBox, Name
  <2>8. Holds(T)'
    BY <1>1, <1>6, <1>10, <2>6, <2>7, OneBoxStep
  <2>9. QED BY <2>3, <2>8 DEF Good
<1>11. CASE /\ frame = UpdateFailed /\ plan' = Failed(plan, b)
            /\ UNCHANGED <<said, known, renaming, undo>>
  <2>1. runs[b] # T /\ ~Untouched(b)
    BY <1>2, <1>3, <1>4, <1>11 DEF Says, UpdateFailed, Untouched
  <2>2. BoxStep(b, T)
    <3>1. BoxHolds(b, T)'
      BY <1>1, <1>6, <1>8, <1>11 DEF BoxHolds, OnItsWay
    <3>2. QED BY <1>6, <2>1, <3>1 DEF BoxStep
  <2>3. \A o \in Box \ {b} : SameBox(o)
    BY <1>6, <1>7, <1>11 DEF SameBox
  <2>4. \A o \in Box : BoxStep(o, T)
    <3>1. ASSUME NEW o \in Box \ {b} PROVE BoxStep(o, T)
      BY <1>1, <2>3, SameBoxStep DEF Holds
    <3>2. QED BY <2>2, <3>1
  <2>5. CASE plan = None
    <3>1. plan' = plan
      BY <1>11, <2>5 DEF Failed
    <3>2. Types' /\ Unnamed'
      BY <1>1, <1>6, <1>7, <1>11, <3>1 DEF Types, Unnamed
    <3>3. Holds(T)'
      BY <1>1, <1>6, <2>4, <3>1, BoxesStep
    <3>4. QED BY <3>2, <3>3 DEF Good
  <2>6. CASE plan # None
    <3>1. plan' \in Plan
      BY <1>1, <1>11, <2>6, PlanKnown, FailedIs
    <3>2. Types' /\ Unnamed'
      BY <1>1, <1>6, <1>7, <1>11, <3>1 DEF Types, Unnamed
    <3>3. Holds(T)'
      BY <1>1, <1>6, <1>11, <2>1, <2>4, <2>6, FailedGood
    <3>4. QED BY <3>2, <3>3 DEF Good
  <2>7. QED BY <2>5, <2>6
<1>12. QED BY <1>9, <1>10, <1>11

-----------------------------------------------------------------------------
\* The gateway

LEMMA BeginRolloutGood ==
    ASSUME OneUpdate, NEW T \in Version, Good(T), NEW v \in Target, NEW local \in BOOLEAN,
           BeginRollout(v, local)
    PROVE  v \in Version /\ Good(v)'
<1>1. Types /\ Unnamed /\ Holds(T) /\ \A b \in Box : BoxHolds(b, T)
  BY DEF Good, Holds
<1>2. /\ UNCHANGED <<plan, said, known, route, drive, overdue, row, thread, notes, renaming, asking, undo>>
      /\ UNCHANGED <<runs, disk, called, dotenv, jobs, linked, down, up, grown, renames>>
      /\ updates < MaxUpdates /\ updates' = updates + 1
      /\ builds' = IF local THEN builds \cup {v} ELSE builds
      /\ aged' = IF local THEN aged \ {v} ELSE aged
  BY DEF BeginRollout, accessVars, renameVars, boxVars, netVars
<1>3. updates = 0
  BY <1>1, <1>2, FleetBoundAssumption DEF OneUpdate, Types
<1>4. NoneYet
  BY <1>1, <1>3 DEF Holds, Where
<1>5. v \in Version /\ None \notin Version
  BY NameAssumption
<1> DEFINE ids == {Me} \cup known \cup Connected
           steps == [n \in ids |-> "pending"]
           p == [target |-> v, local |-> local, steps |-> steps]
<1>6. drafts' = {p}
  BY <1>4 DEF BeginRollout, NoneYet
<1>7. ids \subseteq Box /\ Box \subseteq Name
  BY <1>1, NameAssumption DEF Connected, Unnamed, Name
<1>8. /\ p \in Plan /\ DOMAIN p.steps \subseteq Box /\ Waiting(p)
      /\ p.target = v /\ p.local = local
  <2>1. steps \in [ids -> StepStates] /\ ids \subseteq Name
    BY <1>7 DEF StepStates
  <2>2. p \in Plan
    BY <1>5, <2>1, PlanMade
  <2>3. QED BY <1>7, <2>2 DEF Waiting
<1> HIDE DEF ids, steps, p
<1>9. \A b \in Box : Untouched(b)'
  BY <1>2, <1>4 DEF NoneYet, Untouched
<1>10. Drafted(v)'
  <2>1. plan' = None /\ drive' = Rest
    BY <1>2, <1>4 DEF NoneYet
  <2>2. local => v \in builds' \ aged'
    BY <1>2
  <2>3. \E d \in Plan : drafts' = {d} /\ d.target = v /\ DOMAIN d.steps \subseteq Box /\ Waiting(d)
                        /\ (d.local => v \in builds' \ aged')
    BY <1>6, <1>8, <2>2
  <2>4. \E d \in Plan : drafts' = {d} /\ d.target = v /\ DOMAIN d.steps \subseteq Box /\ Waiting(d)'
                        /\ (d.local => v \in builds' \ aged')
    BY <2>3 DEF Waiting
  <2>5. QED BY <1>9, <2>1, <2>4 DEF Drafted
<1>11. ASSUME NEW b \in Box PROVE BoxHolds(b, v)'
  <2>1. /\ Untouched(b) /\ BoxHolds(b, T)
    BY <1>1, <1>4 DEF NoneYet
  <2>2. BoxHolds(b, v)
    BY <1>5, <2>1 DEF BoxHolds, Untouched, OnItsWay
  <2>3. QED BY <1>2, <2>2 DEF BoxHolds, OnItsWay
<1>12. Beside(v)'
  BY <1>2, <1>4 DEF Beside, NoneYet
<1>13. updates' > 0 /\ updates' \in Nat
  BY <1>2, <1>3
<1>14. Holds(v)'
  BY <1>10, <1>11, <1>12, <1>13 DEF Holds, Where
<1>15. drafts' \subseteq Plan /\ aged' \subseteq builds' /\ builds' \subseteq Version
  BY <1>1, <1>2, <1>5, <1>6, <1>8 DEF Types
<1>16. Types' /\ Unnamed'
  BY <1>1, <1>2, <1>13, <1>15 DEF Types, Unnamed
<1>17. QED BY <1>5, <1>14, <1>16 DEF Good

LEMMA WriteRolloutGood ==
    ASSUME NEW T \in Version, Good(T), NEW d \in drafts, WriteRollout(d)
    PROVE  Good(T)'
<1>1. Types /\ Unnamed /\ Holds(T)
  BY DEF Good
<1>2. /\ UNCHANGED <<said, known, route, builds, aged, drive, overdue>>
      /\ UNCHANGED <<row, thread, notes, renaming, asking, undo>>
      /\ UNCHANGED <<runs, disk, called, dotenv, jobs, linked, down, up, grown, updates, renames>>
      /\ plan' = d /\ drafts' = drafts \ {d}
  BY DEF WriteRollout, fileVars, renameVars, boxVars, netVars, boundVars
<1>3. Drafted(T) /\ updates > 0
  BY <1>1 DEF Holds, Where, NoneYet, UnderWay, Through
<1>4. /\ d \in Plan /\ drafts = {d} /\ d.target = T /\ DOMAIN d.steps \subseteq Box /\ Waiting(d)
      /\ (d.local => T \in builds \ aged) /\ drive = Rest
      /\ \A b \in Box : Untouched(b)
  BY <1>3 DEF Drafted
<1>5. PlanHolds(d, T)
  BY <1>4 DEF PlanHolds, InOrder, DoneRuns, Waiting
<1>6. /\ PlanHolds(d, T)' /\ \A b \in Box : BoxHolds(b, T)'
  BY <1>1, <1>2, <1>5, StillBoxes
<1>7. PlanHolds(plan, T)'
  BY <1>2, <1>6
<1>8. d # None /\ drafts' = {}
  BY <1>2, <1>4, NameAssumption
<1>9. UnderWay(T)'
  BY <1>2, <1>4, <1>7, <1>8 DEF UnderWay
<1>10. Beside(T)'
  BY <1>2, <1>4 DEF Beside
<1>11. Holds(T)'
  BY <1>2, <1>3, <1>6, <1>9, <1>10 DEF Holds, Where
<1>12. Types' /\ Unnamed'
  BY <1>1, <1>2, <1>4, <1>8 DEF Types, Unnamed
<1>13. QED BY <1>11, <1>12 DEF Good

LEMMA TickGood ==
    ASSUME NEW T \in Version, Good(T), Tick
    PROVE  Good(T)'
<1>1. Types /\ Unnamed /\ Holds(T) /\ \A b \in Box : BoxHolds(b, T)
  BY DEF Good, Holds
<1>2. PICK new, tell, fin : /\ new = Advance(plan, overdue).plan /\ tell = Advance(plan, overdue).tell
                            /\ fin = Advance(plan, overdue).finished
  OBVIOUS
<1>3. /\ UNCHANGED <<plan, said, known, route, builds, aged, drafts>>
      /\ UNCHANGED <<row, thread, notes, renaming, asking, undo>>
      /\ UNCHANGED <<runs, disk, called, dotenv, jobs, linked, down, up, grown, updates, renames>>
      /\ drive' = [at |-> "write", plan |-> new, tell |-> tell, finished |-> fin]
      /\ overdue' = IF tell # None THEN FALSE ELSE overdue
      /\ plan # None /\ (new # plan \/ fin) /\ drive = Rest
  BY <1>2 DEF Tick, accessVars, fileVars, renameVars, boxVars, netVars, boundVars
<1>4. PICK p \in Plan : p = plan /\ PlanHolds(p, T)
  BY <1>1, <1>3, PlanKnown
<1>5. MovedOn(p, new, tell, fin, T) /\ tell \in Name \cup {None} /\ fin \in BOOLEAN
  BY <1>1, <1>2, <1>3, <1>4, Advanced DEF Types
<1>6. /\ new \in Plan /\ PlanHolds(new, T)' /\ \A b \in Box : BoxHolds(b, T)' /\ BoxStep(b, T)
      /\ \A b \in Box : Untouched(b)' <=> Untouched(b)
  BY <1>1, <1>3, <1>5, StillBoxes DEF MovedOn
<1>7. drive' \in Drive
  BY <1>3, <1>5, <1>6 DEF Drive
<1>8. Types' /\ Unnamed'
  BY <1>1, <1>3, <1>7 DEF Types, Unnamed
<1>9. /\ drive'.plan = new /\ drive'.tell = tell /\ drive'.finished = fin /\ drive'.at = "write"
  BY <1>3
<1>10. PlanHolds(drive.plan, T)'
  BY <1>6, <1>9
<1>11. tell # None => tell \in DOMAIN p.steps /\ new.steps[tell] = "updating"
                      /\ runs'[tell] # T /\ Untouched(tell)'
  BY <1>3, <1>4, <1>5, <1>6 DEF MovedOn, PlanHolds
<1>12. drive'.tell # None => runs'[drive'.tell] # T /\ Untouched(drive.tell)'
  BY <1>9, <1>11
<1>13. Beside(T)'
  BY <1>3, <1>4, <1>5, <1>9, <1>10, <1>11, <1>12 DEF Beside, MovedOn, Follows
<1>14. UnderWay(T) /\ updates > 0
  BY <1>1, <1>3, PlanKnown
<1>15. PlanHolds(p, T)'
  BY <1>1, <1>3, <1>4, StillBoxes
<1>16. PlanHolds(plan, T)'
  BY <1>3, <1>4, <1>15
<1>17. UnderWay(T)'
  BY <1>3, <1>14, <1>16 DEF UnderWay
<1>18. Holds(T)'
  BY <1>3, <1>6, <1>13, <1>14, <1>17 DEF Holds, Where
<1>19. QED BY <1>8, <1>18 DEF Good

(* What is known while the plan's copy is at work. *)
LEMMA DriveKnown ==
    ASSUME NEW T, Types, Holds(T), drive # Rest
    PROVE  /\ plan # None /\ plan \in Plan /\ updates > 0 /\ UnderWay(T)
           /\ drive \in [at : {"write", "tell"}, plan : Plan, tell : Name \cup {None}, finished : BOOLEAN]
           /\ drive = [at |-> drive.at, plan |-> drive.plan, tell |-> drive.tell,
                       finished |-> drive.finished]
           /\ PlanHolds(drive.plan, T)
           /\ drive.plan.local = plan.local /\ DOMAIN drive.plan.steps = DOMAIN plan.steps
           /\ drive.finished => drive.tell = None
           /\ drive.at = "tell" => drive.plan = plan /\ drive.tell # None
           /\ drive.tell # None =>
                 /\ drive.tell \in DOMAIN plan.steps /\ drive.tell \in Box
                 /\ drive.plan.steps[drive.tell] = "updating"
                 /\ runs[drive.tell] # T /\ Untouched(drive.tell)
<1>1. plan # None
  BY DEF Holds, Beside
<1>2. /\ plan \in Plan /\ updates > 0 /\ UnderWay(T) /\ PlanHolds(plan, T)
  BY <1>1, PlanKnown
<1>3. drive \in [at : {"write", "tell"}, plan : Plan, tell : Name \cup {None}, finished : BOOLEAN]
  BY DEF Types, Drive
<1>4. QED BY <1>1, <1>2, <1>3 DEF Holds, Beside, PlanHolds

LEMMA DriveWriteGood ==
    ASSUME NEW T \in Version, Good(T), DriveWrite
    PROVE  Good(T)'
<1>1. Types /\ Unnamed /\ Holds(T) /\ drive # Rest /\ drive.at = "write"
  BY DEF Good, DriveWrite, Rest
<1>2. PICK d, tell, fin : d = drive.plan /\ tell = drive.tell /\ fin = drive.finished
  OBVIOUS
<1>3. /\ d \in Plan /\ tell \in Name \cup {None} /\ fin \in BOOLEAN
      /\ drive = [at |-> "write", plan |-> d, tell |-> tell, finished |-> fin]
      /\ plan # None /\ updates > 0 /\ UnderWay(T)
      /\ PlanHolds(d, T) /\ d.local = plan.local
      /\ fin => tell = None
      /\ tell # None => /\ tell \in DOMAIN d.steps /\ tell \in Box
                        /\ d.steps[tell] = "updating"
                        /\ runs[tell] # T /\ Untouched(tell)
  BY <1>1, <1>2, DriveKnown
<1>4. /\ UNCHANGED <<said, known, route, drafts, overdue, row, thread, notes, renaming, asking, undo>>
      /\ UNCHANGED <<runs, disk, called, dotenv, jobs, linked, down, up, grown, updates, renames>>
      /\ plan' = IF fin THEN None ELSE d
      /\ drive' = IF tell # None THEN [drive EXCEPT !.at = "tell"] ELSE Rest
      /\ IF fin THEN builds' = builds \ {d.target} /\ aged' = aged \ {d.target}
                ELSE UNCHANGED <<builds, aged>>
  BY <1>2 DEF DriveWrite, Discard, fileVars, renameVars, boxVars, netVars, boundVars
<1>5. drive' = IF tell # None THEN [at |-> "tell", plan |-> d, tell |-> tell, finished |-> fin] ELSE Rest
  BY <1>3, <1>4
<1>6. /\ PlanHolds(d, T)' /\ \A b \in Box : BoxHolds(b, T)'
      /\ \A b \in Box : Untouched(b)' <=> Untouched(b)
  BY <1>1, <1>3, <1>4, StillBoxes
<1>7. aged' \subseteq builds' /\ builds' \subseteq Version
  BY <1>1, <1>4 DEF Types
<1>8. drive' \in Drive /\ (plan' = None \/ plan' \in Plan)
  BY <1>3, <1>4, <1>5 DEF Drive
<1>9. Types' /\ Unnamed'
  BY <1>1, <1>4, <1>7, <1>8 DEF Types, Unnamed
<1>10. drafts' = {}
  BY <1>3, <1>4 DEF UnderWay
<1>11. CASE fin
  BY <1>3, <1>4, <1>5, <1>6, <1>9, <1>10, <1>11 DEF Good, Holds, Where, Through, Beside
<1>12. CASE ~fin
  <2>1. plan' = d /\ d # None
    BY <1>3, <1>4, <1>12, NameAssumption
  <2>2. PlanHolds(plan, T)'
    BY <1>6, <2>1
  <2>3. d.local => T \in builds'
    BY <1>3, <1>4, <1>12 DEF UnderWay
  <2>4. UnderWay(T)'
    BY <1>10, <2>1, <2>2, <2>3 DEF UnderWay
  <2>5. CASE tell = None
    BY <1>3, <1>4, <1>5, <1>6, <1>9, <2>4, <2>5 DEF Good, Holds, Where, Beside
  <2>6. CASE tell # None
    <3>1. drive'.plan = d /\ drive'.tell = tell /\ drive'.finished = fin /\ drive'.at = "tell"
      BY <1>5, <2>6
    <3>2. PlanHolds(drive.plan, T)'
      BY <1>6, <3>1
    <3>3. tell # None => runs'[tell] # T /\ Untouched(tell)'
      BY <1>3, <1>4, <1>6
    <3>4. drive'.tell # None => runs'[drive'.tell] # T /\ Untouched(drive.tell)'
      BY <3>1, <3>3
    <3>5. Beside(T)'
      BY <1>3, <2>1, <2>6, <3>1, <3>2, <3>4 DEF Beside
    <3>6. QED BY <1>3, <1>4, <1>6, <1>9, <2>4, <3>5 DEF Good, Holds, Where
  <2>7. QED BY <2>5, <2>6
<1>13. QED BY <1>3, <1>11, <1>12

(* What drive_updates tells, and whom: the machine is the one on its way,   *)
(* nobody told it before, and every other that was told has ended.          *)
LEMMA ToldWho ==
    ASSUME NEW T, Types, Unnamed, Holds(T), DriveTell
    PROVE  /\ drive.tell \in Box /\ drive.tell \in Name
           /\ plan # None /\ plan \in Plan /\ drive.plan = plan /\ PlanHolds(plan, T)
           /\ drive.tell \in DOMAIN plan.steps /\ plan.steps[drive.tell] = "updating"
           /\ runs[drive.tell] # T /\ Untouched(drive.tell)
           /\ \/ /\ down' = [down EXCEPT ![drive.tell] = Append(@, Update(T, plan.local))]
                 /\ plan' = plan
              \/ plan' = Failed(plan, drive.tell) /\ down' = down
           /\ \A o \in Box \ {drive.tell} : OnItsWay(o) => Stands(o, "failed")
<1>1. drive # Rest /\ drive.at = "tell"
  BY DEF DriveTell, Rest
<1>2. PICK tell : tell = drive.tell
  OBVIOUS
<1>3. /\ tell \in Box /\ tell \in Name
      /\ plan # None /\ plan \in Plan /\ drive.plan = plan /\ PlanHolds(plan, T)
      /\ tell \in DOMAIN plan.steps /\ plan.steps[tell] = "updating"
      /\ runs[tell] # T /\ Untouched(tell)
  BY <1>1, <1>2, DriveKnown DEF Name
<1>4. Reachable(tell) => linked[tell] = tell
  BY <1>3 DEF Reachable, Unnamed
<1>5. plan.target = T
  BY <1>3 DEF PlanHolds
<1>6. \/ /\ down' = [down EXCEPT ![tell] = Append(@, Update(T, plan.local))]
         /\ plan' = plan
      \/ plan' = Failed(plan, tell) /\ down' = down
  BY <1>2, <1>3, <1>4, <1>5 DEF DriveTell, Send
<1>7. ASSUME NEW o \in Box \ {tell}, OnItsWay(o) PROVE Stands(o, "failed")
  <2>1. runs[o] # T /\ ~Untouched(o)
    BY <1>7 DEF Holds, BoxHolds, OnItsWay, Untouched
  <2>2. o \in DOMAIN plan.steps /\ plan.steps[o] \in {"updating", "done", "failed"}
    BY <1>3, <2>1 DEF PlanHolds, Tried
  <2>3. plan.steps[o] # "done"
    BY <1>3, <2>1, <2>2 DEF PlanHolds, DoneRuns
  <2>4. plan.steps[o] # "updating"
    BY <1>3, <2>2, <1>7, PlanKnown, FailedIs
  <2>5. QED BY <1>3, <2>2, <2>3, <2>4 DEF Stands
<1>8. QED BY <1>2, <1>3, <1>6, <1>7

LEMMA DriveTellGood ==
    ASSUME NEW T \in Version, Good(T), DriveTell
    PROVE  Good(T)'
<1>1. Types /\ Unnamed /\ Holds(T) /\ \A b \in Box : BoxHolds(b, T)
  BY DEF Good, Holds
<1>2. PICK tell : tell = drive.tell
  OBVIOUS
<1>3. /\ tell \in Box /\ plan # None /\ plan \in Plan /\ PlanHolds(plan, T)
      /\ tell \in DOMAIN plan.steps /\ plan.steps[tell] = "updating" /\ runs[tell] # T
      /\ \/ /\ down' = [down EXCEPT ![tell] = Append(@, Update(T, plan.local))]
            /\ plan' = plan
         \/ plan' = Failed(plan, tell) /\ down' = down
  BY <1>1, <1>2, ToldWho
<1>4. /\ UNCHANGED <<said, known, route, builds, aged, drafts, overdue>>
      /\ UNCHANGED <<row, thread, notes, renaming, asking, undo>>
      /\ UNCHANGED <<runs, disk, called, dotenv, jobs, linked, up, grown, updates, renames>>
      /\ drive' = Rest
  BY DEF DriveTell, fileVars, renameVars, boxVars, boundVars
<1>5. UnderWay(T) /\ updates > 0
  BY <1>1, <1>3, PlanKnown
<1>6. Beside(T)'
  BY <1>4 DEF Beside
<1>7. drafts' = {} /\ (plan.local => T \in builds')
  BY <1>4, <1>5 DEF UnderWay
<1>8. drive' \in Drive
  BY <1>4 DEF Drive
<1>9. CASE /\ down' = [down EXCEPT ![tell] = Append(@, Update(T, plan.local))]
           /\ plan' = plan
  <2>1. PICK q \in Seq(UpdateFrames) : q = down[tell]
    BY <1>1, <1>3 DEF Types
  <2>2. PICK frame \in UpdateFrames : frame = Update(T, plan.local) /\ frame.version = T
    <3>1. plan.local \in BOOLEAN
      BY <1>3, PlanFields
    <3>2. Update(T, plan.local) \in UpdateFrames /\ Update(T, plan.local).version = T
      BY <3>1 DEF Update, UpdateFrames
    <3>3. QED BY <3>2
  <2>3. /\ Append(q, frame) \in Seq(UpdateFrames)
        /\ \A i \in DOMAIN Append(q, frame) :
              (i \in DOMAIN q /\ Append(q, frame)[i] = q[i]) \/ Append(q, frame)[i] = frame
    BY Joined
  <2>4. /\ down' \in [Box -> Seq(UpdateFrames)] /\ down'[tell] = Append(q, frame)
        /\ \A o \in Box \ {tell} : down'[o] = down[o]
    BY <1>1, <1>3, <1>9, <2>1, <2>2, <2>3 DEF Types
  <2>5. BoxHolds(tell, T)'
    <3>1. \A i \in DOMAIN down'[tell] : down'[tell][i].version = T
      BY <1>1, <1>3, <2>1, <2>2, <2>3, <2>4 DEF BoxHolds
    <3>2. QED BY <1>1, <1>3, <1>4, <3>1 DEF BoxHolds
  <2>6. ASSUME NEW o \in Box \ {tell} PROVE BoxHolds(o, T)' /\ (Untouched(o) => Untouched(o)')
    BY <1>1, <1>4, <2>4, <2>6 DEF BoxHolds, Untouched, OnItsWay
  <2>7. PICK p : p = plan
    OBVIOUS
  <2>8. PlanHolds(p, T)'
    <3>1. Tried(p, tell) /\ PlanHolds(p, T)
      BY <1>3, <2>7 DEF Tried
    <3>2. \A b \in Box : Untouched(b) /\ ~Tried(p, b) => Untouched(b)'
      BY <2>6, <3>1
    <3>3. QED BY <1>4, <3>1, <3>2, PlanStep
  <2>9. PlanHolds(plan, T)'
    BY <1>9, <2>7, <2>8
  <2>10. UnderWay(T)'
    BY <1>3, <1>7, <1>9, <2>9 DEF UnderWay
  <2>11. Types' /\ Unnamed'
    BY <1>1, <1>4, <1>8, <1>9, <2>4 DEF Types, Unnamed
  <2>12. QED BY <1>4, <1>5, <1>6, <2>5, <2>6, <2>10, <2>11 DEF Good, Holds, Where
<1>10. CASE plan' = Failed(plan, tell) /\ down' = down
  <2>1. PICK f : /\ f = Failed(plan, tell) /\ f \in Plan /\ f # None
                 /\ PlanHolds(f, T) /\ f.local = plan.local
    BY <1>1, <1>3, PlanKnown, FailedIs
  <2>2. PlanHolds(f, T)' /\ \A b \in Box : BoxHolds(b, T)'
    BY <1>1, <1>4, <1>10, <2>1, StillBoxes
  <2>3. PlanHolds(plan, T)'
    BY <1>10, <2>1, <2>2
  <2>4. UnderWay(T)'
    BY <1>7, <1>10, <2>1, <2>3 DEF UnderWay
  <2>5. Types' /\ Unnamed'
    BY <1>1, <1>4, <1>8, <1>10, <2>1 DEF Types, Unnamed
  <2>6. QED BY <1>4, <1>5, <1>6, <2>2, <2>4, <2>5 DEF Good, Holds, Where
<1>11. QED BY <1>3, <1>9, <1>10

(* The files of the gateway: no build that is still handed out goes. *)
LEMMA FilesGood ==
    ASSUME NEW T \in Version, Good(T), Sweep \/ \E v \in builds : Age(v)
    PROVE  Good(T)'
<1>1. Types /\ Unnamed /\ Holds(T)
  BY DEF Good
<1>2. /\ UNCHANGED <<plan, said, known, route, drafts, drive, overdue>>
      /\ UNCHANGED <<row, thread, notes, renaming, asking, undo>>
      /\ UNCHANGED <<runs, disk, called, dotenv, jobs, linked, down, up, grown, updates, renames>>
  BY DEF Sweep, Age, accessVars, driverVars, renameVars, boxVars, netVars, boundVars
<1>3. aged' \subseteq builds' /\ builds' \subseteq Version
  BY <1>1 DEF Sweep, Age, Discard, Types
<1>4. /\ \A b \in Box : BoxHolds(b, T)' /\ BoxStep(b, T)
      /\ \A b \in Box : Untouched(b)' <=> Untouched(b)
  BY <1>1, <1>2, StillBoxes
<1>5. Beside(T)'
  <2>1. plan # None => DOMAIN plan.steps \subseteq Box
    BY <1>1, PlanKnown DEF PlanHolds
  <2>2. Beside(T)
    BY <1>1 DEF Holds
  <2>3. QED BY <1>2, <1>4, <2>1, <2>2, BesideStep
<1>6. NoneYet => NoneYet'
  BY <1>2, <1>4 DEF NoneYet
<1>7. ASSUME Drafted(T) PROVE Drafted(T)'
  <2>1. PICK d \in Plan : /\ drafts = {d} /\ d.target = T /\ DOMAIN d.steps \subseteq Box /\ Waiting(d)
                          /\ (d.local => T \in builds \ aged)
    BY <1>7 DEF Drafted
  <2>2. d.local => T \in builds' \ aged'
    BY <2>1 DEF Sweep, Age, Discard
  <2>3. drafts' = {d} /\ Waiting(d)'
    BY <1>2, <2>1 DEF Waiting
  <2>4. \E p \in Plan : drafts' = {p} /\ p.target = T /\ DOMAIN p.steps \subseteq Box /\ Waiting(p)'
                        /\ (p.local => T \in builds' \ aged')
    BY <2>1, <2>2, <2>3
  <2>5. QED BY <1>2, <1>4, <1>7, <2>4 DEF Drafted
<1>8. ASSUME UnderWay(T) PROVE UnderWay(T)'
  <2>1. PICK p : p = plan /\ PlanHolds(p, T) /\ p.target = T
    BY <1>8 DEF UnderWay, PlanHolds
  <2>2. PlanHolds(p, T)'
    BY <1>1, <1>2, <2>1, StillBoxes
  <2>3. PlanHolds(plan, T)'
    BY <1>2, <2>1, <2>2
  <2>4. plan.local => T \in builds'
    BY <1>8, <2>1 DEF UnderWay, Sweep, Age, Discard
  <2>5. QED BY <1>2, <1>8, <2>3, <2>4 DEF UnderWay
<1>9. Through => Through'
  BY <1>2 DEF Through
<1>10. Where(T)'
  BY <1>1, <1>2, <1>6, <1>7, <1>8, <1>9 DEF Holds, Where
<1>11. Types' /\ Unnamed'
  BY <1>1, <1>2, <1>3 DEF Types, Unnamed
<1>12. QED BY <1>4, <1>5, <1>10, <1>11 DEF Good, Holds

(* The clock, and a step that changes nothing. *)
LEMMA QuietGood ==
    ASSUME NEW T \in Version, Good(T), Clock \/ UNCHANGED vars
    PROVE  Good(T)'
<1>1. Types /\ Unnamed /\ Holds(T)
  BY DEF Good
<1>2. /\ UNCHANGED <<plan, said, known, route, builds, aged, drafts, drive>>
      /\ UNCHANGED <<row, thread, notes, renaming, asking, undo>>
      /\ UNCHANGED <<runs, disk, called, dotenv, jobs, linked, down, up, updates, renames>>
      /\ grown' \in BOOLEAN /\ overdue' \in BOOLEAN
  BY <1>1 DEF Clock, HalfAMinute, FiveMinutes, vars, accessVars, fileVars, driverVars, renameVars,
              boxVars, netVars, boundVars, Types
<1>3. \A b \in Box : BoxStep(b, T)
  BY <1>1, <1>2, StillBoxes
<1>4. Holds(T)'
  BY <1>1, <1>2, <1>3, BoxesStep
<1>5. Types' /\ Unnamed'
  BY <1>1, <1>2 DEF Types, Unnamed
<1>6. QED BY <1>4, <1>5 DEF Good

-----------------------------------------------------------------------------
\* The invariant

(* Nobody is renamed where no rename may begin. *)
LEMMA NoRename ==
    ASSUME OneUpdate, Unnamed
    PROVE  /\ ~\E from, to \in Name : RenameAsk(from, to)
           /\ ~(Renamer \/ Undoing \/ TakeNote \/ RenameTimesOut)
BY DEF OneUpdate, Unnamed, RenameAsk, Renamer, RenameRoute, RenameThread, RenameTell, RenameWaited,
       Undoing, TakeNote, RenameTimesOut, Rest

LEMMA InvStep ==
    ASSUME OneUpdate, Inv, [Next]_vars
    PROVE  Inv'
<1>1. PICK T \in Version : Good(T)
  BY DEF Inv, Good
<1>2. SUFFICES \E V \in Version : Good(V)'
  BY DEF Inv, Good
<1>3. ASSUME NEW v \in Target, NEW local \in BOOLEAN, BeginRollout(v, local)
      PROVE  \E V \in Version : Good(V)'
  BY <1>1, <1>3, BeginRolloutGood
<1>4. ASSUME NEW p \in drafts, WriteRollout(p) PROVE Good(T)'
  BY <1>1, <1>4, WriteRolloutGood
<1>5. ASSUME Driver PROVE Good(T)'
  BY <1>1, <1>5, TickGood, DriveWriteGood, DriveTellGood DEF Driver
<1>6. ASSUME Clock \/ UNCHANGED vars PROVE Good(T)'
  BY <1>1, <1>6, QuietGood
<1>7. ASSUME Sweep \/ \E v \in builds : Age(v) PROVE Good(T)'
  BY <1>1, <1>7, FilesGood
<1>8. ASSUME NEW b \in Box, Machine(b) PROVE Good(T)'
  <2>1. CASE BoxHears(b)
    BY <1>1, <2>1, BoxHearsGood
  <2>2. CASE GatewayHears(b)
    BY <1>1, <2>2, GatewayHearsGood
  <2>3. CASE Restart(b)
    BY <1>1, <2>3, RestartBoxGood, RestartGatewayGood DEF Restart, boundVars
  <2>4. CASE Dial(b)
    BY <1>1, <2>4, DialGood
  <2>5. CASE \E job \in jobs[b] : JobEnds(b, job)
    BY <1>1, <2>5, JobEndsGood
  <2>6. QED BY <1>8, <2>1, <2>2, <2>3, <2>4, <2>5 DEF Machine
<1>9. ASSUME NEW b \in Box, Cut(b) \/ BoxDown(b) PROVE Good(T)'
  BY <1>1, <1>9, CutGood, RestartBoxGood DEF BoxDown, Fault
<1>10. ASSUME GatewayDown PROVE Good(T)'
  BY <1>1, <1>10, RestartGatewayGood DEF GatewayDown, Fault
<1>11. /\ ~\E from, to \in Name : RenameAsk(from, to)
       /\ ~(Renamer \/ Undoing \/ TakeNote \/ RenameTimesOut)
  BY <1>1, NoRename DEF Good
<1>12. QED BY <1>1, <1>3, <1>4, <1>5, <1>6, <1>7, <1>8, <1>9, <1>10, <1>11 DEF Next

LEMMA InvInit ==
    ASSUME Init PROVE Inv
<1>1. PICK T \in Version : T = runs[Me]
  BY NameAssumption DEF Init
<1>2. Me \in Box /\ Box \subseteq Name /\ None \notin Box
  BY NameAssumption DEF Name
<1>3. Types
  <2>1. said \in [Name -> Version \cup {None}]
    BY NameAssumption DEF Init, Name
  <2>2. {route, row, thread} \subseteq Name
    BY <1>2 DEF Init
  <2>3. down \in [Box -> Seq(UpdateFrames)] /\ up \in [Box -> Seq(Answers)]
    <3>1. <<>> \in Seq(UpdateFrames) /\ <<>> \in Seq(Answers)
      OBVIOUS
    <3>2. QED BY <3>1 DEF Init
  <2>4. known \subseteq Name /\ drive \in Drive
    BY <1>2 DEF Init, Drive
  <2>5. QED BY <2>1, <2>2, <2>3, <2>4 DEF Init, Types
<1>4. Unnamed
  BY <1>2 DEF Init, Unnamed
<1>5. \A b \in Box : Untouched(b)
  BY <1>2 DEF Init, Untouched
<1>6. \A b \in Box : BoxHolds(b, T)
  BY <1>2, NameAssumption DEF Init, BoxHolds, OnItsWay
<1>7. NoneYet /\ Beside(T)
  BY <1>5 DEF Init, NoneYet, Beside
<1>8. QED BY <1>3, <1>4, <1>6, <1>7 DEF Inv, Holds, Where

-----------------------------------------------------------------------------
\* What the gateway says of a rollout is true

LEMMA InvIsTrue ==
    ASSUME Inv PROVE RolloutIsTrue
<1>1. PICK T \in Version : Types /\ Unnamed /\ Holds(T)
  BY DEF Inv
<1>2. TypeOK
  <2>1. {grown, overdue} \subseteq BOOLEAN /\ {runs, disk} \subseteq [Box -> Version]
    BY <1>1 DEF Types
  <2>2. {called, dotenv} \subseteq [Box -> Name]
    BY <1>1 DEF Unnamed, Name
  <2>3. drive.at \in {"rest", "write", "tell"}
        /\ (drive # Rest => drive.plan \in Plan /\ drive.tell \in Name \cup {None})
    BY <1>1 DEF Types, Drive, Rest
  <2>4. jobs \in [Box -> SUBSET [kind : {"update"}, version : Version, local : BOOLEAN]]
    BY <1>1 DEF Types, UpdateFrames
  <2>5. renaming = None /\ asking.at = "rest" /\ undo = {}
    BY <1>1 DEF Unnamed, Rest
  <2>6. QED BY <1>1, <2>1, <2>2, <2>3, <2>4, <2>5 DEF TypeOK, Types, Unnamed
<1>3. DoneIsThere
  <2>1. SUFFICES ASSUME NEW b \in Box, Stands(called[b], "done") PROVE disk[b] = plan.target
    BY DEF DoneIsThere
  <2>2. plan # None /\ b \in DOMAIN plan.steps /\ plan.steps[b] = "done"
    BY <1>1, <2>1 DEF Stands, Unnamed
  <2>3. runs[b] = T /\ plan.target = T
    BY <1>1, <2>2, PlanKnown DEF PlanHolds, DoneRuns
  <2>4. QED BY <1>1, <2>3 DEF Holds, BoxHolds
<1>4. BuildsKept
  <2>1. SUFFICES ASSUME plan # None, plan.local PROVE plan.target \in builds
    BY DEF BuildsKept
  <2>2. UnderWay(T)
    BY <1>1, <2>1, PlanKnown
  <2>3. QED BY <2>1, <2>2 DEF UnderWay, PlanHolds
<1>5. QED BY <1>2, <1>3, <1>4 DEF RolloutIsTrue

(* What the gateway says of a machine in an update is true, and the build it *)
(* still has to hand out is there: for any machines in any order, any        *)
(* versions, and every fault (Rollout::advance, drive_updates, on_relay,     *)
(* Store::sweep).                                                            *)
THEOREM RolloutIsAlwaysTrue ==
    ASSUME OneUpdate
    PROVE  Spec => []RolloutIsTrue
<1>1. Init => Inv
  BY InvInit
<1>2. Inv /\ [Next]_vars => Inv'
  BY InvStep
<1>3. Inv => RolloutIsTrue
  BY InvIsTrue
<1>4. QED BY <1>1, <1>2, <1>3, PTL DEF Spec

-----------------------------------------------------------------------------
\* One machine at a time, each of them once

Lessened == \A b \in Box : down'[b] = down[b] \/ down'[b] = <<>> \/ (down[b] # <<>> /\ down'[b] = Tail(down[b]))

LEMMA LessenedTellsNobody ==
    ASSUME Types, Lessened, NEW b \in Box PROVE ~Told(b)
<1>1. PICK q \in Seq(UpdateFrames) : q = down[b]
  BY DEF Types
<1>2. \A frame : Append(q, frame) # q /\ Append(q, frame) # <<>>
                 /\ (q # <<>> => Append(q, frame) # Tail(q))
  <2>1. ASSUME NEW frame
        PROVE  Append(q, frame) # q /\ Append(q, frame) # <<>>
               /\ (q # <<>> => Append(q, frame) # Tail(q))
    <3>1. Len(Append(q, frame)) = Len(q) + 1 /\ Len(q) \in Nat
      OBVIOUS
    <3>2. q # <<>> => Len(Tail(q)) = Len(q) - 1
      OBVIOUS
    <3>3. Len(<<>>) = 0
      OBVIOUS
    <3>4. QED BY <3>1, <3>2, <3>3
  <2>2. QED BY <2>1
<1>3. down'[b] = q \/ down'[b] = <<>> \/ (q # <<>> /\ down'[b] = Tail(q))
  BY <1>1 DEF Lessened
<1>4. QED BY <1>1, <1>2, <1>3 DEF Told

(* A plan only goes on: no machine goes back to where it was not told. *)
GoesOn ==
    plan # None /\ plan' # None =>
        \A id \in DOMAIN plan.steps :
            \/ plan'.steps[id] = plan.steps[id]
            \/ plan.steps[id] = "pending"
            \/ plan.steps[id] = "updating" /\ ~Open(plan'.steps[id])
ToldInTurn ==
    \A b \in Box : Told(b) =>
        /\ Stands(called[b], "updating")
        /\ \A o \in Box \ {b} : OnItsWay(o) => Stands(called[o], "failed")

LEMMA FailedGoesOn ==
    ASSUME NEW T, Types, Holds(T), NEW b \in Box, plan' = Failed(plan, b)
    PROVE  GoesOn
<1>1. CASE plan = None
  BY <1>1 DEF GoesOn
<1>2. CASE plan # None
  BY <1>2, PlanKnown, FailedIs DEF GoesOn, Open
<1>3. QED BY <1>1, <1>2

LEMMA WriteGoesOn ==
    ASSUME NEW T, Types, Holds(T), DriveWrite
    PROVE  GoesOn
<1>1. drive # Rest /\ drive.at = "write" /\ plan' = IF drive.finished THEN None ELSE drive.plan
  BY DEF DriveWrite, Rest
<1>2. \A n \in DOMAIN plan.steps : Follows(plan.steps[n], drive.plan.steps[n])
  BY <1>1 DEF Holds, Beside
<1>3. QED BY <1>1, <1>2 DEF GoesOn, Follows, Open

(* Every step but DriveTell tells nobody. *)
LEMMA TellsNobody ==
    ASSUME NEW T, Types, Unnamed, Holds(T), OneUpdate, [Next]_vars, ~DriveTell
    PROVE  Lessened /\ GoesOn
<1>1. ASSUME UNCHANGED <<plan, down>> PROVE Lessened /\ GoesOn
  BY <1>1 DEF Lessened, GoesOn
<1>2. CASE UNCHANGED vars
  BY <1>1, <1>2 DEF vars, accessVars, netVars
<1>3. ASSUME NEW v \in Target, NEW local \in BOOLEAN, BeginRollout(v, local) PROVE Lessened /\ GoesOn
  BY <1>1, <1>3 DEF BeginRollout, accessVars, netVars
<1>4. ASSUME NEW p \in drafts, WriteRollout(p) PROVE Lessened /\ GoesOn
  <2>1. plan = None
    BY <1>4 DEF Holds, Where, NoneYet, Drafted, UnderWay, Through
  <2>2. down' = down
    BY <1>4 DEF WriteRollout, netVars
  <2>3. QED BY <2>1, <2>2 DEF Lessened, GoesOn
<1>5. CASE Tick
  BY <1>1, <1>5 DEF Tick, accessVars, netVars
<1>6. CASE DriveWrite
  BY <1>6, WriteGoesOn DEF DriveWrite, netVars, Lessened
<1>7. CASE Clock
  BY <1>1, <1>7 DEF Clock, HalfAMinute, FiveMinutes, accessVars, netVars
<1>8. CASE Sweep \/ \E v \in builds : Age(v)
  BY <1>1, <1>8 DEF Sweep, Age, accessVars, netVars
<1>9. ASSUME NEW b \in Box, BoxHears(b) PROVE Lessened /\ GoesOn
  <2>1. plan' = plan /\ down[b] # <<>> /\ down' = [down EXCEPT ![b] = Tail(down[b])]
    BY <1>9 DEF BoxHears, accessVars
  <2>2. QED BY <2>1 DEF Lessened, GoesOn, Types
<1>10. ASSUME NEW b \in Box, GatewayHears(b) PROVE Lessened /\ GoesOn
  <2>1. down' = down /\ called[b] = b
    BY <1>10 DEF GatewayHears, Unnamed
  <2>2. plan' = plan \/ plan' = Failed(plan, b)
    BY <1>10, <2>1 DEF GatewayHears
  <2>3. QED BY <1>1, <2>1, <2>2, FailedGoesOn DEF Lessened
<1>11. ASSUME NEW b \in Box, RestartBox(b) \/ Cut(b) PROVE Lessened /\ GoesOn
  <2>1. plan' = plan /\ down' = [down EXCEPT ![b] = <<>>]
    BY <1>11 DEF RestartBox, Cut, Unlink, accessVars
  <2>2. QED BY <2>1 DEF Lessened, GoesOn, Types
<1>12. CASE RestartGateway
  <2>1. plan' = plan /\ down' = [b \in Box |-> <<>>]
    BY <1>12 DEF RestartGateway, accessVars
  <2>2. QED BY <2>1 DEF Lessened, GoesOn
<1>13. ASSUME NEW b \in Box, Dial(b) PROVE Lessened /\ GoesOn
  <2>1. plan' = plan /\ down' = [x \in Box |-> IF x = linked[called[b]] THEN <<>> ELSE down[x]]
    BY <1>13 DEF Dial
  <2>2. QED BY <2>1 DEF Lessened, GoesOn
<1>14. ASSUME NEW b \in Box, NEW job \in jobs[b], JobEnds(b, job) PROVE Lessened /\ GoesOn
  BY <1>1, <1>14 DEF JobEnds, accessVars
<1>15. ASSUME NEW b \in Box, Machine(b) PROVE Lessened /\ GoesOn
  BY <1>9, <1>10, <1>11, <1>12, <1>13, <1>14, <1>15 DEF Machine, Restart
<1>16. ASSUME NEW b \in Box, Cut(b) \/ BoxDown(b) PROVE Lessened /\ GoesOn
  BY <1>11, <1>16 DEF BoxDown
<1>17. CASE GatewayDown
  BY <1>12, <1>17 DEF GatewayDown
<1>18. /\ ~\E from, to \in Name : RenameAsk(from, to)
       /\ ~(Renamer \/ Undoing \/ TakeNote \/ RenameTimesOut)
  BY NoRename
<1>19. QED
  BY <1>2, <1>3, <1>4, <1>5, <1>6, <1>7, <1>8, <1>15, <1>16, <1>17, <1>18 DEF Next, Driver

LEMMA OneByOneStep ==
    ASSUME Inv, OneUpdate, [Next]_vars
    PROVE  ToldInTurn /\ GoesOn
<1>1. PICK T \in Version : Types /\ Unnamed /\ Holds(T)
  BY DEF Inv
<1>2. CASE ~DriveTell
  <2>1. Lessened /\ GoesOn
    BY <1>1, <1>2, TellsNobody
  <2>2. \A b \in Box : ~Told(b)
    BY <1>1, <2>1, LessenedTellsNobody
  <2>3. QED BY <2>1, <2>2 DEF ToldInTurn
<1>3. CASE DriveTell
  <2>1. PICK tell : tell = drive.tell
    OBVIOUS
  <2>2. /\ tell \in Box
        /\ plan # None /\ plan \in Plan /\ PlanHolds(plan, T)
        /\ tell \in DOMAIN plan.steps /\ plan.steps[tell] = "updating"
        /\ \/ /\ down' = [down EXCEPT ![tell] = Append(@, Update(T, plan.local))]
              /\ plan' = plan
           \/ plan' = Failed(plan, tell) /\ down' = down
        /\ \A o \in Box \ {tell} : OnItsWay(o) => Stands(o, "failed")
    BY <1>1, <1>3, <2>1, ToldWho
  <2>3. GoesOn
    <3>1. CASE plan' = plan
      BY <3>1 DEF GoesOn
    <3>2. CASE plan' = Failed(plan, tell)
      BY <1>1, <2>2, <3>2, FailedGoesOn
    <3>3. QED BY <2>2, <3>1, <3>2
  <2>4. ASSUME NEW b \in Box, Told(b) PROVE b = tell
    <3>1. SUFFICES ASSUME b # tell PROVE FALSE
      OBVIOUS
    <3>2. down'[b] = down[b]
      BY <1>1, <2>2, <3>1 DEF Types
    <3>3. PICK q \in Seq(UpdateFrames) : q = down[b]
      BY <1>1 DEF Types
    <3>4. \A frame : Append(q, frame) # q
      <4>1. ASSUME NEW frame PROVE Len(Append(q, frame)) = Len(q) + 1 /\ Len(q) \in Nat
        OBVIOUS
      <4>2. QED BY <4>1
    <3>5. QED BY <2>4, <3>2, <3>3, <3>4 DEF Told
  <2>5. \A b \in Box : called[b] = b
    BY <1>1 DEF Unnamed
  <2>6. ToldInTurn
    BY <2>2, <2>4, <2>5 DEF ToldInTurn, Stands
  <2>7. QED BY <2>3, <2>6
<1>4. QED BY <1>2, <1>3

(* However it is interrupted, a rollout goes over the machines one by one,  *)
(* each of them once: no machine is told while another is still fetching,   *)
(* replacing or restarting, unless that one was given up (begin_rollout,    *)
(* drive_updates, Rollout::advance, Rollout::failed).                       *)
THEOREM RolloutAlwaysGoesOneByOne ==
    ASSUME OneUpdate
    PROVE  Spec => GoesOneByOne
<1>1. Init => Inv
  BY InvInit
<1>2. Inv /\ [Next]_vars => Inv'
  BY InvStep
<1>3. Inv /\ [Next]_vars =>
          /\ [\A b \in Box : Told(b) =>
                 \A o \in Box \ {b} : OnItsWay(o) => Stands(called[o], "failed")]_vars
          /\ [/\ \A b \in Box : Told(b) => Stands(called[b], "updating")
              /\ plan # None /\ plan' # None =>
                     \A id \in DOMAIN plan.steps :
                         \/ plan'.steps[id] = plan.steps[id]
                         \/ plan.steps[id] = "pending"
                         \/ plan.steps[id] = "updating" /\ ~Open(plan'.steps[id])]_vars
  BY OneByOneStep DEF ToldInTurn, GoesOn
<1>4. QED BY <1>1, <1>2, <1>3, PTL DEF Spec, GoesOneByOne, OneAtATime, ToldOnce

-----------------------------------------------------------------------------
(* Names.  What the theorem about them assumes: one rename at a time, and  *)
(* every machine linked once.                                              *)

RenameFrames == [kind : {"rename"}, to : Name]
AllFrames == UpdateFrames \cup RenameFrames
AllAnswers == Answers \cup {RenameFailed}
Undone == [at : {"route", "thread"}, from : Name, to : Name]
Asked == {Rest} \cup [at : {"route", "thread", "tell"}, from : Name, to : Name, back : BOOLEAN]
Note == [from : Name, to : Name]

(* The types of everything, names and frames of a rename included.         *)
Typed ==
    /\ plan \in Plan \cup {None}
    /\ known \subseteq Name
    /\ said \in [Name -> Version \cup {None}]
    /\ route \in Name /\ row \in Name /\ thread \in Name
    /\ grown \in BOOLEAN /\ overdue \in BOOLEAN
    /\ linked \in [Name -> Box \cup {None}]
    /\ drafts \subseteq Plan
    /\ drive \in Drive /\ (drive.at = "tell" => drive.tell # None)
    /\ renaming \in Note \cup {None}
    /\ asking \in Asked
    /\ undo \subseteq Undone
    /\ notes \in Seq(Note)
    /\ runs \in [Box -> Version] /\ disk \in [Box -> Version]
    /\ called \in [Box -> Name] /\ dotenv \in [Box -> Name]
    /\ jobs \in [Box -> SUBSET UpdateFrames]
    /\ down \in [Box -> Seq(AllFrames)]
    /\ up \in [Box -> Seq(AllAnswers)]
    /\ aged \subseteq builds /\ builds \subseteq Version
    /\ renames \in Nat

(* The gateway stays up, and a rename waits for the one before to be put   *)
(* back.  What may disturb: RestartGateway forgets a rename half way, and  *)
(* rename_failed puts back without the lock.                               *)
Orderly == ~RestartGateway /\ (renames' # renames => undo = {})

(* No machine that was never linked, and no rename given up after a minute *)
(* unless it was the last.                                                 *)
Patient == Strangers = {} /\ ("slow" \in Faults => MaxRenames <= 1)

(* What of a rename is among frames.                                       *)
TellsIn(q) == {i \in DOMAIN q : q[i].kind = "rename"}
ToldIn(q, n) == \E i \in DOMAIN q : q[i] = Rename(n)
RefusalsIn(q) == {i \in DOMAIN q : q[i] = RenameFailed}
Once(ids) == \A i, j \in ids : i = j
Tells(b) == TellsIn(down[b])
Refusals(b) == RefusalsIn(up[b])

(* The names a box goes by, will after a restart, or is told to.           *)
Goes(b) == {called[b], dotenv[b]} \cup {n \in Name : ToldIn(down[b], n)}
Still(b) == Tells(b) = {} /\ Refusals(b) = {} /\ dotenv[b] = called[b]
Seen(b) == b # Me => called[b] \in known

Linked(n) == linked[n] = None \/ called[linked[n]] = n
OwnNames ==
    /\ \A b, o \in Box : b # o => Goes(b) \cap Goes(o) = {}
    /\ Goes(Me) = {Me} /\ Still(Me) /\ linked[Me] = Me
    /\ \A n \in Name : Linked(n)

(* Everybody is settled, and known by his name.                            *)
Settled == \A b \in Box : Still(b) /\ Seen(b)

(* One box is about to have, or has, another name on record.               *)
Nobodys(n) == \A b \in Box : n \notin Goes(b)
Before(f, from, to) == Settled /\ called[f] = from /\ Nobodys(to)
After(f, from, to) ==
    /\ \A b \in Box : Still(b) /\ (b # f => Seen(b))
    /\ called[f] = from /\ Nobodys(to) /\ to \in known

(* It has been told, and has it taken, refused or not heard yet.           *)
Informed(f, from, to) ==
    /\ \A b \in Box \ {f} : Still(b) /\ Seen(b) /\ to \notin Goes(b) /\ from \notin Goes(b)
    /\ to \in known /\ from # to
    /\ Goes(f) \subseteq {from, to}
    /\ called[f] = to => Still(f)
    /\ Once(Tells(f)) /\ Once(Refusals(f))
    /\ Tells(f) # {} => Refusals(f) = {} /\ dotenv[f] = from
    /\ Refusals(f) # {} => Goes(f) = {from}

Idle == asking = Rest /\ renaming = None /\ undo = {}
Asking ==
    /\ asking # Rest /\ renaming = None /\ undo = {}
    /\ ~asking.back =>
          \E f \in Box \ {Me} : IF asking.at = "route" THEN Before(f, asking.from, asking.to)
                                                       ELSE After(f, asking.from, asking.to)
    /\ asking.back =>
          CASE asking.at = "route" -> \E f \in Box \ {Me} : After(f, asking.to, asking.from)
            [] asking.at = "thread" -> Settled
            [] OTHER -> FALSE
Waits ==
    /\ asking = Rest /\ renaming # None /\ undo = {}
    /\ \E f \in Box \ {Me} : Informed(f, renaming.from, renaming.to)
PutsBack ==
    /\ asking = Rest /\ renaming = None
    /\ \E u \in Undone :
          /\ undo = {u}
          /\ u.at = "route" => \E f \in Box \ {Me} : After(f, u.to, u.from)
          /\ u.at = "thread" => Settled

(* How far a rename has come; after the last it may have been given up.    *)
Phase ==
    \/ Idle /\ Settled
    \/ renames > 0 /\ (Asking \/ Waits \/ PutsBack)
    \/ renames > 0 /\ renames >= MaxRenames /\ Idle

(* The records: between its two parts a move has done the first; what is   *)
(* noted takes threads.json to where the gateway is.                       *)
Moved(n, from, to) == IF n = from THEN to ELSE n
RouteAhead ==
    /\ asking.at = "thread" => route = Moved(thread, asking.from, asking.to)
    /\ \A u \in undo : u.at = "thread" => route = Moved(thread, u.from, u.to)
    /\ asking.at # "thread" /\ (\A u \in undo : u.at # "thread") => route = thread
Follow(from, to, q, h) ==
    /\ h[0] = from /\ h[Len(q)] = to
    /\ \A i \in 1 .. Len(q) : h[i] = Moved(h[i - 1], q[i].from, q[i].to)
RowBehind == \E h \in [0 .. Len(notes) -> Name] : Follow(row, thread, notes, h)

NamesInv == Typed /\ OwnNames /\ Phase /\ RouteAhead /\ RowBehind
-----------------------------------------------------------------------------
\* Types, whatever the constants are and whoever is renamed

LEMMA FrameKindsAre ==
    /\ \A f \in AllFrames : f.kind \in {"update", "rename"}
    /\ \A f \in AllFrames : f.kind = "update" => f \in UpdateFrames
    /\ \A f \in AllFrames : f.kind = "rename" => f.to \in Name /\ f = Rename(f.to)
    /\ \A n \in Name : Rename(n) \in AllFrames /\ Rename(n).kind = "rename" /\ Rename(n).to = n
    /\ \A v \in Version, l \in BOOLEAN : Update(v, l) \in AllFrames /\ Update(v, l).kind = "update"
    /\ UpdateFailed \in AllAnswers /\ RenameFailed \in AllAnswers
    /\ \A v \in Version : Says(v) \in AllAnswers /\ Says(v) # RenameFailed
    /\ UpdateFailed # RenameFailed
    /\ \A e \in AllAnswers : e.kind = "version" => e.version \in Version /\ e # RenameFailed
<1> USE DEF AllFrames, UpdateFrames, RenameFrames, Rename, Update
<1>1. \A f \in AllFrames : f.kind \in {"update", "rename"} /\ (f.kind = "update" => f \in UpdateFrames)
  OBVIOUS
<1>2. \A f \in AllFrames : f.kind = "rename" => f.to \in Name /\ f = Rename(f.to)
  OBVIOUS
<1>3. \A n \in Name : Rename(n) \in AllFrames /\ Rename(n).kind = "rename" /\ Rename(n).to = n
  OBVIOUS
<1>4. \A v \in Version, l \in BOOLEAN : Update(v, l) \in AllFrames /\ Update(v, l).kind = "update"
  OBVIOUS
<1>5. UpdateFailed \in AllAnswers /\ RenameFailed \in AllAnswers /\ UpdateFailed # RenameFailed
  BY DEF AllAnswers, Answers, UpdateFailed, RenameFailed
<1>6. \A v \in Version : Says(v) \in AllAnswers /\ Says(v) # RenameFailed
  BY DEF AllAnswers, Answers, Says, RenameFailed
<1>7. \A e \in AllAnswers : e.kind = "version" => e.version \in Version /\ e # RenameFailed
  BY DEF AllAnswers, Answers, Says, UpdateFailed, RenameFailed
<1>8. QED BY <1>1, <1>2, <1>3, <1>4, <1>5, <1>6, <1>7

LEMMA NamesAre ==
    /\ Me \in Box /\ Me \in Name /\ Box \subseteq Name
    /\ None \notin Name /\ None \notin Box /\ None \notin Plan /\ None \notin Version
    /\ Target \subseteq Version
BY NameAssumption DEF Name

(* A plan moved on is a plan, and who is told is in it. *)
LEMMA AdvanceTyped ==
    ASSUME NEW p \in Plan, NEW late \in BOOLEAN
    PROVE  /\ Advance(p, late).plan \in Plan
           /\ Advance(p, late).tell \in Name \cup {None}
           /\ Advance(p, late).finished \in BOOLEAN
<1> DEFINE stop == Stops(p, late)
           next == {n \in First(stop) : p.steps[n] = "pending"}
           passed == {n \in DOMAIN p.steps : \A other \in stop : Rank[n] < Rank[other]}
           steps == [n \in DOMAIN p.steps |-> IF n \in next THEN "updating"
                                   ELSE IF n \in passed /\ Open(p.steps[n]) THEN Verdict(p, n, late)
                                   ELSE p.steps[n]]
           tell == IF next = {} THEN None ELSE CHOOSE n \in next : TRUE
<1>1. /\ Advance(p, late).plan = [p EXCEPT !.steps = steps]
      /\ Advance(p, late).tell = tell
      /\ Advance(p, late).finished = (stop = {})
  BY DEF Advance
<1>2. /\ DOMAIN p.steps \subseteq Name
      /\ \A n \in DOMAIN p.steps : p.steps[n] \in StepStates /\ Verdict(p, n, late) \in StepStates
  BY PlanFields, VerdictIs
<1>3. tell \in Name \cup {None}
  <2>1. next \subseteq DOMAIN p.steps
    BY DEF Stops, First
  <2>2. QED BY <1>2, <2>1
<1>4. \A n \in DOMAIN p.steps : steps[n] \in StepStates
  BY <1>2 DEF StepStates
<1>5. DOMAIN steps = DOMAIN p.steps /\ steps = [n \in DOMAIN p.steps |-> steps[n]]
  OBVIOUS
<1>6. [p EXCEPT !.steps = steps] \in Plan
  <2> HIDE DEF steps
  <2>1. QED BY <1>4, <1>5, PlanMoved
<1>7. QED BY <1>1, <1>3, <1>6

LEMMA FailedTyped ==
    ASSUME NEW p \in Plan \cup {None}, NEW id
    PROVE  Failed(p, id) \in Plan \cup {None}
<1>1. CASE p = None
  BY <1>1 DEF Failed
<1>2. CASE p # None
  <2> DEFINE steps == [n \in DOMAIN p.steps |->
                  IF n = id /\ p.steps[n] = "updating" THEN "failed" ELSE p.steps[n]]
  <2>1. p \in Plan /\ \A n \in DOMAIN p.steps : p.steps[n] \in StepStates
    BY <1>2, PlanFields
  <2>2. DOMAIN steps = DOMAIN p.steps /\ steps = [n \in DOMAIN p.steps |-> steps[n]]
        /\ \A n \in DOMAIN p.steps : steps[n] \in StepStates
    BY <2>1 DEF StepStates
  <2>3. [p EXCEPT !.steps = steps] \in Plan
    <3> HIDE DEF steps
    <3>1. QED BY <2>1, <2>2, PlanMoved
  <2>4. QED BY <1>2, <2>3 DEF Failed
<1>3. QED BY <1>1, <1>2

(* What is sent goes to the end of one box's frames. *)
LEMMA SendTyped ==
    ASSUME Typed, NEW n \in Name, Reachable(n), NEW frame \in AllFrames, Send(n, frame)
    PROVE  /\ linked[n] \in Box /\ down' \in [Box -> Seq(AllFrames)]
           /\ down'[linked[n]] = down[linked[n]] \o <<frame>>
           /\ \A b \in Box \ {linked[n]} : down'[b] = down[b]
<1>1. linked[n] \in Box /\ down \in [Box -> Seq(AllFrames)]
  BY NamesAre DEF Reachable, Typed
<1>2. PICK q \in Seq(AllFrames) : q = down[linked[n]]
  BY <1>1
<1>3. q \o <<frame>> \in Seq(AllFrames) /\ Append(q, frame) = q \o <<frame>>
  BY Joined
<1>4. down' = [down EXCEPT ![linked[n]] = q \o <<frame>>]
  BY <1>2, <1>3 DEF Send
<1>5. QED BY <1>1, <1>2, <1>3, <1>4

(* What is answered reaches the gateway, or is lost with the link. *)
LEMMA AnswerTyped ==
    ASSUME Typed, NEW b \in Box, NEW e \in AllAnswers, Answer(b, <<e>>)
    PROVE  /\ up' \in [Box -> Seq(AllAnswers)]
           /\ \A o \in Box \ {b} : up'[o] = up[o]
           /\ up'[b] = up[b] \/ up'[b] = up[b] \o <<e>>
<1>1. up \in [Box -> Seq(AllAnswers)]
  BY DEF Typed
<1>2. PICK q \in Seq(AllAnswers) : q = up[b]
  BY <1>1
<1>3. q \o <<e>> \in Seq(AllAnswers)
  BY Joined
<1>4. up' = up \/ up' = [up EXCEPT ![b] = q \o <<e>>]
  BY <1>2 DEF Answer
<1>5. QED BY <1>1, <1>2, <1>3, <1>4

LEMMA RolloutTyped ==
    ASSUME Typed,
           (\E v \in Target, local \in BOOLEAN : BeginRollout(v, local)) \/ (\E p \in drafts : WriteRollout(p))
           \/ Driver \/ Clock \/ Sweep \/ (\E v \in builds : Age(v))
    PROVE  Typed'
<1> USE DEF accessVars, fileVars, driverVars, renameVars, boxVars, netVars, boundVars
<1>1. CASE \E v \in Target, local \in BOOLEAN : BeginRollout(v, local)
  <2>1. PICK v \in Target, local \in BOOLEAN : BeginRollout(v, local)
    BY <1>1
  <2> DEFINE ids == {Me} \cup known \cup Connected
             p == [target |-> v, local |-> local, steps |-> [id \in ids |-> "pending"]]
  <2>2. v \in Version /\ ids \subseteq Name
    BY NamesAre DEF Typed, Connected
  <2>3. [id \in ids |-> "pending"] \in [ids -> StepStates]
    BY DEF StepStates
  <2>4. p \in Plan
    BY <2>2, <2>3, PlanMade
  <2>5. /\ drafts' = drafts \cup {p} /\ builds' = (IF local THEN builds \cup {v} ELSE builds)
        /\ aged' = (IF local THEN aged \ {v} ELSE aged)
        /\ UNCHANGED <<accessVars, drive, overdue, renameVars, boxVars, netVars, grown, renames>>
    BY <2>1 DEF BeginRollout
  <2> HIDE DEF p
  <2>6. QED BY <2>2, <2>4, <2>5 DEF Typed
<1>2. CASE \E p \in drafts : WriteRollout(p)
  BY <1>2 DEF WriteRollout, Typed
<1>3. CASE Tick
  <2>1. plan \in Plan /\ overdue \in BOOLEAN
    BY <1>3 DEF Tick, Typed
  <2>2. /\ Advance(plan, overdue).plan \in Plan /\ Advance(plan, overdue).tell \in Name \cup {None}
        /\ Advance(plan, overdue).finished \in BOOLEAN
    BY <2>1, AdvanceTyped
  <2>3. /\ drive' = [at |-> "write", plan |-> Advance(plan, overdue).plan, tell |-> Advance(plan, overdue).tell,
                     finished |-> Advance(plan, overdue).finished]
        /\ overdue' \in BOOLEAN
        /\ UNCHANGED <<accessVars, fileVars, drafts, renameVars, boxVars, netVars, grown, renames>>
    BY <1>3, <2>1 DEF Tick
  <2>4. drive' \in Drive /\ drive'.at = "write"
    BY <2>2, <2>3 DEF Drive
  <2>5. QED BY <2>3, <2>4 DEF Typed
<1>4. CASE DriveWrite
  <2>1. drive \in [at : {"write", "tell"}, plan : Plan, tell : Name \cup {None}, finished : BOOLEAN]
    BY <1>4 DEF DriveWrite, Typed, Drive, Rest
  <2>2. drive' \in Drive /\ (drive'.at = "tell" => drive'.tell # None)
    BY <1>4, <2>1 DEF DriveWrite, Drive, Rest
  <2>3. plan' \in Plan \cup {None}
    BY <1>4, <2>1 DEF DriveWrite
  <2>4. aged' \subseteq builds' /\ builds' \subseteq Version
    BY <1>4 DEF DriveWrite, Discard, Typed
  <2>5. UNCHANGED <<said, known, route, drafts, overdue, renameVars, boxVars, netVars, grown, renames>>
    BY <1>4 DEF DriveWrite
  <2>6. QED BY <2>2, <2>3, <2>4, <2>5 DEF Typed
<1>5. CASE DriveTell
  <2>1. drive \in [at : {"write", "tell"}, plan : Plan, tell : Name \cup {None}, finished : BOOLEAN]
    BY <1>5 DEF DriveTell, Typed, Drive, Rest
  <2>2. Failed(drive.plan, drive.tell) \in Plan \cup {None}
    BY <2>1, FailedTyped
  <2>3. plan' \in Plan \cup {None} /\ drive' \in Drive /\ drive'.at = "rest"
    BY <1>5, <2>2 DEF DriveTell, Typed, Drive, Rest
  <2>4. down' \in [Box -> Seq(AllFrames)]
    <3>1. CASE UNCHANGED down
      BY <3>1 DEF Typed
    <3>2. CASE Reachable(drive.tell) /\ Send(drive.tell, Update(drive.plan.target, drive.plan.local))
      <4>1. drive.plan.target \in Version /\ drive.plan.local \in BOOLEAN
        BY <2>1, PlanFields
      <4>2. Update(drive.plan.target, drive.plan.local) \in AllFrames
        BY <4>1, FrameKindsAre
      <4>3. drive.tell \in Name
        BY <1>5, <2>1 DEF DriveTell, Typed
      <4>4. QED BY <3>2, <4>2, <4>3, SendTyped
    <3>3. QED BY <1>5, <3>1, <3>2 DEF DriveTell
  <2>5. UNCHANGED <<said, known, route, fileVars, drafts, overdue, renameVars, boxVars, linked, up, grown, renames>>
    BY <1>5 DEF DriveTell
  <2>6. QED BY <2>3, <2>4, <2>5 DEF Typed
<1>6. CASE Clock
  BY <1>6 DEF Clock, HalfAMinute, FiveMinutes, Typed
<1>7. CASE Sweep
  BY <1>7 DEF Sweep, Discard, Typed
<1>8. CASE \E v \in builds : Age(v)
  BY <1>8 DEF Age, Typed
<1>9. QED BY <1>1, <1>2, <1>3, <1>4, <1>5, <1>6, <1>7, <1>8 DEF Driver

LEMMA RenameTyped ==
    ASSUME Typed, (\E from, to \in Name : RenameAsk(from, to)) \/ Renamer \/ Undoing \/ TakeNote
    PROVE  Typed'
<1> USE DEF accessVars, fileVars, driverVars, renameVars, boxVars, netVars, boundVars
<1>1. ASSUME NEW from \in Name, NEW to \in Name, MoveRoute(from, to)
      PROVE  route' \in Name /\ known' \subseteq Name /\ said' \in [Name -> Version \cup {None}]
  BY <1>1 DEF MoveRoute, Typed
<1>2. ASSUME NEW from \in Name, NEW to \in Name, MoveThread(from, to)
      PROVE  thread' \in Name /\ notes' \in Seq(Note)
  <2>1. [from |-> from, to |-> to] \in Note
    BY DEF Note
  <2>2. QED BY <1>2, <2>1 DEF MoveThread, Typed
<1>3. CASE \E from, to \in Name : RenameAsk(from, to)
  <2>1. PICK from \in Name, to \in Name : RenameAsk(from, to)
    BY <1>3
  <2>2. asking' \in Asked
    BY <2>1 DEF RenameAsk, Asked
  <2>3. QED BY <2>1, <2>2 DEF RenameAsk, Typed
<1>4. ASSUME asking.at # "rest"
      PROVE  /\ asking.from \in Name /\ asking.to \in Name /\ asking.back \in BOOLEAN
             /\ asking = [at |-> asking.at, from |-> asking.from, to |-> asking.to, back |-> asking.back]
  BY <1>4 DEF Typed, Asked, Rest
<1>5. CASE RenameRoute
  <2>1. asking' \in Asked
    BY <1>4, <1>5 DEF RenameRoute, Asked
  <2>2. route' \in Name /\ known' \subseteq Name /\ said' \in [Name -> Version \cup {None}]
    BY <1>1, <1>4, <1>5 DEF RenameRoute
  <2>3. QED BY <1>5, <2>1, <2>2 DEF RenameRoute, Typed
<1>6. CASE RenameThread
  <2>1. asking' \in Asked
    BY <1>4, <1>6 DEF RenameThread, Asked
  <2>2. thread' \in Name /\ notes' \in Seq(Note)
    BY <1>2, <1>4, <1>6 DEF RenameThread
  <2>3. QED BY <1>6, <2>1, <2>2 DEF RenameThread, Typed
<1>7. CASE RenameTell
  <2>1. asking' \in Asked
    <3>1. asking' = Rest \/ asking' = [at |-> "route", from |-> asking.to, to |-> asking.from, back |-> TRUE]
      BY <1>7 DEF RenameTell
    <3>2. asking.from \in Name /\ asking.to \in Name
      BY <1>4, <1>7 DEF RenameTell
    <3>3. [at |-> "route", from |-> asking.to, to |-> asking.from, back |-> TRUE] \in Asked
      BY <3>2 DEF Asked
    <3>4. QED BY <3>1, <3>3 DEF Asked
  <2>2. renaming' \in Note \cup {None}
    BY <1>4, <1>7 DEF RenameTell, Note, Typed
  <2>3. down' \in [Box -> Seq(AllFrames)]
    <3>1. CASE Reachable(asking.from)
      <4>1. Rename(asking.to) \in AllFrames /\ Send(asking.from, Rename(asking.to)) /\ asking.from \in Name
        BY <1>4, <1>7, <3>1, FrameKindsAre DEF RenameTell
      <4>2. QED BY <3>1, <4>1, SendTyped
    <3>2. QED BY <1>7, <3>1 DEF RenameTell, Typed
  <2>4. UNCHANGED <<accessVars, fileVars, driverVars, row, thread, notes, undo, boxVars, linked, up, grown, renames>>
    BY <1>7 DEF RenameTell
  <2>5. QED BY <2>1, <2>2, <2>3, <2>4 DEF Typed
<1>8. CASE RenameWaited
  BY <1>8 DEF RenameWaited, Typed
<1>9. CASE Undoing
  <2>1. PICK u \in undo : UndoRoute(u) \/ UndoThread(u)
    BY <1>9 DEF Undoing
  <2>2. u.from \in Name /\ u.to \in Name /\ [u EXCEPT !.at = "thread"] \in Undone
    BY DEF Typed, Undone
  <2>3. CASE UndoRoute(u)
    <3>1. route' \in Name /\ known' \subseteq Name /\ said' \in [Name -> Version \cup {None}]
      BY <1>1, <2>2, <2>3 DEF UndoRoute
    <3>2. QED BY <2>2, <2>3, <3>1 DEF UndoRoute, Typed
  <2>4. CASE UndoThread(u)
    <3>1. thread' \in Name /\ notes' \in Seq(Note)
      BY <1>2, <2>2, <2>4 DEF UndoThread
    <3>2. QED BY <2>4, <3>1 DEF UndoThread, Typed
  <2>5. QED BY <2>1, <2>3, <2>4
<1>10. CASE TakeNote
  <2>1. notes \in Seq(Note) /\ notes # <<>>
    BY <1>10 DEF TakeNote, Typed
  <2>2. Tail(notes) \in Seq(Note) /\ Head(notes) \in Note
    BY <2>1, Shortened
  <2>3. row' \in Name /\ notes' \in Seq(Note)
    BY <1>10, <2>2 DEF TakeNote, Typed, Note
  <2>4. QED BY <1>10, <2>3 DEF TakeNote, Typed
<1>11. QED BY <1>3, <1>5, <1>6, <1>7, <1>8, <1>9, <1>10 DEF Renamer

LEMMA RestartTyped ==
    ASSUME Typed, NEW b \in Box, UNCHANGED renames,
           RestartBox(b) \/ (b = Me /\ RestartGateway)
    PROVE  Typed'
<1> USE DEF accessVars, fileVars, driverVars, renameVars, boxVars, netVars, boundVars
<1>1. <<>> \in Seq(AllFrames) /\ <<>> \in Seq(AllAnswers) /\ <<>> \in Seq(Note)
  OBVIOUS
<1>2. ASSUME Reborn(b)
      PROVE  /\ runs' \in [Box -> Version] /\ disk' \in [Box -> Version]
             /\ called' \in [Box -> Name] /\ dotenv' \in [Box -> Name]
             /\ jobs' \in [Box -> SUBSET UpdateFrames]
  BY <1>2 DEF Reborn, Typed
<1>3. CASE RestartBox(b)
  <2>1. /\ linked' \in [Name -> Box \cup {None}] /\ down' \in [Box -> Seq(AllFrames)] /\ up' \in [Box -> Seq(AllAnswers)]
    BY <1>1, <1>3 DEF RestartBox, Unlink, Typed
  <2>2. UNCHANGED <<accessVars, fileVars, driverVars, renameVars, grown, renames>> /\ Reborn(b)
    BY <1>3 DEF RestartBox
  <2>3. QED BY <1>2, <2>1, <2>2 DEF Typed
<1>4. CASE b = Me /\ RestartGateway
  <2>1. linked' \in [Name -> Box \cup {None}] /\ down' \in [Box -> Seq(AllFrames)] /\ up' \in [Box -> Seq(AllAnswers)]
    BY <1>1, <1>4, NamesAre DEF RestartGateway
  <2>2. /\ drafts' \subseteq Plan /\ drive' \in Drive /\ drive'.at # "tell" /\ grown' \in BOOLEAN
        /\ renaming' \in Note \cup {None} /\ asking' \in Asked /\ undo' \subseteq Undone
        /\ notes' \in Seq(Note) /\ thread' \in Name
    BY <1>1, <1>4 DEF RestartGateway, Drive, Asked, Rest, Typed
  <2>3. UNCHANGED <<accessVars, fileVars, row, overdue, renames>> /\ Reborn(b)
    BY <1>4 DEF RestartGateway
  <2>4. QED BY <1>2, <2>1, <2>2, <2>3 DEF Typed
<1>5. QED BY <1>3, <1>4

LEMMA MachineTyped ==
    ASSUME Typed, NEW b \in Box, Machine(b) \/ Cut(b) \/ BoxDown(b) \/ GatewayDown \/ RenameTimesOut
    PROVE  Typed'
<1> USE DEF accessVars, fileVars, driverVars, renameVars, boxVars, netVars, boundVars
<1>1. CASE BoxHears(b)
  <2>1. PICK q \in Seq(AllFrames) : q = down[b] /\ q # <<>>
    BY <1>1 DEF BoxHears, Typed
  <2>2. Tail(q) \in Seq(AllFrames) /\ Head(q) \in AllFrames
    BY <2>1, Shortened
  <2>3. down' \in [Box -> Seq(AllFrames)]
    BY <1>1, <2>1, <2>2 DEF BoxHears, Typed
  <2> DEFINE frame == Head(down[b])
  <2>4. frame \in AllFrames /\ (frame.kind = "update" => frame \in UpdateFrames) /\ (frame.kind = "rename" => frame.to \in Name)
    BY <2>1, <2>2, FrameKindsAre
  <2>5. \/ frame.kind = "update" /\ Answer(b, <<Says(runs[b])>>) /\ UNCHANGED <<jobs, dotenv>>
        \/ frame.kind = "update" /\ jobs' = [jobs EXCEPT ![b] = @ \cup {frame}] /\ UNCHANGED <<dotenv, up>>
        \/ frame.kind = "rename" /\ dotenv' = [dotenv EXCEPT ![b] = frame.to] /\ UNCHANGED <<jobs, up>>
        \/ frame.kind = "rename" /\ Answer(b, <<RenameFailed>>) /\ UNCHANGED <<jobs, dotenv>>
    BY <1>1 DEF BoxHears
  <2>6. Says(runs[b]) \in AllAnswers /\ RenameFailed \in AllAnswers
    BY FrameKindsAre DEF Typed
  <2>7. up' \in [Box -> Seq(AllAnswers)]
    BY <2>5, <2>6, AnswerTyped DEF Typed
  <2>8. jobs' \in [Box -> SUBSET UpdateFrames] /\ dotenv' \in [Box -> Name]
    <3> HIDE DEF frame
    <3>1. QED BY <2>4, <2>5, ZenonT(40) DEF Typed
  <2>9. UNCHANGED <<accessVars, fileVars, driverVars, renameVars, runs, disk, called, linked, grown, renames>>
    BY <1>1 DEF BoxHears
  <2>10. QED BY <2>3, <2>7, <2>8, <2>9 DEF Typed
<1>2. CASE GatewayHears(b)
  <2>1. PICK q \in Seq(AllAnswers) : q = up[b] /\ q # <<>>
    BY <1>2 DEF GatewayHears, Typed
  <2>2. Tail(q) \in Seq(AllAnswers) /\ Head(q) \in AllAnswers
    BY <2>1, Shortened
  <2>3. up' \in [Box -> Seq(AllAnswers)]
    BY <1>2, <2>1, <2>2 DEF GatewayHears, Typed
  <2>4. called[b] \in Name /\ (Head(up[b]).kind = "version" => Head(up[b]).version \in Version)
    BY <2>1, <2>2, FrameKindsAre DEF Typed
  <2>5. Failed(plan, called[b]) \in Plan \cup {None}
    BY FailedTyped DEF Typed
  <2>6. plan' \in Plan \cup {None} /\ said' \in [Name -> Version \cup {None}] /\ known' \subseteq Name
    BY <1>2, <2>4, <2>5 DEF GatewayHears, Typed
  <2>7. renaming' \in Note \cup {None} /\ undo' \subseteq Undone
    <3>1. renaming # None => [at |-> "route", from |-> renaming.to, to |-> renaming.from] \in Undone
      BY DEF Typed, Undone, Note
    <3>2. \/ UNCHANGED <<renaming, undo>>
          \/ renaming # None /\ renaming' = None /\ undo' = undo \cup {[at |-> "route", from |-> renaming.to, to |-> renaming.from]}
      BY <1>2 DEF GatewayHears
    <3>3. QED BY <3>1, <3>2 DEF Typed
  <2>8. UNCHANGED <<route, fileVars, driverVars, row, thread, notes, asking, boxVars, linked, down, grown, renames>>
    BY <1>2 DEF GatewayHears
  <2>9. QED BY <2>3, <2>6, <2>7, <2>8 DEF Typed
<1>3. CASE Restart(b)
  BY <1>3, RestartTyped DEF Restart
<1>4. CASE Dial(b)
  <2>1. called[b] \in Name
    BY DEF Typed
  <2>2. <<>> \in Seq(AllFrames) /\ <<>> \in Seq(AllAnswers) /\ <<Says(runs[b])>> \in Seq(AllAnswers)
    BY FrameKindsAre DEF Typed
  <2>3. /\ linked' \in [Name -> Box \cup {None}] /\ known' \subseteq Name
        /\ down' \in [Box -> Seq(AllFrames)]
    BY <1>4, <2>1, <2>2 DEF Dial, Typed
  <2>4. up' \in [Box -> Seq(AllAnswers)]
    BY <1>4, <2>2 DEF Dial, Typed
  <2>5. UNCHANGED <<plan, said, route, fileVars, driverVars, renameVars, boxVars, grown, renames>>
    BY <1>4 DEF Dial
  <2>6. QED BY <2>3, <2>4, <2>5 DEF Typed
<1>5. CASE \E job \in jobs[b] : JobEnds(b, job)
  <2>1. PICK job \in jobs[b] : JobEnds(b, job)
    BY <1>5
  <2>2. job.version \in Version
    BY DEF Typed, UpdateFrames
  <2>3. up' \in [Box -> Seq(AllAnswers)]
    <3>1. up' = up \/ Answer(b, <<UpdateFailed>>)
      BY <2>1 DEF JobEnds
    <3>2. UpdateFailed \in AllAnswers
      BY FrameKindsAre
    <3>3. QED BY <3>1, <3>2, AnswerTyped DEF Typed
  <2>4. disk' \in [Box -> Version] /\ jobs' \in [Box -> SUBSET UpdateFrames]
    BY <2>1, <2>2 DEF JobEnds, Typed
  <2>5. UNCHANGED <<accessVars, fileVars, driverVars, renameVars, runs, called, dotenv, linked, down, grown, renames>>
    BY <2>1 DEF JobEnds
  <2>6. QED BY <2>3, <2>4, <2>5 DEF Typed
<1>6. CASE Cut(b)
  <2>1. <<>> \in Seq(AllFrames) /\ <<>> \in Seq(AllAnswers)
    OBVIOUS
  <2>2. linked' \in [Name -> Box \cup {None}] /\ down' \in [Box -> Seq(AllFrames)] /\ up' \in [Box -> Seq(AllAnswers)]
    BY <1>6, <2>1 DEF Cut, Unlink, Typed
  <2>3. UNCHANGED <<accessVars, fileVars, driverVars, renameVars, boxVars, grown, renames>>
    BY <1>6 DEF Cut, Fault
  <2>4. QED BY <2>2, <2>3 DEF Typed
<1>7. CASE BoxDown(b)
  BY <1>7, RestartTyped DEF BoxDown, Fault
<1>8. CASE GatewayDown
  BY <1>8, RestartTyped, NamesAre DEF GatewayDown, Fault
<1>9. CASE RenameTimesOut
  BY <1>9 DEF RenameTimesOut, Fault, Typed
<1>10. QED BY <1>1, <1>2, <1>3, <1>4, <1>5, <1>6, <1>7, <1>8, <1>9 DEF Machine

LEMMA TypedStep == Typed /\ [Next]_vars => Typed'
<1> SUFFICES ASSUME Typed, [Next]_vars PROVE Typed'
  OBVIOUS
<1>1. CASE UNCHANGED vars
  BY <1>1 DEF vars, accessVars, fileVars, driverVars, renameVars, boxVars, netVars, boundVars, Typed
<1>2. CASE Next
  <2>1. CASE \E b \in Box : Machine(b) \/ Cut(b) \/ BoxDown(b)
    BY <2>1, MachineTyped
  <2>2. CASE GatewayDown \/ RenameTimesOut
    BY <2>2, MachineTyped, NamesAre
  <2>3. QED BY <1>2, <2>1, <2>2, RolloutTyped, RenameTyped DEF Next
<1>3. QED BY <1>1, <1>2

LEMMA TypedInit == Init => Typed
<1> SUFFICES ASSUME Init PROVE Typed
  OBVIOUS
<1>1. <<>> \in Seq(AllFrames) /\ <<>> \in Seq(AllAnswers) /\ <<>> \in Seq(Note)
  OBVIOUS
<1>2. known \subseteq Name /\ route \in Name /\ said \in [Name -> Version \cup {None}]
  BY NamesAre DEF Init
<1>3. /\ drive \in Drive /\ drive.at # "tell" /\ asking \in Asked
      /\ linked \in [Name -> Box \cup {None}]
      /\ called \in [Box -> Name] /\ dotenv \in [Box -> Name]
  BY NamesAre DEF Init, Drive, Asked, Rest
<1>4. QED BY <1>1, <1>2, <1>3 DEF Init, Typed

LEMMA TypedIsTypeOK == Typed => TypeOK
<1> SUFFICES ASSUME Typed PROVE TypeOK
  OBVIOUS
<1>1. drive.at \in {"rest", "write", "tell"} /\ (drive # Rest => drive.plan \in Plan /\ drive.tell \in Name \cup {None})
  BY DEF Typed, Drive, Rest
<1>2. asking.at \in {"rest", "route", "thread", "tell"}
  BY DEF Typed, Asked, Rest
<1>3. QED BY <1>1, <1>2 DEF Typed, TypeOK, Note, Undone, UpdateFrames

(* Whatever breaks down, whoever is renamed, however many updates overlap: *)
(* every variable keeps its type.                                          *)
THEOREM FleetTyped == Spec => []TypeOK
<1>1. Init => Typed
  BY TypedInit
<1>2. Typed /\ [Next]_vars => Typed'
  BY TypedStep
<1>3. Typed => TypeOK
  BY TypedIsTypeOK
<1>4. QED BY <1>1, <1>2, <1>3, PTL DEF Spec

-----------------------------------------------------------------------------
\* Frames of a rename, on their way

FewerTells(t, q) ==
    /\ \A n \in Name : ToldIn(t, n) => ToldIn(q, n)
    /\ TellsIn(q) = {} => TellsIn(t) = {}
    /\ Once(TellsIn(q)) => Once(TellsIn(t))
FewerRefusals(t, q) ==
    /\ RefusalsIn(q) = {} => RefusalsIn(t) = {}
    /\ Once(RefusalsIn(q)) => Once(RefusalsIn(t))

LEMMA NoFrames ==
    ASSUME NEW q
    PROVE  /\ TellsIn(<<>>) = {} /\ RefusalsIn(<<>>) = {}
           /\ FewerTells(q, q) /\ FewerTells(<<>>, q) /\ FewerRefusals(q, q) /\ FewerRefusals(<<>>, q)
<1>1. DOMAIN <<>> = {}
  OBVIOUS
<1>2. QED BY <1>1 DEF TellsIn, RefusalsIn, FewerTells, FewerRefusals, ToldIn, Once

LEMMA FrameTaken ==
    ASSUME NEW q \in Seq(AllFrames), q # <<>>
    PROVE  /\ FewerTells(Tail(q), q) /\ Head(q) \in AllFrames
           /\ Head(q).kind = "rename" => 1 \in TellsIn(q) /\ ToldIn(q, Head(q).to) /\ Head(q).to \in Name
           /\ Head(q).kind = "rename" /\ Once(TellsIn(q)) => TellsIn(Tail(q)) = {}
<1>1. /\ Head(q) \in AllFrames /\ 1 \in DOMAIN q /\ Head(q) = q[1]
      /\ \A i \in DOMAIN Tail(q) : i + 1 \in DOMAIN q /\ Tail(q)[i] = q[i + 1]
  BY Shortened
<1>2. \A i \in DOMAIN Tail(q) : i \in Nat \ {0}
  BY Shortened
<1>3. \A i \in TellsIn(Tail(q)) : i + 1 \in TellsIn(q) /\ i \in Nat \ {0}
  BY <1>1, <1>2 DEF TellsIn
<1>4. \A n \in Name : ToldIn(Tail(q), n) => ToldIn(q, n)
  BY <1>1 DEF ToldIn
<1>5. TellsIn(q) = {} => TellsIn(Tail(q)) = {}
  BY <1>3
<1>6. Once(TellsIn(q)) => Once(TellsIn(Tail(q)))
  BY <1>3 DEF Once
<1>7. ASSUME Head(q).kind = "rename"
      PROVE  /\ 1 \in TellsIn(q) /\ ToldIn(q, Head(q).to) /\ Head(q).to \in Name
             /\ Once(TellsIn(q)) => TellsIn(Tail(q)) = {}
  <2>1. 1 \in TellsIn(q)
    BY <1>1, <1>7 DEF TellsIn
  <2>2. ToldIn(q, Head(q).to) /\ Head(q).to \in Name
    BY <1>1, <1>7, FrameKindsAre DEF ToldIn
  <2>3. Once(TellsIn(q)) => TellsIn(Tail(q)) = {}
    BY <1>3, <2>1 DEF Once
  <2>4. QED BY <2>1, <2>2, <2>3
<1>8. QED BY <1>1, <1>4, <1>5, <1>6, <1>7 DEF FewerTells

LEMMA FrameSent ==
    ASSUME NEW q \in Seq(AllFrames), NEW f \in AllFrames
    PROVE  /\ f.kind = "update" => FewerTells(q \o <<f>>, q)
           /\ TellsIn(q) = {} => Once(TellsIn(q \o <<f>>))
           /\ \A n \in Name : ToldIn(q \o <<f>>, n) => ToldIn(q, n) \/ f = Rename(n)
<1>1. /\ DOMAIN q = 1 .. Len(q) /\ Len(q) \in Nat /\ DOMAIN (q \o <<f>>) = 1 .. Len(q) + 1
      /\ \A i \in 1 .. Len(q) : (q \o <<f>>)[i] = q[i]
      /\ (q \o <<f>>)[Len(q) + 1] = f
  OBVIOUS
<1> DEFINE t == q \o <<f>>
<1> HIDE DEF t
<1>2. \A i \in TellsIn(t) : i \in TellsIn(q) \/ (i = Len(q) + 1 /\ f.kind = "rename")
  BY <1>1 DEF TellsIn, t
<1>3. \A n \in Name : ToldIn(t, n) => ToldIn(q, n) \/ f = Rename(n)
  BY <1>1 DEF ToldIn, t
<1>4. TellsIn(q) = {} => Once(TellsIn(t))
  BY <1>2 DEF Once
<1>5. ASSUME f.kind = "update" PROVE FewerTells(t, q)
  <2>1. \A n \in Name : f # Rename(n)
    BY <1>5, FrameKindsAre
  <2>2. TellsIn(t) \subseteq TellsIn(q)
    BY <1>2, <1>5
  <2>3. QED BY <1>3, <2>1, <2>2 DEF FewerTells, Once
<1>6. QED BY <1>3, <1>4, <1>5 DEF t

LEMMA AnswerTaken ==
    ASSUME NEW q \in Seq(AllAnswers), q # <<>>
    PROVE  /\ FewerRefusals(Tail(q), q)
           /\ Head(q) = RenameFailed => 1 \in RefusalsIn(q)
           /\ Head(q) = RenameFailed /\ Once(RefusalsIn(q)) => RefusalsIn(Tail(q)) = {}
<1>1. /\ 1 \in DOMAIN q /\ Head(q) = q[1]
      /\ \A i \in DOMAIN Tail(q) : i + 1 \in DOMAIN q /\ Tail(q)[i] = q[i + 1] /\ i \in Nat \ {0}
  BY Shortened
<1>2. \A i \in RefusalsIn(Tail(q)) : i + 1 \in RefusalsIn(q) /\ i \in Nat \ {0}
  BY <1>1 DEF RefusalsIn
<1>3. Head(q) = RenameFailed => 1 \in RefusalsIn(q)
  BY <1>1 DEF RefusalsIn
<1>4. QED BY <1>2, <1>3 DEF FewerRefusals, Once

LEMMA AnswerSent ==
    ASSUME NEW q \in Seq(AllAnswers), NEW e \in AllAnswers
    PROVE  /\ e # RenameFailed => FewerRefusals(q \o <<e>>, q)
           /\ RefusalsIn(q) = {} => Once(RefusalsIn(q \o <<e>>))
<1>1. /\ DOMAIN q = 1 .. Len(q) /\ Len(q) \in Nat /\ DOMAIN (q \o <<e>>) = 1 .. Len(q) + 1
      /\ \A i \in 1 .. Len(q) : (q \o <<e>>)[i] = q[i]
      /\ (q \o <<e>>)[Len(q) + 1] = e
  OBVIOUS
<1> DEFINE t == q \o <<e>>
<1> HIDE DEF t
<1>2. \A i \in RefusalsIn(t) : i \in RefusalsIn(q) \/ (i = Len(q) + 1 /\ e = RenameFailed)
  BY <1>1 DEF RefusalsIn, t
<1>3. RefusalsIn(q) = {} => Once(RefusalsIn(t))
  BY <1>2 DEF Once
<1>4. e # RenameFailed => FewerRefusals(t, q)
  <2>1. SUFFICES ASSUME e # RenameFailed PROVE FewerRefusals(t, q)
    OBVIOUS
  <2>2. RefusalsIn(t) \subseteq RefusalsIn(q)
    BY <1>2, <2>1
  <2>3. QED BY <2>2 DEF FewerRefusals, Once
<1>5. QED BY <1>3, <1>4 DEF t

-----------------------------------------------------------------------------
\* Steps that leave the names as they are

Fewer(b) == FewerTells(down'[b], down[b]) /\ FewerRefusals(up'[b], up[b])
Nothing(b) == TellsIn(down'[b]) = {} /\ RefusalsIn(up'[b]) = {}
SameNames(b) ==
    /\ Fewer(b) /\ dotenv'[b] = dotenv[b]
    /\ called'[b] = called[b] \/ (called'[b] = dotenv[b] /\ Nothing(b))

LEMMA SameNamesKeep ==
    ASSUME NEW b \in Box, SameNames(b)
    PROVE  /\ Goes(b)' \subseteq Goes(b) /\ called'[b] \in Goes(b)'
           /\ Still(b) => Still(b)' /\ called'[b] = called[b]
           /\ called'[b] # called[b] => Still(b)'
           /\ Once(Tells(b)) => Once(Tells(b)')
           /\ Once(Refusals(b)) => Once(Refusals(b)')
           /\ Tells(b) = {} => Tells(b)' = {}
           /\ Refusals(b) = {} => Refusals(b)' = {}
<1>1. Tells(b)' = TellsIn(down'[b]) /\ Refusals(b)' = RefusalsIn(up'[b])
  BY DEF Tells, Refusals, TellsIn, RefusalsIn
<1>2. Goes(b)' = {called'[b], dotenv'[b]} \cup {n \in Name : ToldIn(down'[b], n)}
  BY DEF Goes, ToldIn
<1>3. Goes(b)' \subseteq Goes(b) /\ called'[b] \in Goes(b)'
  BY <1>2 DEF Goes, SameNames, Fewer, FewerTells
<1>4. Still(b) => Still(b)' /\ called'[b] = called[b]
  BY <1>1 DEF Still, SameNames, Fewer, FewerTells, FewerRefusals, Tells, Refusals
<1>5. called'[b] # called[b] => Still(b)'
  BY <1>1 DEF Still, SameNames, Nothing
<1>6. QED BY <1>1, <1>3, <1>4, <1>5 DEF SameNames, Fewer, FewerTells, FewerRefusals, Tells, Refusals

LinksOwn == linked[Me] = Me /\ \A n \in Name : Linked(n)

LEMMA OwnNamesKept ==
    ASSUME OwnNames, \A b \in Box : SameNames(b), LinksOwn'
    PROVE  OwnNames'
<1>1. \A b \in Box : Goes(b)' \subseteq Goes(b) /\ called'[b] \in Goes(b)' /\ (Still(b) => Still(b)')
  BY SameNamesKeep
<1>2. \A b, o \in Box : b # o => Goes(b)' \cap Goes(o)' = {}
  BY <1>1 DEF OwnNames
<1>3. Goes(Me)' = {Me} /\ Still(Me)'
  BY <1>1, NamesAre DEF OwnNames
<1>4. QED BY <1>2, <1>3 DEF OwnNames, LinksOwn

LEMMA SettledKept ==
    ASSUME \A b \in Box : SameNames(b), known \subseteq known'
    PROVE  /\ Settled => Settled'
           /\ \A n \in Name : Nobodys(n) => Nobodys(n)'
           /\ \A f \in Box, from, to \in Name : Before(f, from, to) => Before(f, from, to)'
           /\ \A f \in Box, from, to \in Name : After(f, from, to) => After(f, from, to)'
<1>1. \A b \in Box : /\ Goes(b)' \subseteq Goes(b)
                     /\ (Still(b) => Still(b)' /\ called'[b] = called[b])
  BY SameNamesKeep
<1>2. \A b \in Box : Still(b) /\ Seen(b) => Seen(b)'
  BY <1>1 DEF Seen
<1>3. Settled => Settled'
  BY <1>1, <1>2 DEF Settled
<1>4. \A n \in Name : Nobodys(n) => Nobodys(n)'
  BY <1>1 DEF Nobodys
<1>5. \A f \in Box, from, to \in Name : Before(f, from, to) => Before(f, from, to)'
  BY <1>1, <1>3, <1>4 DEF Before, Settled
<1>6. \A f \in Box, from, to \in Name : After(f, from, to) => After(f, from, to)'
  BY <1>1, <1>2, <1>4 DEF After
<1>7. QED BY <1>3, <1>4, <1>5, <1>6

LEMMA InformedKept ==
    ASSUME \A b \in Box : SameNames(b), known \subseteq known',
           NEW f \in Box, NEW from \in Name, NEW to \in Name, Informed(f, from, to)
    PROVE  Informed(f, from, to)'
<1>1. \A b \in Box : /\ Goes(b)' \subseteq Goes(b) /\ called'[b] \in Goes(b)'
                     /\ (Still(b) => Still(b)' /\ called'[b] = called[b])
  BY SameNamesKeep
<1>2. \A b \in Box \ {f} : Still(b)' /\ Seen(b)' /\ to \notin Goes(b)' /\ from \notin Goes(b)'
  BY <1>1 DEF Informed, Seen
<1>3. Goes(f)' \subseteq {from, to}
  BY <1>1 DEF Informed
<1>4. /\ called'[f] # called[f] => Still(f)'
      /\ Once(Tells(f)) => Once(Tells(f)')
      /\ Once(Refusals(f)) => Once(Refusals(f)')
      /\ Tells(f) = {} => Tells(f)' = {}
      /\ Refusals(f) = {} => Refusals(f)' = {}
  BY SameNamesKeep
<1>5. called'[f] = to => Still(f)'
  BY <1>1, <1>4 DEF Informed
<1>6. Tells(f)' # {} => Refusals(f)' = {} /\ dotenv'[f] = from
  BY <1>4 DEF Informed, SameNames
<1>7. Refusals(f)' # {} => Goes(f)' = {from}
  BY <1>1, <1>4 DEF Informed
<1>8. to \in known' /\ from # to
  BY DEF Informed
<1>9. Once(Tells(f))' /\ Once(Refusals(f))'
  BY <1>4 DEF Informed, Once
<1>10. QED BY <1>2, <1>3, <1>5, <1>6, <1>7, <1>8, <1>9 DEF Informed

LEMMA PhaseKept ==
    ASSUME Typed, Phase, \A b \in Box : SameNames(b), known \subseteq known',
           UNCHANGED <<asking, renaming, undo, renames>>
    PROVE  Phase'
<1>1. /\ Settled => Settled'
      /\ \A f \in Box, from, to \in Name : Before(f, from, to) => Before(f, from, to)'
      /\ \A f \in Box, from, to \in Name : After(f, from, to) => After(f, from, to)'
  BY SettledKept
<1>2. CASE Idle /\ (Settled \/ (renames > 0 /\ renames >= MaxRenames))
  BY <1>1, <1>2 DEF Idle, Phase
<1>3. CASE renames > 0 /\ Asking
  <2>1. asking.from \in Name /\ asking.to \in Name /\ asking.back \in BOOLEAN
    BY <1>3 DEF Asking, Typed, Asked
  <2>2. ~asking.back => \E f \in Box \ {Me} : IF asking.at = "route" THEN Before(f, asking.from, asking.to)'
                                                                    ELSE After(f, asking.from, asking.to)'
    <3>1. SUFFICES ASSUME ~asking.back
                   PROVE  \E f \in Box \ {Me} : IF asking.at = "route" THEN Before(f, asking.from, asking.to)'
                                                                    ELSE After(f, asking.from, asking.to)'
      OBVIOUS
    <3>2. PICK f \in Box \ {Me} : IF asking.at = "route" THEN Before(f, asking.from, asking.to)
                                                        ELSE After(f, asking.from, asking.to)
      BY <1>3, <3>1 DEF Asking
    <3>3. QED BY <1>1, <2>1, <3>2
  <2>3. asking.back => CASE asking.at = "route" -> \E f \in Box \ {Me} : After(f, asking.to, asking.from)'
                         [] asking.at = "thread" -> Settled'
                         [] OTHER -> FALSE
    <3>1. SUFFICES ASSUME asking.back
                   PROVE  CASE asking.at = "route" -> \E f \in Box \ {Me} : After(f, asking.to, asking.from)'
                            [] asking.at = "thread" -> Settled'
                            [] OTHER -> FALSE
      OBVIOUS
    <3>2. CASE asking.at = "route"
      <4>1. PICK f \in Box \ {Me} : After(f, asking.to, asking.from)
        BY <1>3, <3>1, <3>2 DEF Asking
      <4>2. QED BY <1>1, <2>1, <3>2, <4>1
    <3>3. CASE asking.at = "thread"
      BY <1>1, <1>3, <3>1, <3>3 DEF Asking
    <3>4. asking.at \in {"route", "thread"}
      BY <1>3, <3>1 DEF Asking
    <3>5. QED BY <3>2, <3>3, <3>4
  <2>4. Asking'
    BY <1>3, <2>2, <2>3 DEF Asking
  <2>5. QED BY <1>3, <2>4 DEF Phase
<1>4. CASE renames > 0 /\ Waits
  <2>1. renaming \in Note
    BY <1>4 DEF Waits, Typed
  <2>2. PICK f \in Box \ {Me} : Informed(f, renaming.from, renaming.to)
    BY <1>4 DEF Waits
  <2>3. Informed(f, renaming.from, renaming.to)'
    BY <2>1, <2>2, InformedKept DEF Note
  <2>4. QED BY <1>4, <2>3 DEF Waits, Phase
<1>5. CASE renames > 0 /\ PutsBack
  <2>1. PICK u \in Undone : /\ undo = {u}
                            /\ u.at = "route" => \E f \in Box \ {Me} : After(f, u.to, u.from)
                            /\ u.at = "thread" => Settled
    BY <1>5 DEF PutsBack
  <2>2. u.from \in Name /\ u.to \in Name
    BY DEF Undone
  <2>3. /\ u.at = "route" => \E f \in Box \ {Me} : After(f, u.to, u.from)'
        /\ u.at = "thread" => Settled'
    BY <1>1, <2>1, <2>2
  <2>4. PutsBack'
    BY <1>5, <2>1, <2>3 DEF PutsBack
  <2>5. QED BY <1>5, <2>4 DEF Phase
<1>6. QED BY <1>2, <1>3, <1>4, <1>5 DEF Phase

(* What such a step leaves of the invariant; the records are as they are.  *)
NamesStay ==
    /\ \A b \in Box : SameNames(b)
    /\ LinksOwn' /\ known \subseteq known'
    /\ UNCHANGED <<asking, renaming, undo, renames>>
RecordsStay == UNCHANGED <<route, row, thread, notes, asking, undo>>

LEMMA RecordsKept ==
    ASSUME RouteAhead, RowBehind, RecordsStay
    PROVE  RouteAhead' /\ RowBehind'
BY DEF RouteAhead, RowBehind, RecordsStay, Follow

LEMMA StepKept ==
    ASSUME NamesInv, Typed', NamesStay, RecordsStay
    PROVE  NamesInv'
<1>1. OwnNames' /\ Phase'
  BY OwnNamesKept, PhaseKept DEF NamesInv, NamesStay
<1>2. QED BY <1>1, RecordsKept DEF NamesInv

(* The links are as they were, and so is whom they belong to. *)
LEMMA LinksStay ==
    ASSUME Typed, OwnNames, UNCHANGED <<linked, called>>
    PROVE  LinksOwn'
BY DEF OwnNames, LinksOwn, Linked

LEMMA RolloutNames ==
    ASSUME NamesInv, Typed',
           (\E v \in Target, local \in BOOLEAN : BeginRollout(v, local)) \/ (\E p \in drafts : WriteRollout(p))
           \/ Driver \/ Clock \/ Sweep \/ (\E v \in builds : Age(v))
    PROVE  NamesInv'
<1> USE DEF accessVars, fileVars, driverVars, renameVars, boxVars, netVars, boundVars
<1>1. Typed /\ OwnNames
  BY DEF NamesInv
<1>2. \/ UNCHANGED <<known, route, renameVars, boxVars, netVars, renames>>
      \/ DriveTell
  BY DEF BeginRollout, WriteRollout, Driver, Tick, DriveWrite, Clock, HalfAMinute, FiveMinutes, Sweep, Age
<1>3. UNCHANGED <<known, route, renameVars, called, dotenv, linked, up, renames>>
  BY <1>2 DEF DriveTell
<1>4. \A b \in Box : FewerTells(down'[b], down[b])
  <2>1. CASE UNCHANGED down
    BY <2>1, NoFrames
  <2>2. CASE DriveTell /\ Reachable(drive.tell) /\ Send(drive.tell, Update(drive.plan.target, drive.plan.local))
    <3>1. drive \in [at : {"write", "tell"}, plan : Plan, tell : Name \cup {None}, finished : BOOLEAN]
      BY <1>1, <2>2 DEF DriveTell, Typed, Drive, Rest
    <3>2. drive.plan.target \in Version /\ drive.plan.local \in BOOLEAN
      BY <3>1, PlanFields
    <3> DEFINE frame == Update(drive.plan.target, drive.plan.local)
    <3>3. frame \in AllFrames /\ frame.kind = "update"
      BY <3>2, FrameKindsAre
    <3>4. drive.tell \in Name
      BY <1>1, <2>2, <3>1 DEF DriveTell, Typed
    <3> HIDE DEF frame
    <3>5. /\ linked[drive.tell] \in Box
          /\ down'[linked[drive.tell]] = down[linked[drive.tell]] \o <<frame>>
          /\ \A b \in Box \ {linked[drive.tell]} : down'[b] = down[b]
      BY <1>1, <2>2, <3>3, <3>4, SendTyped DEF frame
    <3>6. down[linked[drive.tell]] \in Seq(AllFrames)
      BY <1>1, <3>5 DEF Typed
    <3>7. FewerTells(down'[linked[drive.tell]], down[linked[drive.tell]])
      BY <3>3, <3>5, <3>6, FrameSent
    <3>8. QED BY <3>5, <3>7, NoFrames
  <2>3. QED BY <1>2, <2>1, <2>2 DEF DriveTell
<1>5. \A b \in Box : SameNames(b)
  BY <1>3, <1>4, NoFrames DEF SameNames, Fewer
<1>6. LinksOwn'
  BY <1>1, <1>3, LinksStay
<1>7. QED BY <1>3, <1>5, <1>6, StepKept DEF NamesStay, RecordsStay

(* A box whose link goes, whether it starts again or not. *)
LEMMA UnlinkedNames ==
    ASSUME NamesInv, Typed', NEW b \in Box, Unlink(b), b # Me, UNCHANGED <<renameVars, known, route, dotenv, renames>>,
           called' = called \/ called' = [called EXCEPT ![b] = dotenv[b]]
    PROVE  NamesInv'
<1>1. Typed /\ OwnNames
  BY DEF NamesInv
<1>2. /\ down'[b] = <<>> /\ up'[b] = <<>>
      /\ \A o \in Box \ {b} : down'[o] = down[o] /\ up'[o] = up[o]
      /\ \A n \in Name : linked'[n] = IF linked[n] = b THEN None ELSE linked[n]
  BY <1>1 DEF Unlink, Typed
<1>3. /\ called'[b] \in {called[b], dotenv[b]}
      /\ \A o \in Box \ {b} : called'[o] = called[o]
  BY <1>1 DEF Typed
<1>4. \A o \in Box : SameNames(o)
  <2>1. SameNames(b)
    BY <1>2, <1>3, NoFrames DEF SameNames, Fewer, Nothing
  <2>2. ASSUME NEW o \in Box \ {b} PROVE SameNames(o)
    BY <1>2, <1>3, NoFrames DEF SameNames, Fewer
  <2>3. QED BY <2>1, <2>2
<1>5. LinksOwn'
  <2>1. linked'[Me] = Me
    BY <1>1, <1>2, NamesAre DEF OwnNames
  <2>2. ASSUME NEW n \in Name PROVE Linked(n)'
    <3>1. linked[n] = None \/ (linked[n] \in Box /\ called[linked[n]] = n)
      BY <1>1 DEF OwnNames, Linked, Typed
    <3>2. CASE linked[n] = b \/ linked[n] = None
      BY <1>2, <3>2 DEF Linked
    <3>3. CASE linked[n] \in Box \ {b} /\ linked[n] # None
      <4>1. linked'[n] = linked[n] /\ called'[linked[n]] = called[linked[n]]
        BY <1>2, <1>3, <3>3
      <4>2. QED BY <3>1, <3>3, <4>1 DEF Linked
    <3>4. QED BY <3>1, <3>2, <3>3
  <2>3. QED BY <2>1, <2>2 DEF LinksOwn
<1>6. QED BY <1>4, <1>5, StepKept DEF NamesStay, RecordsStay, renameVars

LEMMA DialNames ==
    ASSUME NamesInv, Typed', NEW b \in Box, Dial(b)
    PROVE  NamesInv'
<1>1. Typed /\ OwnNames /\ called[b] \in Name
  BY DEF NamesInv, Typed
<1>2. /\ UNCHANGED <<route, renameVars, called, dotenv, renames>> /\ known' = known \cup {called[b]} /\ b # Me
      /\ linked' = [linked EXCEPT ![called[b]] = b]
  BY DEF Dial, boxVars, boundVars
<1>3. \A o \in Box : down'[o] \in {down[o], <<>>}
  BY DEF Dial
<1>4. \A o \in Box : up'[o] \in {up[o], <<>>, <<Says(runs[b])>>}
  BY DEF Dial
<1>5. RefusalsIn(<<Says(runs[b])>>) = {}
  <2>1. Says(runs[b]) # RenameFailed
    BY <1>1, FrameKindsAre DEF Typed
  <2>2. QED BY <2>1 DEF RefusalsIn
<1>6. \A o \in Box : SameNames(o)
  <2>1. SUFFICES ASSUME NEW o \in Box PROVE Fewer(o)
    BY <1>2 DEF SameNames
  <2>2. FewerTells(down'[o], down[o])
    BY <1>3, NoFrames
  <2>3. FewerRefusals(up'[o], up[o])
    BY <1>4, <1>5, NoFrames DEF FewerRefusals, Once
  <2>4. QED BY <2>2, <2>3 DEF Fewer
<1>7. LinksOwn'
  <2>1. called[b] # Me
    <3>1. called[b] \in Goes(b) /\ Goes(b) \cap Goes(Me) = {} /\ Goes(Me) = {Me}
      BY <1>1, <1>2, NamesAre DEF OwnNames, Goes
    <3>2. QED BY <3>1
  <2>2. linked'[called[b]] = b /\ \A n \in Name \ {called[b]} : linked'[n] = linked[n]
    BY <1>1, <1>2 DEF Typed
  <2>3. linked'[Me] = Me
    BY <1>1, <2>1, <2>2, NamesAre DEF OwnNames
  <2>4. \A n \in Name : Linked(n)'
    BY <1>1, <1>2, <2>2 DEF OwnNames, Linked
  <2>5. QED BY <2>3, <2>4 DEF LinksOwn
<1>8. QED BY <1>2, <1>6, <1>7, StepKept DEF NamesStay, RecordsStay, renameVars

(* What a box answers, other than a refusal of a name. *)
LEMMA AnswerNames ==
    ASSUME Typed, NEW b \in Box, NEW e \in AllAnswers, e # RenameFailed, Answer(b, <<e>>)
    PROVE  \A o \in Box : FewerRefusals(up'[o], up[o])
<1>1. \A o \in Box \ {b} : up'[o] = up[o]
  BY AnswerTyped
<1>2. up'[b] = up[b] \/ up'[b] = up[b] \o <<e>>
  BY AnswerTyped
<1>3. up[b] \in Seq(AllAnswers)
  BY DEF Typed
<1>4. FewerRefusals(up'[b], up[b])
  BY <1>2, <1>3, NoFrames, AnswerSent
<1>5. QED BY <1>1, <1>4, NoFrames

LEMMA JobEndsNames ==
    ASSUME NamesInv, Typed', NEW b \in Box, NEW job \in jobs[b], JobEnds(b, job)
    PROVE  NamesInv'
<1>1. Typed /\ OwnNames
  BY DEF NamesInv
<1>2. UNCHANGED <<known, route, renameVars, called, dotenv, linked, down, renames>>
  BY DEF JobEnds, accessVars, boundVars
<1>3. up' = up \/ Answer(b, <<UpdateFailed>>)
  BY DEF JobEnds
<1>4. \A o \in Box : FewerRefusals(up'[o], up[o])
  BY <1>1, <1>3, NoFrames, AnswerNames, FrameKindsAre
<1>5. \A o \in Box : SameNames(o)
  BY <1>2, <1>4, NoFrames DEF SameNames, Fewer
<1>6. LinksOwn'
  BY <1>1, <1>2, LinksStay
<1>7. QED BY <1>2, <1>5, <1>6, StepKept DEF NamesStay, RecordsStay, renameVars

(* Whom a frame of a rename is on its way to, or a refusal from. *)
LEMMA WhoIsTold ==
    ASSUME NamesInv, NEW b \in Box, ~Still(b)
    PROVE  \/ /\ renaming # None /\ renaming.from \in Name /\ renaming.to \in Name
              /\ asking = Rest /\ undo = {} /\ renames > 0 /\ b # Me
              /\ Informed(b, renaming.from, renaming.to)
           \/ Idle /\ renames > 0 /\ renames >= MaxRenames
<1>1. Typed /\ OwnNames /\ Phase
  BY DEF NamesInv
<1>2. ~Settled /\ ~(\E f, from, to : Before(f, from, to) \/ After(f, from, to))
  BY DEF Settled, Before, After
<1>3. ~Asking /\ ~PutsBack
  BY <1>2 DEF Asking, PutsBack, Undone
<1>4. CASE renames > 0 /\ Waits
  <2>1. PICK f \in Box \ {Me} : Informed(f, renaming.from, renaming.to)
    BY <1>4 DEF Waits
  <2>2. f = b
    BY <2>1 DEF Informed
  <2>3. QED BY <1>1, <1>4, <2>1, <2>2 DEF Waits, Typed, Note
<1>5. QED BY <1>1, <1>2, <1>3, <1>4 DEF Phase

LEMMA BoxHearsNames ==
    ASSUME NamesInv, Typed', NEW b \in Box, BoxHears(b)
    PROVE  NamesInv'
<1> DEFINE frame == Head(down[b])
<1>1. Typed /\ OwnNames
  BY DEF NamesInv
<1>2. /\ down[b] # <<>> /\ down[b] \in Seq(AllFrames)
      /\ down'[b] = Tail(down[b]) /\ \A o \in Box \ {b} : down'[o] = down[o]
      /\ UNCHANGED <<known, route, renameVars, called, linked, renames>>
  BY <1>1 DEF BoxHears, Typed, accessVars, boundVars
<1>3. /\ FewerTells(down'[b], down[b])
      /\ frame.kind = "rename" =>
            /\ 1 \in Tells(b) /\ ToldIn(down[b], frame.to) /\ frame.to \in Name
            /\ Once(Tells(b)) => TellsIn(down'[b]) = {}
  BY <1>2, FrameTaken DEF Tells
<1>4. \A o \in Box : FewerTells(down'[o], down[o])
  BY <1>2, <1>3, NoFrames
<1>5. LinksOwn'
  BY <1>1, <1>2, LinksStay
<1>6. CASE UNCHANGED dotenv /\ \A o \in Box : FewerRefusals(up'[o], up[o])
  <2>1. \A o \in Box : SameNames(o)
    BY <1>2, <1>4, <1>6 DEF SameNames, Fewer
  <2>2. QED BY <1>2, <1>5, <2>1, StepKept DEF NamesStay, RecordsStay, renameVars
<1>7. \/ frame.kind = "update" /\ Answer(b, <<Says(runs[b])>>) /\ UNCHANGED <<jobs, dotenv>>
      \/ frame.kind = "update" /\ UNCHANGED <<dotenv, up>>
      \/ frame.kind = "rename" /\ dotenv' = [dotenv EXCEPT ![b] = frame.to] /\ UNCHANGED <<jobs, up>>
      \/ frame.kind = "rename" /\ Answer(b, <<RenameFailed>>) /\ UNCHANGED <<jobs, dotenv>>
  BY DEF BoxHears
<1> HIDE DEF frame
<1>8. CASE frame.kind = "update"
  <2>1. UNCHANGED dotenv /\ (UNCHANGED up \/ Answer(b, <<Says(runs[b])>>))
    BY <1>7, <1>8
  <2>2. \A o \in Box : FewerRefusals(up'[o], up[o])
    <3>1. Says(runs[b]) \in AllAnswers /\ Says(runs[b]) # RenameFailed
      BY <1>1, FrameKindsAre DEF Typed
    <3>2. QED BY <1>1, <2>1, <3>1, NoFrames, AnswerNames
  <2>3. QED BY <1>6, <2>1, <2>2
<1>9. CASE frame.kind = "rename"
  <2>1. ~Still(b)
    BY <1>3, <1>9 DEF Still
  <2>2. frame.to \in Goes(b) /\ frame.to \in Name
    BY <1>3, <1>9 DEF Goes
  <2>3. \A o \in Box \ {b} : up'[o] = up[o] /\ dotenv'[o] = dotenv[o]
    BY <1>1, <1>7, <1>9, AnswerTyped, FrameKindsAre DEF Typed
  <2>4. \A o \in Box \ {b} : SameNames(o)
    BY <1>2, <2>3, NoFrames DEF SameNames, Fewer
  <2>5. dotenv'[b] \in {dotenv[b], frame.to}
    BY <1>1, <1>7, <1>9 DEF Typed
  <2>6. Goes(b)' \subseteq Goes(b)
    <3>1. Goes(b)' = {called'[b], dotenv'[b]} \cup {n \in Name : ToldIn(down'[b], n)}
      BY DEF Goes, ToldIn
    <3>2. called'[b] = called[b] /\ \A n \in Name : ToldIn(down'[b], n) => ToldIn(down[b], n)
      BY <1>2, <1>3 DEF FewerTells
    <3>3. QED BY <2>2, <2>5, <3>1, <3>2 DEF Goes
  <2>7. \A o \in Box : Goes(o)' \subseteq Goes(o)
    BY <2>4, <2>6, SameNamesKeep
  <2>8. b # Me
    BY <1>1, <2>1 DEF OwnNames
  <2>9. OwnNames'
    <3>1. \A o, p \in Box : o # p => Goes(o)' \cap Goes(p)' = {}
      BY <1>1, <2>7 DEF OwnNames
    <3>2. Still(Me)' /\ called'[Me] \in Goes(Me)'
      BY <1>1, <2>4, <2>8, NamesAre, SameNamesKeep DEF OwnNames
    <3>3. Goes(Me)' = {Me}
      BY <1>1, <2>7, <3>2, NamesAre DEF OwnNames
    <3>4. QED BY <1>5, <3>1, <3>2, <3>3 DEF OwnNames, LinksOwn
  <2>10. RouteAhead' /\ RowBehind'
    BY <1>2, RecordsKept DEF NamesInv, RecordsStay, renameVars
  <2>11. CASE Idle /\ renames > 0 /\ renames >= MaxRenames
    BY <1>2, <2>9, <2>10, <2>11 DEF NamesInv, Phase, Idle, renameVars
  <2>12. CASE /\ renaming # None /\ renaming.from \in Name /\ renaming.to \in Name
              /\ asking = Rest /\ undo = {} /\ renames > 0
              /\ Informed(b, renaming.from, renaming.to)
    <3> DEFINE from == renaming.from
               to == renaming.to
    <3>1. /\ Once(Tells(b)) /\ Refusals(b) = {} /\ dotenv[b] = from /\ Goes(b) \subseteq {from, to} /\ from # to
          /\ (called[b] = to => Still(b)) /\ to \in known
          /\ \A o \in Box \ {b} : Still(o) /\ Seen(o) /\ to \notin Goes(o) /\ from \notin Goes(o)
      BY <1>3, <1>9, <2>12 DEF Informed
    <3>2. called[b] = from
      BY <2>1, <3>1 DEF Goes
    <3>3. Tells(b)' = {}
      BY <1>3, <1>9, <3>1 DEF Tells, TellsIn
    <3>4. \A o \in Box \ {b} : Still(o)' /\ Seen(o)' /\ to \notin Goes(o)' /\ from \notin Goes(o)'
      BY <1>2, <2>4, <2>7, <3>1, SameNamesKeep DEF Seen
    <3>5. Once(Refusals(b)') /\ (Refusals(b)' # {} => Goes(b)' = {from})
      <4>1. CASE UNCHANGED up
        BY <3>1, <4>1 DEF Refusals, RefusalsIn, Once
      <4>2. CASE Answer(b, <<RenameFailed>>) /\ UNCHANGED dotenv
        <5>1. up'[b] = up[b] \/ up'[b] = up[b] \o <<RenameFailed>>
          BY <1>1, <4>2, AnswerTyped, FrameKindsAre
        <5>2. Once(RefusalsIn(up'[b]))
          <6>1. up[b] \in Seq(AllAnswers) /\ RenameFailed \in AllAnswers /\ RefusalsIn(up[b]) = {}
            BY <1>1, <3>1, FrameKindsAre DEF Typed, Refusals
          <6>2. Once(RefusalsIn(up[b] \o <<RenameFailed>>))
            BY <6>1, AnswerSent
          <6>3. Once(RefusalsIn(up[b]))
            BY <6>1 DEF Once
          <6>4. QED BY <5>1, <6>2, <6>3
        <5>3. Goes(b)' = {from}
          <6>1. TellsIn(down'[b]) = {}
            BY <1>3, <1>9, <3>1
          <6>2. \A n \in Name : ~ToldIn(down'[b], n)
            BY <6>1, FrameKindsAre DEF ToldIn, TellsIn
          <6>3. Goes(b)' = {called'[b], dotenv'[b]} \cup {n \in Name : ToldIn(down'[b], n)}
            BY DEF Goes, ToldIn
          <6>4. called'[b] = from /\ dotenv'[b] = from
            BY <1>2, <3>1, <3>2, <4>2
          <6>5. QED BY <6>2, <6>3, <6>4
        <5>4. QED BY <5>2, <5>3 DEF Refusals, RefusalsIn
      <4>3. QED BY <1>7, <1>9, <4>1, <4>2
    <3>6. Goes(b)' \subseteq {from, to} /\ called'[b] = from /\ known' = known /\ renaming' = renaming
      BY <1>2, <2>6, <3>1, <3>2 DEF renameVars
    <3>7. Once(Tells(b)') /\ Once(Refusals(b))' /\ Once(Tells(b))'
      BY <3>3, <3>5 DEF Once
    <3>8. Informed(b, renaming.from, renaming.to)'
      BY <3>1, <3>3, <3>4, <3>5, <3>6, <3>7 DEF Informed
    <3>9. Phase'
      BY <1>2, <2>8, <2>12, <3>8 DEF Phase, Waits, renameVars
    <3>10. QED BY <2>9, <2>10, <3>9 DEF NamesInv
  <2>13. QED BY <2>1, <2>11, <2>12, WhoIsTold
<1>10. QED BY <1>7, <1>8, <1>9

(* A refusal puts the records on their way back, if it is waited for. *)
LEMMA GatewayHearsNames ==
    ASSUME NamesInv, Typed', NEW b \in Box, GatewayHears(b)
    PROVE  NamesInv'
<1>1. Typed /\ OwnNames
  BY DEF NamesInv
<1>2. /\ up[b] # <<>> /\ up[b] \in Seq(AllAnswers)
      /\ up'[b] = Tail(up[b]) /\ \A o \in Box \ {b} : up'[o] = up[o]
      /\ UNCHANGED <<route, row, thread, notes, asking, called, dotenv, linked, down, renames>>
  BY <1>1 DEF GatewayHears, Typed, boxVars, boundVars
<1>3. /\ FewerRefusals(up'[b], up[b])
      /\ Head(up[b]) = RenameFailed =>
            /\ 1 \in Refusals(b)
            /\ Once(Refusals(b)) => RefusalsIn(up'[b]) = {}
  BY <1>2, AnswerTaken DEF Refusals
<1>4. \A o \in Box : SameNames(o)
  BY <1>2, <1>3, NoFrames DEF SameNames, Fewer
<1>5. LinksOwn'
  BY <1>1, <1>2, LinksStay
<1>6. known \subseteq known'
  BY DEF GatewayHears
<1>7. CASE UNCHANGED <<renaming, undo>>
  BY <1>2, <1>4, <1>5, <1>6, <1>7, StepKept DEF NamesStay, RecordsStay
<1>8. CASE /\ Head(up[b]) = RenameFailed /\ asking = Rest /\ renaming # None /\ renaming.from = called[b]
           /\ renaming' = None /\ undo' = undo \cup {[at |-> "route", from |-> renaming.to, to |-> renaming.from]}
           /\ UNCHANGED known
  <2>1. ~Still(b) /\ ~Idle
    BY <1>3, <1>8 DEF Still, Idle
  <2>2. /\ renaming.from \in Name /\ renaming.to \in Name
        /\ asking = Rest /\ undo = {} /\ renames > 0 /\ b # Me
        /\ Informed(b, renaming.from, renaming.to)
    BY <2>1, WhoIsTold
  <2>3. PICK from \in Name, to \in Name : from = renaming.from /\ to = renaming.to
    BY <2>2
  <2> DEFINE u == [at |-> "route", from |-> to, to |-> from]
  <2>4. /\ Tells(b) = {} /\ Once(Refusals(b)) /\ Goes(b) = {from} /\ from # to /\ to \in known
        /\ \A o \in Box \ {b} : Still(o) /\ Seen(o) /\ to \notin Goes(o)
    BY <1>3, <1>8, <2>2, <2>3 DEF Informed
  <2>5. Refusals(b)' = {} /\ Tells(b)' = {} /\ dotenv'[b] = called'[b] /\ called'[b] = from
    <3>1. dotenv[b] = from /\ called[b] = from
      BY <2>4 DEF Goes
    <3>2. QED BY <1>2, <1>3, <1>8, <2>4, <3>1 DEF Refusals, RefusalsIn, Tells, TellsIn
  <2>6. \A o \in Box : Goes(o)' \subseteq Goes(o) /\ (Still(o) => Still(o)' /\ called'[o] = called[o])
    BY <1>4, SameNamesKeep
  <2>7. \A o \in Box : Still(o)' /\ (o # b => Seen(o)')
    BY <1>8, <2>4, <2>5, <2>6 DEF Still, Seen
  <2>8. Nobodys(to)'
    BY <2>4, <2>6 DEF Nobodys
  <2>9. After(b, from, to)'
    BY <1>8, <2>4, <2>5, <2>7, <2>8 DEF After
  <2>10. u \in Undone /\ undo' = {u} /\ u.at = "route" /\ u.to = from /\ u.from = to
    BY <1>8, <2>2, <2>3 DEF Undone
  <2>11. PutsBack'
    <3>1. \E f \in Box \ {Me} : After(f, u.to, u.from)'
      BY <2>2, <2>9, <2>10
    <3>2. asking' = Rest /\ renaming' = None
      BY <1>2, <1>8
    <3> HIDE DEF u
    <3>3. QED BY <2>10, <3>1, <3>2 DEF PutsBack
  <2>12. Phase' /\ OwnNames'
    BY <1>1, <1>2, <1>4, <1>5, <2>2, <2>11, OwnNamesKept DEF Phase
  <2>13. RouteAhead'
    <3>1. route = thread
      BY <2>2 DEF NamesInv, RouteAhead, Rest
    <3> HIDE DEF u
    <3>2. QED BY <1>2, <1>8, <2>10, <3>1 DEF RouteAhead, Rest
  <2>14. RowBehind'
    BY <1>2 DEF NamesInv, RowBehind, Follow
  <2>15. QED BY <2>12, <2>13, <2>14 DEF NamesInv
<1>9. QED BY <1>7, <1>8 DEF GatewayHears

(* rename_machine looks, and takes the lock of `renaming`. *)
LEMMA RenameAskNames ==
    ASSUME NamesInv, Typed', Orderly, NEW from \in Name, NEW to \in Name, RenameAsk(from, to)
    PROVE  NamesInv'
<1>1. Typed /\ OwnNames /\ Phase
  BY DEF NamesInv
<1>2. /\ renames < MaxRenames /\ asking = Rest /\ renaming = None /\ MayRename(from, to) /\ renames' = renames + 1
      /\ asking' = [at |-> "route", from |-> from, to |-> to, back |-> FALSE]
      /\ UNCHANGED <<known, route, row, thread, notes, renaming, undo, called, dotenv, linked, down, up>>
  BY DEF RenameAsk, accessVars, boxVars, netVars
<1>3. undo = {} /\ renames \in Nat
  BY <1>1, <1>2 DEF Orderly, Typed
<1>4. Settled
  BY <1>1, <1>2, <1>3, FleetBoundAssumption DEF Phase, Asking, Waits, PutsBack, Undone
<1>5. \A b \in Box : SameNames(b)
  BY <1>2, NoFrames DEF SameNames, Fewer
<1>6. OwnNames'
  BY <1>1, <1>2, <1>5, LinksStay, OwnNamesKept
\* The name belongs to a box that is linked, the new one to none
<1>7. PICK f \in Box : called[f] = from /\ f # Me
  <2>1. from \in Name \ {Me} /\ linked[from] # None
    BY <1>2 DEF MayRename, Connected
  <2>2. linked[from] \in Box /\ called[linked[from]] = from
    BY <1>1, <2>1 DEF OwnNames, Linked, Typed
  <2>3. called[Me] = Me
    BY <1>1 DEF OwnNames, Goes
  <2>4. QED BY <2>1, <2>2, <2>3
<1>8. Nobodys(to)
  <2>1. \A b \in Box : Goes(b) = {called[b]}
    <3>1. SUFFICES ASSUME NEW b \in Box PROVE Goes(b) = {called[b]}
      OBVIOUS
    <3>2. Still(b)
      BY <1>4 DEF Settled
    <3>3. \A n \in Name : ~ToldIn(down[b], n)
      BY <3>2, FrameKindsAre DEF Still, Tells, TellsIn, ToldIn
    <3>4. QED BY <3>2, <3>3 DEF Still, Goes
  <2>2. \A b \in Box \ {Me} : called[b] \in known
    BY <1>4 DEF Settled, Seen
  <2>3. called[Me] = Me
    BY <1>1 DEF OwnNames, Goes
  <2>4. to # Me /\ to \notin known
    BY <1>2 DEF MayRename, Named
  <2>5. QED BY <2>1, <2>2, <2>3, <2>4 DEF Nobodys
<1>9. Before(f, from, to)'
  BY <1>2, <1>4, <1>5, <1>7, <1>8, SettledKept DEF Before
<1>10. Phase'
  <2>1. asking' # Rest /\ asking'.back = FALSE /\ asking'.at = "route" /\ asking'.from = from /\ asking'.to = to
    BY <1>2 DEF Rest
  <2>2. Asking'
    BY <1>2, <1>3, <1>7, <1>9, <2>1 DEF Asking
  <2>3. renames' > 0
    BY <1>2, <1>3
  <2>4. QED BY <2>2, <2>3 DEF Phase
<1>11. RouteAhead' /\ RowBehind'
  <2>1. route = thread
    BY <1>2, <1>3 DEF NamesInv, RouteAhead, Rest
  <2>2. RouteAhead'
    BY <1>2, <1>3, <2>1 DEF RouteAhead
  <2>3. RowBehind'
    BY <1>2 DEF NamesInv, RowBehind, Follow
  <2>4. QED BY <2>2, <2>3
<1>12. QED BY <1>6, <1>10, <1>11 DEF NamesInv

(* The two parts of a move, of the records that name a box. *)
LEMMA MovedNames ==
    ASSUME NamesInv, NEW f \in Box \ {Me}, NEW from \in Name, NEW to \in Name, MoveRoute(from, to),
           UNCHANGED <<called, dotenv, down, up, linked>>
    PROVE  /\ OwnNames'
           /\ Before(f, from, to) => After(f, from, to)'
           /\ After(f, to, from) => Settled'
<1>1. Typed /\ OwnNames
  BY DEF NamesInv
<1>2. known' = IF from \in known THEN (known \ {from}) \cup {to} ELSE known
  BY DEF MoveRoute
<1>3. \A b \in Box : /\ Goes(b)' = Goes(b) /\ (Still(b) <=> Still(b)') /\ called'[b] = called[b] /\ SameNames(b)
  BY NoFrames DEF Goes, Still, Tells, Refusals, SameNames, Fewer
<1>4. OwnNames'
  BY <1>1, <1>3, LinksStay, OwnNamesKept
<1>5. ASSUME Before(f, from, to) PROVE After(f, from, to)'
  <2>1. called[f] = from /\ from \in known
    BY <1>5 DEF Before, Settled, Seen
  <2>2. \A b \in Box \ {f} : called[b] # from
    BY <1>1, <2>1 DEF OwnNames, Goes
  <2>3. \A b \in Box \ {f} : Seen(b)'
    BY <1>2, <1>3, <1>5, <2>2 DEF Before, Settled, Seen
  <2>4. Nobodys(to)' /\ to \in known'
    BY <1>2, <1>3, <1>5, <2>1 DEF Before, Nobodys
  <2>5. QED BY <1>3, <1>5, <2>1, <2>3, <2>4 DEF Before, Settled, After
<1>6. ASSUME After(f, to, from) PROVE Settled'
  <2>1. called[f] = to /\ from \in known /\ Nobodys(from)
    BY <1>6 DEF After
  <2>2. \A b \in Box : called[b] # from
    BY <2>1 DEF Nobodys, Goes
  <2>3. to \in known' /\ \A b \in Box \ {f} : Seen(b)'
    BY <1>2, <1>3, <1>6, <2>1, <2>2 DEF After, Seen
  <2>4. \A b \in Box : Seen(b)'
    BY <1>3, <2>1, <2>3 DEF Seen
  <2>5. QED BY <1>3, <1>6, <2>4 DEF After, Settled
<1>7. QED BY <1>4, <1>5, <1>6

(* A step of the renamer or of the undoing that touches no link and no box. *)
LEMMA RenameRouteNames ==
    ASSUME NamesInv, Typed', RenameRoute
    PROVE  NamesInv'
<1>1. Typed /\ OwnNames /\ Phase
  BY DEF NamesInv
<1>2. /\ asking.at = "route" /\ MoveRoute(asking.from, asking.to)
      /\ asking' = [asking EXCEPT !.at = "thread"]
      /\ UNCHANGED <<row, thread, notes, renaming, undo, called, dotenv, linked, down, up, renames>>
  BY DEF RenameRoute, boxVars, netVars, boundVars
<1>3. asking # Rest /\ asking \in [at : {"route", "thread", "tell"}, from : Name, to : Name, back : BOOLEAN]
  BY <1>1, <1>2 DEF Rest, Typed, Asked
<1>4. PICK from \in Name, to \in Name, back \in BOOLEAN : from = asking.from /\ to = asking.to /\ back = asking.back
  BY <1>3
<1>5. Asking /\ renames > 0
  BY <1>1, <1>3 DEF Phase, Idle, Waits, PutsBack
<1>6. /\ asking' # Rest /\ asking'.at = "thread" /\ asking'.from = from /\ asking'.to = to /\ asking'.back = back
  BY <1>2, <1>3, <1>4 DEF Rest
<1>7. PICK f \in Box \ {Me} : IF back THEN After(f, to, from) ELSE Before(f, from, to)
  BY <1>2, <1>4, <1>5 DEF Asking
<1>8. MoveRoute(from, to)
  BY <1>2, <1>4
<1>9. OwnNames' /\ (IF back THEN Settled' ELSE After(f, from, to)')
  BY <1>2, <1>7, <1>8, MovedNames
<1>10. Asking'
  BY <1>2, <1>5, <1>6, <1>9 DEF Asking
<1>11. RouteAhead'
  <2>1. undo = {} /\ route = thread
    BY <1>2, <1>5 DEF NamesInv, RouteAhead, Asking
  <2>2. route' = Moved(thread, from, to)
    BY <1>8, <2>1 DEF MoveRoute, Moved
  <2>3. QED BY <1>2, <1>6, <2>1, <2>2 DEF RouteAhead
<1>12. RowBehind'
  BY <1>2 DEF NamesInv, RowBehind, Follow
<1>13. QED BY <1>2, <1>5, <1>9, <1>10, <1>11, <1>12 DEF NamesInv, Phase

(* The note that is added takes threads.json where the gateway is. *)
LEMMA ThreadFollows ==
    ASSUME Typed, RowBehind, NEW from \in Name, NEW to \in Name, MoveThread(from, to), UNCHANGED row
    PROVE  RowBehind'
<1>1. PICK h \in [0 .. Len(notes) -> Name] : Follow(row, thread, notes, h)
  BY DEF RowBehind
<1> DEFINE note == [from |-> from, to |-> to]
           n == Len(notes)
           last == Moved(thread, from, to)
           more == [i \in 0 .. n + 1 |-> IF i = n + 1 THEN last ELSE h[i]]
<1>2. note \in Note /\ note.from = from /\ note.to = to /\ notes \in Seq(Note) /\ n \in Nat
      /\ last \in Name /\ thread \in Name
  BY DEF Note, Typed, Moved
<1>3. notes' = Append(notes, note) /\ thread' = last /\ row' = row
  BY DEF MoveThread, Moved
<1> HIDE DEF note, last
<1>4. Len(notes') = n + 1 /\ (\A i \in 1 .. n : notes'[i] = notes[i]) /\ notes'[n + 1] = note
  BY <1>2, <1>3
<1>5. /\ h[0] = row /\ h[n] = thread
      /\ \A i \in 1 .. n : h[i] = Moved(h[i - 1], notes[i].from, notes[i].to)
  BY <1>1 DEF Follow
<1> HIDE DEF n
<1>6. more \in [0 .. n + 1 -> Name]
  <2>1. \A i \in 0 .. n + 1 : i # n + 1 => i \in 0 .. n
    BY <1>2
  <2>2. \A i \in 0 .. n : h[i] \in Name
    BY <1>1 DEF n
  <2>3. QED BY <1>2, <2>1, <2>2
<1>7. /\ more[0] = row /\ more[n + 1] = last /\ more[n] = thread
      /\ \A i \in 0 .. n : more[i] = h[i]
  BY <1>2, <1>5
<1> HIDE DEF more
<1>8. \A i \in 1 .. n + 1 : more[i] = Moved(more[i - 1], notes'[i].from, notes'[i].to)
  <2>1. SUFFICES ASSUME NEW i \in 1 .. n + 1
                 PROVE  more[i] = Moved(more[i - 1], notes'[i].from, notes'[i].to)
    OBVIOUS
  <2>2. CASE i = n + 1
    <3>1. i - 1 = n /\ notes'[i] = note
      BY <1>2, <1>4, <2>2
    <3>2. QED BY <1>2, <1>7, <2>2, <3>1 DEF last
  <2>3. CASE i # n + 1
    <3>1. i \in 1 .. n /\ i \in 0 .. n /\ i - 1 \in 0 .. n
      BY <1>2, <2>3
    <3>2. more[i] = h[i] /\ more[i - 1] = h[i - 1] /\ notes'[i] = notes[i]
      BY <1>4, <1>7, <3>1
    <3>3. QED BY <1>5, <3>1, <3>2
  <2>4. QED BY <2>2, <2>3
<1>9. more \in [0 .. Len(notes') -> Name] /\ Follow(row', thread', notes', more)
  BY <1>3, <1>4, <1>6, <1>7, <1>8 DEF Follow
<1>10. QED BY <1>9 DEF RowBehind

LEMMA RenameThreadNames ==
    ASSUME NamesInv, Typed', RenameThread
    PROVE  NamesInv'
<1>1. Typed /\ OwnNames /\ Phase
  BY DEF NamesInv
<1>2. /\ asking.at = "thread" /\ MoveThread(asking.from, asking.to)
      /\ asking' = IF asking.back THEN Rest ELSE [asking EXCEPT !.at = "tell"]
      /\ UNCHANGED <<known, route, row, renaming, undo, called, dotenv, linked, down, up, renames>>
  BY DEF RenameThread, accessVars, boxVars, netVars, boundVars
<1>3. asking # Rest /\ asking \in [at : {"route", "thread", "tell"}, from : Name, to : Name, back : BOOLEAN]
  BY <1>1, <1>2 DEF Rest, Typed, Asked
<1>4. PICK from \in Name, to \in Name, back \in BOOLEAN : from = asking.from /\ to = asking.to /\ back = asking.back
  BY <1>3
<1>5. Asking /\ renames > 0
  BY <1>1, <1>3 DEF Phase, Idle, Waits, PutsBack
<1>6. \A b \in Box : SameNames(b)
  BY <1>2, NoFrames DEF SameNames, Fewer
<1>7. OwnNames'
  BY <1>1, <1>2, <1>6, LinksStay, OwnNamesKept
<1>8. Phase'
  <2>1. CASE back
    <3>1. asking' = Rest /\ Settled
      BY <1>2, <1>4, <1>5, <2>1 DEF Asking
    <3>2. Settled'
      BY <1>2, <1>6, <3>1, SettledKept
    <3>3. QED BY <1>2, <1>5, <3>1, <3>2 DEF Phase, Idle, Asking
  <2>2. CASE ~back
    <3>1. PICK f \in Box \ {Me} : After(f, from, to)
      BY <1>2, <1>4, <1>5, <2>2 DEF Asking
    <3>2. After(f, from, to)'
      BY <1>2, <1>6, <3>1, SettledKept
    <3>3. asking' # Rest /\ asking'.at = "tell" /\ asking'.from = from /\ asking'.to = to /\ ~asking'.back
      BY <1>2, <1>3, <1>4, <2>2 DEF Rest
    <3>4. Asking'
      BY <1>2, <1>5, <3>2, <3>3 DEF Asking
    <3>5. QED BY <1>2, <1>5, <3>4 DEF Phase
  <2>3. QED BY <2>1, <2>2
<1>9. RouteAhead'
  <2>1. undo = {} /\ route = Moved(thread, from, to)
    BY <1>2, <1>4, <1>5 DEF NamesInv, RouteAhead, Asking
  <2>2. route' = thread' /\ asking'.at # "thread" /\ undo' = {}
    BY <1>2, <1>3, <1>4, <2>1 DEF MoveThread, Moved, Rest
  <2>3. QED BY <2>2 DEF RouteAhead
<1>10. RowBehind'
  BY <1>1, <1>2, <1>4, ThreadFollows DEF NamesInv
<1>11. QED BY <1>7, <1>8, <1>9, <1>10 DEF NamesInv

(* The box is told, or everything goes back: it has gone offline. *)
LEMMA RenameTellNames ==
    ASSUME NamesInv, Typed', RenameTell
    PROVE  NamesInv'
<1>1. Typed /\ OwnNames /\ Phase
  BY DEF NamesInv
<1>2. /\ asking.at = "tell"
      /\ UNCHANGED <<known, route, row, thread, notes, undo, called, dotenv, linked, up, renames>>
  BY DEF RenameTell, accessVars, boxVars, boundVars
<1>3. asking # Rest /\ asking \in [at : {"route", "thread", "tell"}, from : Name, to : Name, back : BOOLEAN]
  BY <1>1, <1>2 DEF Rest, Typed, Asked
<1>4. PICK from \in Name, to \in Name : from = asking.from /\ to = asking.to
  BY <1>3
<1>5. Asking /\ renames > 0
  BY <1>1, <1>3 DEF Phase, Idle, Waits, PutsBack
<1>6. PICK f \in Box \ {Me} : After(f, from, to)
  BY <1>2, <1>3, <1>4, <1>5 DEF Asking
<1>7. RouteAhead'
  <2>1. undo = {} /\ route = thread
    BY <1>2, <1>5 DEF NamesInv, RouteAhead, Asking
  <2>2. asking'.at # "thread"
    BY DEF RenameTell, Rest
  <2>3. QED BY <1>2, <2>1, <2>2 DEF RouteAhead
<1>8. RowBehind'
  BY <1>2 DEF NamesInv, RowBehind, Follow
<1>9. CASE ~Reachable(from)
  <2>1. /\ asking' = [at |-> "route", from |-> to, to |-> from, back |-> TRUE]
        /\ UNCHANGED <<down, renaming>>
    BY <1>4, <1>9 DEF RenameTell
  <2>2. \A b \in Box : SameNames(b)
    BY <1>2, <2>1, NoFrames DEF SameNames, Fewer
  <2>3. OwnNames' /\ After(f, from, to)'
    BY <1>1, <1>2, <1>6, <2>2, LinksStay, OwnNamesKept, SettledKept
  <2>4. /\ asking' # Rest /\ asking'.at = "route" /\ asking'.from = to /\ asking'.to = from /\ asking'.back = TRUE
    BY <2>1 DEF Rest
  <2>5. Asking'
    BY <1>2, <1>5, <2>1, <2>3, <2>4 DEF Asking
  <2>6. QED BY <1>2, <1>5, <1>7, <1>8, <2>3, <2>5 DEF NamesInv, Phase
<1>10. CASE Reachable(from)
  <2>1. /\ Send(from, Rename(to)) /\ asking' = Rest
        /\ renaming' = [from |-> from, to |-> to]
    BY <1>4, <1>10 DEF RenameTell
  <2>2. Rename(to) \in AllFrames /\ \A n \in Name : Rename(to) = Rename(n) => n = to
    BY FrameKindsAre DEF Rename
  <2>3. /\ linked[from] \in Box /\ called[linked[from]] = from
        /\ down'[linked[from]] = down[linked[from]] \o <<Rename(to)>>
        /\ \A b \in Box \ {linked[from]} : down'[b] = down[b]
    <3>1. /\ linked[from] \in Box
          /\ down'[linked[from]] = down[linked[from]] \o <<Rename(to)>>
          /\ \A b \in Box \ {linked[from]} : down'[b] = down[b]
      BY <1>1, <1>10, <2>1, <2>2, SendTyped
    <3>2. called[linked[from]] = from
      BY <1>1, <1>10 DEF OwnNames, Linked, Reachable
    <3>3. QED BY <3>1, <3>2
  <2>4. /\ called[f] = from /\ to \in known /\ Nobodys(to)
        /\ \A b \in Box : Still(b) /\ (b # f => Seen(b))
    BY <1>6 DEF After
  <2>5. linked[from] = f
    BY <1>1, <2>3, <2>4 DEF OwnNames, Goes
  <2>6. \A b \in Box \ {f} : SameNames(b)
    BY <1>2, <2>3, <2>5, NoFrames DEF SameNames, Fewer
  <2>7. \A b \in Box \ {f} : Goes(b)' \subseteq Goes(b) /\ Still(b)' /\ Seen(b)' /\ from \notin Goes(b)
    <3>1. \A b \in Box \ {f} : from \notin Goes(b)
      BY <1>1, <2>4 DEF OwnNames, Goes
    <3>2. QED BY <1>2, <2>4, <2>6, <3>1, SameNamesKeep DEF Seen
  <2>8. down[f] \in Seq(AllFrames) /\ TellsIn(down[f]) = {} /\ dotenv[f] = from
    BY <1>1, <2>4 DEF Typed, Still, Tells
  <2>9. Once(TellsIn(down'[f])) /\ \A n \in Name : ToldIn(down'[f], n) => n = to
    <3>1. /\ Once(TellsIn(down[f] \o <<Rename(to)>>))
          /\ \A n \in Name : ToldIn(down[f] \o <<Rename(to)>>, n) => ToldIn(down[f], n) \/ Rename(to) = Rename(n)
      BY <2>2, <2>8, FrameSent
    <3>2. \A n \in Name : ~ToldIn(down[f], n)
      BY <2>8, FrameKindsAre DEF ToldIn, TellsIn
    <3>3. QED BY <2>2, <2>3, <2>5, <3>1, <3>2
  <2>10. Goes(f)' \subseteq {from, to}
    <3>1. Goes(f)' = {called'[f], dotenv'[f]} \cup {n \in Name : ToldIn(down'[f], n)}
      BY DEF Goes, ToldIn
    <3>2. QED BY <1>2, <2>4, <2>8, <2>9, <3>1
  <2>11. from # to /\ from \in Goes(f)
    BY <2>4 DEF Nobodys, Goes
  <2>12. OwnNames'
    <3>1. \A b \in Box \ {f} : Goes(b)' \cap {from, to} = {}
      BY <2>4, <2>7 DEF Nobodys
    <3>2. \A b, o \in Box : b # o => Goes(b)' \cap Goes(o)' = {}
      BY <1>1, <2>7, <2>10, <3>1 DEF OwnNames
    <3>3. Goes(Me)' = {Me} /\ Still(Me)'
      <4>1. called'[Me] \in Goes(Me)' /\ Goes(Me)' \subseteq Goes(Me)
        BY <2>6, NamesAre, SameNamesKeep
      <4>2. QED BY <1>1, <2>7, <4>1, NamesAre DEF OwnNames
    <3>4. LinksOwn'
      BY <1>1, <1>2, LinksStay
    <3>5. QED BY <3>2, <3>3, <3>4 DEF OwnNames, LinksOwn
  <2>13. Informed(f, from, to)'
    <3>1. \A b \in Box \ {f} : Still(b)' /\ Seen(b)' /\ to \notin Goes(b)' /\ from \notin Goes(b)'
      BY <2>4, <2>7 DEF Nobodys
    <3>2. Refusals(f)' = {}
      BY <1>2, <2>4 DEF Still, Refusals, RefusalsIn
    <3>3. Once(Tells(f))' /\ Once(Refusals(f))'
      <4>1. Tells(f)' = TellsIn(down'[f])
        BY DEF Tells, TellsIn
      <4>2. QED BY <2>9, <3>2, <4>1 DEF Once
    <3>4. called'[f] = from /\ dotenv'[f] = from /\ to \in known'
      BY <1>2, <2>4, <2>8
    <3>5. QED BY <2>10, <2>11, <3>1, <3>2, <3>3, <3>4 DEF Informed
  <2>14. Waits'
    <3>1. /\ asking' = Rest /\ renaming' # None /\ undo' = {} /\ renaming'.from = from /\ renaming'.to = to
      <4>1. [from |-> from, to |-> to] # None
        BY NameAssumption
      <4>2. QED BY <1>2, <1>5, <2>1, <4>1 DEF Asking
    <3>2. QED BY <2>13, <3>1 DEF Waits
  <2>15. QED BY <1>2, <1>5, <1>7, <1>8, <2>12, <2>14 DEF NamesInv, Phase
<1>11. QED BY <1>9, <1>10

(* The new name has connected: the box goes by it. *)
LEMMA RenameWaitedNames ==
    ASSUME NamesInv, Typed', RenameWaited
    PROVE  NamesInv'
<1>1. Typed /\ OwnNames /\ Phase
  BY DEF NamesInv
<1>2. /\ renaming # None /\ asking = Rest /\ linked[renaming.to] # None /\ renaming' = None
      /\ UNCHANGED <<known, route, row, thread, notes, asking, undo, called, dotenv, linked, down, up, renames>>
  BY DEF RenameWaited, accessVars, boxVars, netVars, boundVars
<1>3. Waits /\ renames > 0
  BY <1>1, <1>2 DEF Phase, Idle, Asking, PutsBack
<1>4. PICK from \in Name, to \in Name : from = renaming.from /\ to = renaming.to
  BY <1>1, <1>2 DEF Typed, Note
<1>5. PICK f \in Box \ {Me} : Informed(f, from, to)
  BY <1>3, <1>4 DEF Waits
<1>6. called[f] = to
  <2>1. linked[to] \in Box /\ called[linked[to]] = to
    BY <1>1, <1>2, <1>4 DEF OwnNames, Linked, Typed
  <2>2. linked[to] = f
    BY <1>5, <2>1 DEF Informed, Goes
  <2>3. QED BY <2>1, <2>2
<1>7. Settled
  BY <1>5, <1>6 DEF Informed, Settled, Seen
<1>8. \A b \in Box : SameNames(b)
  BY <1>2, NoFrames DEF SameNames, Fewer
<1>9. OwnNames' /\ Settled'
  BY <1>1, <1>2, <1>7, <1>8, LinksStay, OwnNamesKept, SettledKept
<1>10. Phase'
  BY <1>2, <1>3, <1>9 DEF Waits, Phase, Idle
<1>11. RouteAhead' /\ RowBehind'
  BY <1>2, RecordsKept DEF NamesInv, RecordsStay
<1>12. QED BY <1>9, <1>10, <1>11 DEF NamesInv

(* It is given up: no other rename follows. *)
LEMMA RenameTimesOutNames ==
    ASSUME Patient, NamesInv, Typed', RenameTimesOut
    PROVE  NamesInv'
<1>1. Typed /\ OwnNames /\ Phase
  BY DEF NamesInv
<1>2. /\ renaming # None /\ asking = Rest /\ renaming' = None /\ "slow" \in Faults
      /\ UNCHANGED <<known, route, row, thread, notes, asking, undo, called, dotenv, linked, down, up, renames>>
  BY DEF RenameTimesOut, Fault, accessVars, boxVars, netVars
<1>3. Waits /\ renames > 0
  BY <1>1, <1>2 DEF Phase, Idle, Asking, PutsBack
<1>4. renames >= MaxRenames
  BY <1>1, <1>2, <1>3, FleetBoundAssumption DEF Patient, Typed
<1>5. Phase'
  BY <1>2, <1>3, <1>4 DEF Phase, Idle, Waits
<1>6. \A b \in Box : SameNames(b)
  BY <1>2, NoFrames DEF SameNames, Fewer
<1>7. OwnNames'
  BY <1>1, <1>2, <1>6, LinksStay, OwnNamesKept
<1>8. RouteAhead' /\ RowBehind'
  BY <1>2, RecordsKept DEF NamesInv, RecordsStay
<1>9. QED BY <1>5, <1>7, <1>8 DEF NamesInv

LEMMA UndoRouteNames ==
    ASSUME NamesInv, Typed', NEW u \in undo, UndoRoute(u)
    PROVE  NamesInv'
<1>1. Typed /\ OwnNames /\ Phase /\ u \in Undone
  BY DEF NamesInv, Typed
<1>2. /\ u.at = "route" /\ MoveRoute(u.from, u.to) /\ undo' = (undo \ {u}) \cup {[u EXCEPT !.at = "thread"]}
      /\ UNCHANGED <<row, thread, notes, renaming, asking, called, dotenv, linked, down, up, renames>>
  BY DEF UndoRoute, boxVars, netVars, boundVars
<1>3. PutsBack /\ renames > 0 /\ undo = {u}
  BY <1>1 DEF Phase, Idle, Asking, Waits, PutsBack
<1>4. PICK v \in Undone : v = [u EXCEPT !.at = "thread"] /\ v.at = "thread" /\ v.from = u.from /\ v.to = u.to
  <2>1. [u EXCEPT !.at = "thread"] \in Undone
    BY <1>1 DEF Undone
  <2>2. [u EXCEPT !.at = "thread"].at = "thread" /\ [u EXCEPT !.at = "thread"].from = u.from /\ [u EXCEPT !.at = "thread"].to = u.to
    BY <1>1 DEF Undone
  <2>3. QED BY <2>1, <2>2
<1>5. undo' = {v}
  BY <1>2, <1>3, <1>4
<1>6. u.from \in Name /\ u.to \in Name
  BY <1>1 DEF Undone
<1>7. PICK f \in Box \ {Me} : After(f, u.to, u.from)
  BY <1>2, <1>3 DEF PutsBack
<1>8. OwnNames' /\ Settled'
  BY <1>2, <1>6, <1>7, MovedNames
<1>9. PutsBack'
  BY <1>2, <1>3, <1>4, <1>5, <1>8 DEF PutsBack
<1>10. RouteAhead'
  <2>1. asking = Rest /\ route = thread
    BY <1>2, <1>3 DEF NamesInv, RouteAhead, PutsBack, Rest
  <2>2. route' = Moved(thread, v.from, v.to)
    BY <1>2, <1>4, <2>1 DEF MoveRoute, Moved
  <2>3. QED BY <1>2, <1>4, <1>5, <2>1, <2>2 DEF RouteAhead, Rest
<1>11. RowBehind'
  BY <1>2 DEF NamesInv, RowBehind, Follow
<1>12. QED BY <1>2, <1>3, <1>8, <1>9, <1>10, <1>11 DEF NamesInv, Phase

LEMMA UndoThreadNames ==
    ASSUME NamesInv, Typed', NEW u \in undo, UndoThread(u)
    PROVE  NamesInv'
<1>1. Typed /\ OwnNames /\ Phase /\ u \in Undone
  BY DEF NamesInv, Typed
<1>2. /\ u.at = "thread" /\ MoveThread(u.from, u.to) /\ undo' = undo \ {u}
      /\ UNCHANGED <<known, route, row, renaming, asking, called, dotenv, linked, down, up, renames>>
  BY DEF UndoThread, accessVars, boxVars, netVars, boundVars
<1>3. PutsBack /\ renames > 0 /\ undo = {u}
  BY <1>1 DEF Phase, Idle, Asking, Waits, PutsBack
<1>4. undo' = {} /\ asking = Rest /\ renaming = None /\ Settled
  BY <1>2, <1>3 DEF PutsBack
<1>5. u.from \in Name /\ u.to \in Name
  BY <1>1 DEF Undone
<1>6. \A b \in Box : SameNames(b)
  BY <1>2, NoFrames DEF SameNames, Fewer
<1>7. OwnNames' /\ Settled'
  BY <1>1, <1>2, <1>4, <1>6, LinksStay, OwnNamesKept, SettledKept
<1>8. Phase'
  BY <1>2, <1>4, <1>7 DEF Phase, Idle
<1>9. RouteAhead'
  <2>1. route = Moved(thread, u.from, u.to)
    BY <1>2 DEF NamesInv, RouteAhead
  <2>2. route' = thread'
    BY <1>2, <2>1 DEF MoveThread, Moved
  <2>3. QED BY <1>2, <1>4, <2>2 DEF RouteAhead, Rest
<1>10. RowBehind'
  BY <1>1, <1>2, <1>5, ThreadFollows DEF NamesInv
<1>11. QED BY <1>7, <1>8, <1>9, <1>10 DEF NamesInv

(* threads.json takes one step after the gateway. *)
LEMMA TakeNoteNames ==
    ASSUME NamesInv, Typed', TakeNote
    PROVE  NamesInv'
<1>1. Typed /\ OwnNames /\ Phase
  BY DEF NamesInv
<1>2. /\ notes # <<>> /\ notes' = Tail(notes) /\ row' = Moved(row, Head(notes).from, Head(notes).to)
      /\ UNCHANGED <<known, route, thread, renaming, asking, undo, called, dotenv, linked, down, up, renames>>
  BY DEF TakeNote, accessVars, boxVars, netVars, boundVars, Moved
<1>3. \A b \in Box : SameNames(b)
  BY <1>2, NoFrames DEF SameNames, Fewer
<1>4. OwnNames' /\ Phase'
  BY <1>1, <1>2, <1>3, LinksStay, OwnNamesKept, PhaseKept
<1>5. RouteAhead'
  BY <1>2 DEF NamesInv, RouteAhead
<1>6. PICK h \in [0 .. Len(notes) -> Name] : Follow(row, thread, notes, h)
  BY DEF NamesInv, RowBehind
<1> DEFINE n == Len(notes)
           rest == [i \in 0 .. n - 1 |-> h[i + 1]]
<1>7. /\ n \in Nat \ {0} /\ Len(notes') = n - 1 /\ Head(notes) = notes[1]
      /\ \A i \in 1 .. n - 1 : notes'[i] = notes[i + 1]
  <2>1. notes \in Seq(Note)
    BY <1>1 DEF Typed
  <2>2. QED BY <1>2, <2>1
<1>8. /\ h[0] = row /\ h[n] = thread
      /\ \A i \in 1 .. n : h[i] = Moved(h[i - 1], notes[i].from, notes[i].to)
      /\ \A i \in 0 .. n : h[i] \in Name
  BY <1>6 DEF Follow
<1> HIDE DEF n
<1>9. rest \in [0 .. n - 1 -> Name] /\ \A i \in 0 .. n - 1 : rest[i] = h[i + 1]
  <2>1. \A i \in 0 .. n - 1 : i + 1 \in 0 .. n
    BY <1>7
  <2>2. QED BY <1>8, <2>1
<1> HIDE DEF rest
<1>10. rest[0] = row'
  <2>1. 1 \in 1 .. n /\ 0 \in 0 .. n - 1 /\ 0 + 1 = 1 /\ 1 - 1 = 0
    BY <1>7
  <2>2. h[1] = Moved(row, notes[1].from, notes[1].to)
    BY <1>8, <2>1
  <2>3. QED BY <1>2, <1>7, <1>9, <2>1, <2>2
<1>11. rest[n - 1] = thread
  <2>1. n - 1 \in 0 .. n - 1 /\ (n - 1) + 1 = n
    BY <1>7
  <2>2. QED BY <1>8, <1>9, <2>1
<1>12. \A i \in 1 .. n - 1 : rest[i] = Moved(rest[i - 1], notes'[i].from, notes'[i].to)
  <2>1. SUFFICES ASSUME NEW i \in 1 .. n - 1
                 PROVE  rest[i] = Moved(rest[i - 1], notes'[i].from, notes'[i].to)
    OBVIOUS
  <2>2. i \in 0 .. n - 1 /\ i - 1 \in 0 .. n - 1 /\ i + 1 \in 1 .. n /\ (i - 1) + 1 = i /\ (i + 1) - 1 = i
    BY <1>7
  <2>3. h[i + 1] = Moved(h[i], notes[i + 1].from, notes[i + 1].to)
    BY <1>8, <2>2
  <2>4. QED BY <1>7, <1>9, <2>2, <2>3
<1>13. rest \in [0 .. Len(notes') -> Name] /\ Follow(row', thread', notes', rest)
  BY <1>2, <1>7, <1>9, <1>10, <1>11, <1>12 DEF Follow
<1>14. RowBehind'
  BY <1>13 DEF RowBehind
<1>15. QED BY <1>4, <1>5, <1>14 DEF NamesInv

-----------------------------------------------------------------------------
\* The theorem

LEMMA NamesStep ==
    ASSUME Patient, NamesInv, [Next]_vars, [Orderly]_vars
    PROVE  NamesInv'
<1>1. Typed /\ OwnNames /\ Phase
  BY DEF NamesInv
<1>2. Typed'
  BY <1>1, TypedStep
<1>3. CASE UNCHANGED vars
  <2>1. UNCHANGED <<known, route, renameVars, called, dotenv, linked, down, up, renames>>
    BY <1>3 DEF vars, accessVars, boxVars, netVars, boundVars
  <2>2. \A b \in Box : SameNames(b)
    BY <2>1, NoFrames DEF SameNames, Fewer
  <2>3. QED BY <1>1, <1>2, <2>1, <2>2, LinksStay, StepKept DEF NamesStay, RecordsStay, renameVars
<1>4. CASE Next /\ Orderly
  <2>1. CASE (\E v \in Target, local \in BOOLEAN : BeginRollout(v, local)) \/ (\E p \in drafts : WriteRollout(p))
             \/ Driver \/ Clock \/ Sweep \/ (\E v \in builds : Age(v))
    BY <1>2, <2>1, RolloutNames
  <2>2. CASE \E from, to \in Name : RenameAsk(from, to)
    BY <1>2, <1>4, <2>2, RenameAskNames
  <2>3. CASE Renamer
    BY <1>2, <2>3, RenameRouteNames, RenameThreadNames, RenameTellNames, RenameWaitedNames DEF Renamer
  <2>4. CASE Undoing \/ TakeNote
    BY <1>2, <2>4, UndoRouteNames, UndoThreadNames, TakeNoteNames DEF Undoing
  <2>5. ASSUME NEW b \in Box, RestartBox(b), UNCHANGED renames PROVE NamesInv'
    <3>1. /\ Unlink(b) /\ b # Me /\ UNCHANGED <<renameVars, known, route, dotenv, renames>>
          /\ called' = [called EXCEPT ![b] = dotenv[b]]
      BY <2>5 DEF RestartBox, Reborn, accessVars
    <3>2. QED BY <1>2, <3>1, UnlinkedNames
  <2>6. ASSUME NEW b \in Box, Machine(b) PROVE NamesInv'
    <3>1. CASE Restart(b)
      BY <1>4, <2>5, <3>1 DEF Restart, Orderly, boundVars
    <3>2. QED BY <1>2, <2>6, <3>1, BoxHearsNames, GatewayHearsNames, DialNames, JobEndsNames DEF Machine
  <2>7. ASSUME NEW b \in Box, Cut(b) PROVE NamesInv'
    <3>1. Unlink(b) /\ b # Me /\ UNCHANGED <<renameVars, known, route, dotenv, called, renames>>
      BY <2>7 DEF Cut, Fault, accessVars, boxVars
    <3>2. QED BY <1>2, <3>1, UnlinkedNames
  <2>8. ASSUME NEW b \in Box, BoxDown(b) PROVE NamesInv'
    BY <2>5, <2>8 DEF BoxDown, Fault
  <2>9. CASE RenameTimesOut
    BY <1>2, <2>9, RenameTimesOutNames
  <2>10. ~GatewayDown
    BY <1>4 DEF GatewayDown, Orderly
  <2>11. QED BY <1>4, <2>1, <2>2, <2>3, <2>4, <2>6, <2>7, <2>8, <2>9, <2>10 DEF Next
<1>5. QED BY <1>3, <1>4

LEMMA NamesInit ==
    ASSUME Patient, Init
    PROVE  NamesInv
<1>1. Typed
  BY TypedInit
<1>2. \A b \in Box : /\ called[b] = b /\ dotenv[b] = b /\ Tells(b) = {} /\ Refusals(b) = {}
                     /\ \A n \in Name : ~ToldIn(down[b], n)
  BY NoFrames DEF Init, Tells, Refusals, ToldIn
<1>3. \A b \in Box : Goes(b) = {b} /\ Still(b)
  BY <1>2 DEF Goes, Still
<1>4. \A n \in Name : linked[n] = IF n = Me THEN Me ELSE None
  BY DEF Init
<1>5. OwnNames
  BY <1>2, <1>3, <1>4, NamesAre DEF OwnNames, Linked
<1>6. Settled
  BY <1>2, <1>3 DEF Settled, Seen, Init, Patient
<1>7. Phase
  BY <1>6 DEF Phase, Idle, Init
<1>8. RouteAhead
  BY DEF RouteAhead, Init, Rest
<1>9. RowBehind
  <2> DEFINE h == [i \in 0 .. 0 |-> row]
  <2>1. Len(notes) = 0 /\ row = thread /\ row \in Name
    BY NamesAre DEF Init
  <2>2. h \in [0 .. 0 -> Name] /\ h[0] = row
    BY <2>1
  <2>3. \A i \in 1 .. 0 : FALSE
    OBVIOUS
  <2> HIDE DEF h
  <2>4. h \in [0 .. Len(notes) -> Name] /\ Follow(row, thread, notes, h)
    BY <2>1, <2>2, <2>3 DEF Follow
  <2>5. QED BY <2>4 DEF RowBehind
<1>10. QED BY <1>1, <1>5, <1>7, <1>8, <1>9 DEF NamesInv

LEMMA NamesAreOne == NamesInv => OneName
<1> SUFFICES ASSUME NamesInv PROVE OneName
  OBVIOUS
<1>1. TypeOK
  BY TypedIsTypeOK DEF NamesInv
<1>2. RecordsTogether
  <2>1. SUFFICES ASSUME asking = Rest, undo = {}, notes = <<>> PROVE route = thread /\ thread = row
    BY DEF RecordsTogether, Quiet
  <2>2. route = thread
    BY <2>1 DEF NamesInv, RouteAhead, Rest
  <2>3. PICK h \in [0 .. Len(notes) -> Name] : Follow(row, thread, notes, h)
    BY DEF NamesInv, RowBehind
  <2>4. Len(notes) = 0
    BY <2>1
  <2>5. QED BY <2>2, <2>3, <2>4 DEF Follow
<1>3. NoNameTwice
  BY DEF NamesInv, OwnNames, NoNameTwice, Goes
<1>4. QED BY <1>1, <1>2, <1>3 DEF OneName

(* However many machines are renamed, one after the other, with links cut, *)
(* machines restarted, renames refused and updates under way: two machines *)
(* never go by one name, and the channel, the thread and threads.json come *)
(* to rest under one.                                                      *)
THEOREM OneNameAlways ==
    ASSUME Patient
    PROVE  Spec /\ [][Orderly]_vars => []OneName
<1>1. Init => NamesInv
  BY NamesInit
<1>2. NamesInv /\ [Next]_vars /\ [Orderly]_vars => NamesInv'
  BY NamesStep
<1>3. NamesInv => OneName
  BY NamesAreOne
<1>4. QED BY <1>1, <1>2, <1>3, PTL DEF Spec
=============================================================================
