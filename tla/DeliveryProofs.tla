--------------------------- MODULE DeliveryProofs ---------------------------
(***************************************************************************)
(* Theorems about Delivery for every set of messages, windows and tasks.   *)
(* Three hold whatever the environment does: TypeCorrect,                  *)
(* LatchIsAnsweredFor and ReportsTakeTheTyped.  The others name the moves  *)
(* they exclude: TypistIsAlone, RestartCostsNothing (Calm),                *)
(* HeldTillAnswered (Quiet).                                               *)
(***************************************************************************)
EXTENDS Delivery, TLAPS

USE MsgAssumption, TsAssumption, BoundAssumption

-----------------------------------------------------------------------------
(* What the helpers of Delivery return.                                    *)

LEMMA TargetFacts == 0 \in Target /\ Window \subseteq Target /\ Target \subseteq Nat
  BY DEF Window, Target

LEMMA NamedType == Named \in Target
  <1>1. CASE \E w \in Window : Oldest(w)
    <2>1. (CHOOSE w \in Window : Oldest(w)) \in Window
      BY <1>1
    <2> QED BY <1>1, <2>1, TargetFacts DEF Named
  <1>2. CASE ~ \E w \in Window : Oldest(w)
    BY <1>2, TargetFacts DEF Named
  <1> QED BY <1>1, <1>2

LEMMA FreeType ==
  ASSUME NEW T, Free(T) # {}
  PROVE  (CHOOSE i \in Free(T) : TRUE) \in TaskId
  BY DEF Free

LEMMA WindowForType ==
  ASSUME TypeOK
  PROVE  Window_for \in Target
  BY NamedType DEF Window_for, TypeOK, SeatOK

\* A started delivery latches its window for a task that carries the message
LEMMA StartType ==
  ASSUME NEW w \in Target, NEW q \in SUBSET Msg, NEW T \in SUBSET Task,
         NEW l \in [Target -> Msg \cup {NoMsg}], NEW tr,
         StartDelivery(w, q, l, tr, T)
  PROVE  latch' \in [Target -> Msg \cup {NoMsg}] /\ tasks' \subseteq Task
  <1>1. CASE Startable(w, q, l, tr, T)
    <2>1. (CHOOSE i \in Free(T) : TRUE) \in TaskId
      BY <1>1, FreeType DEF Startable
    <2>2. PICK m \in q, i \in TaskId :
            /\ latch' = [l EXCEPT ![w] = m]
            /\ tasks' = T \cup {[id |-> i, win |-> w, msg |-> m, at |-> "running"]}
      BY <1>1, <2>1 DEF StartDelivery
    <2>3. latch' \in [Target -> Msg \cup {NoMsg}]
      BY <2>2
    <2>4. [id |-> i, win |-> w, msg |-> m, at |-> "running"] \in Task
      BY <2>2 DEF Task
    <2> QED BY <2>2, <2>3, <2>4
  <1>2. CASE ~Startable(w, q, l, tr, T)
    BY <1>2 DEF StartDelivery
  <1> QED BY <1>1, <1>2

LEMMA GiveType ==
  ASSUME NEW M, Give(M), given \in [Msg -> 0 .. 2]
  PROVE  given' \in [Msg -> 0 .. 2]
  BY DEF Give

LEMMA TypeType ==
  ASSUME NEW M \in SUBSET Msg, NEW w \in Window, Type(M, w), AgentOK
  PROVE  box' \in [Window -> SUBSET Msg] /\ given' \in [Msg -> 0 .. 2]
  BY GiveType DEF Type, AgentOK

LEMMA TsType == \A m \in Msg : TsOf[m] \in Id
  BY TsAssumption

LEMMA TrackType ==
  ASSUME MarksOK, NEW i \in Id, Track(i)
  PROVE  MarksOK'
  BY DEF Track, MarksOK

LEMMA DisposeType ==
  ASSUME MarksOK, NEW S, Dispose(S)
  PROVE  MarksOK'
  BY DEF Dispose, MarksOK

-----------------------------------------------------------------------------
(* Type correctness, one lemma per group of actions.                       *)

USE DEF vars, memory, disk, agent, world, marks, seat, latches, boot

LEMMA InitType == Init => TypeOK
  <1> SUFFICES ASSUME Init PROVE TypeOK
    OBVIOUS
  <1> USE DEF Init
  <1>1. QueueOK
    BY DEF QueueOK
  <1>2. MarksOK /\ SeatOK /\ WireOK
    BY TargetFacts DEF MarksOK, SeatOK, WireOK
  <1>3. AgentOK
    <2>1. given \in [Msg -> 0 .. 2]
      OBVIOUS
    <2>2. prompt \in [Window -> Msg \cup {NoMsg}]
      OBVIOUS
    <2> QED BY <2>1, <2>2 DEF AgentOK
  <1>4. BootOK
    BY DEF BootOK
  <1> QED BY <1>1, <1>2, <1>3, <1>4 DEF TypeOK

LEMMA ServeType ==
  ASSUME TypeOK, NEW m \in Msg, Serve(m)
  PROVE  QueueOK' /\ MarksOK' /\ SeatOK' /\ AgentOK' /\ hooks' \subseteq Hook
  <1> USE DEF TypeOK
  <1>0. hooks \subseteq Hook
    BY DEF WireOK
  <1>1. CASE MissingFolder(m)
    BY <1>0, <1>1, DisposeType DEF MissingFolder, QueueOK, SeatOK, AgentOK
  <1>2. CASE NoAgentFiles(m)
    <2>1. MarksOK' /\ QueueOK' /\ hooks' \subseteq Hook
      BY <1>0, <1>2, TrackType, TsType DEF NoAgentFiles, QueueOK, Of
    <2>2. SeatOK'
      BY <1>2, TargetFacts DEF NoAgentFiles, SeatOK, Of
    <2>3. Of(proc, Abandoned) \in [Window -> {"none", "boot", "run", "gone"}]
      BY DEF Of, Abandoned, AgentOK
    <2>4. AgentOK'
      BY <1>2, <2>3 DEF NoAgentFiles, AgentOK, Of
    <2> QED BY <2>1, <2>2, <2>4
  <1>3. CASE SpawnFails(m)
    BY <1>0, <1>3, DisposeType DEF SpawnFails, NeverStarted, QueueOK, SeatOK, AgentOK
  <1>4. CASE Spawn(m)
    <2>1. MarksOK' /\ QueueOK' /\ hooks' \subseteq Hook
      BY <1>0, <1>4, TrackType, TsType DEF Spawn, QueueOK, Of
    <2>2. SeatOK'
      BY <1>4, TargetFacts DEF Spawn, SeatOK, Of
    <2>3. Of(proc, Abandoned) \in [Window -> {"none", "boot", "run", "gone"}]
      BY DEF Of, Abandoned, AgentOK
    <2>4. /\ proc' \in [Window -> {"none", "boot", "run", "gone"}]
          /\ prompt' \in [Window -> Msg \cup {NoMsg}]
      BY <1>4, <2>3 DEF Spawn, AgentOK
    <2>5. hist' \in BOOLEAN
      BY <1>4 DEF Spawn, AgentOK, Of
    <2>6. AgentOK'
      BY <1>4, <2>4, <2>5, GiveType DEF Spawn, AgentOK
    <2> QED BY <2>1, <2>2, <2>6
  <1>5. CASE Deliver(m)
    <2>1. MarksOK' /\ SeatOK' /\ AgentOK' /\ hooks' \subseteq Hook
      BY <1>0, <1>5, TrackType, TsType DEF Deliver, SeatOK, AgentOK
    <2>2. queue' \in SUBSET Msg
      BY <1>5 DEF Deliver, QueueOK
    <2>3. latch' \in [Target -> Msg \cup {NoMsg}] /\ tasks' \subseteq Task
      BY <1>5, <2>2, StartType, WindowForType DEF Deliver, QueueOK
    <2> QED BY <1>5, <2>1, <2>2, <2>3 DEF Deliver, QueueOK
  <1>6. CASE Enqueue(m)
    BY <1>0, <1>6, TrackType, TsType DEF Enqueue, QueueOK, SeatOK, AgentOK
  <1> QED BY <1>1, <1>2, <1>3, <1>4, <1>5, <1>6 DEF Serve

LEMMA ArriveType ==
  ASSUME TypeOK, NEW m \in Msg, Arrive(m) \/ ResumeNext(m)
  PROVE  TypeOK'
  <1>1. Serve(m)
    BY DEF Arrive, ResumeNext
  <1>2. QueueOK' /\ MarksOK' /\ SeatOK' /\ AgentOK' /\ hooks' \subseteq Hook
    BY <1>1, ServeType
  <1>3. BootOK' /\ WireOK'
    BY <1>2 DEF Arrive, ResumeNext, Outlived, TypeOK, BootOK, WireOK
  <1> QED BY <1>2, <1>3 DEF TypeOK

\* The handlers that settle or re-track requests and change nothing else
LEMMA SettleType ==
  ASSUME TypeOK,
         \/ UserStop
         \/ \E m \in Msg : OnEdited(m) \/ OnDeleted(m)
         \/ \E i \in Id : WarnUnreceived(i)
         \/ ScanTranscripts
         \/ \E S \in dispo : OnDisposition(S)
  PROVE  TypeOK'
  <1> USE DEF TypeOK, SeatOK, AgentOK, BootOK, WireOK
  <1>1. CASE UserStop
    BY <1>1, DisposeType DEF UserStop, QueueOK
  <1>2. ASSUME NEW m \in Msg, OnEdited(m)
        PROVE  TypeOK'
    BY <1>2, TsType DEF OnEdited, QueueOK, MarksOK
  <1>3. ASSUME NEW m \in Msg, OnDeleted(m)
        PROVE  TypeOK'
    BY <1>3, DisposeType DEF OnDeleted, QueueOK
  <1>4. ASSUME NEW i \in Id, WarnUnreceived(i)
        PROVE  TypeOK'
    BY <1>4, DisposeType DEF WarnUnreceived, QueueOK
  <1>5. CASE ScanTranscripts
    BY <1>5 DEF ScanTranscripts, QueueOK, MarksOK
  <1>6. ASSUME NEW S \in dispo, OnDisposition(S)
        PROVE  TypeOK'
    BY <1>6, DisposeType DEF OnDisposition, QueueOK
  <1> QED BY <1>1, <1>2, <1>3, <1>4, <1>5, <1>6

LEMMA DoneType ==
  ASSUME TypeOK, NEW t \in tasks, OnDeliveryDone(t)
  PROVE  TypeOK'
  <1> USE DEF TypeOK, Reported
  <1>1. t.win \in Target /\ TsOf[t.msg] \in Id
    BY TsType DEF QueueOK, Task
  <1>2. Unlatched(t.win) \in [Target -> Msg \cup {NoMsg}]
    BY <1>1 DEF Unlatched, QueueOK
  <1>3. /\ overdue' \subseteq Target
        /\ MarksOK' /\ SeatOK' /\ AgentOK' /\ BootOK' /\ WireOK'
    BY ZenonT(40) DEF OnDeliveryDone, Done, NotDone, QueueOK, MarksOK, SeatOK, AgentOK, BootOK,
           WireOK
  <1>4. CASE Done(t)
    <2>1. queue' \in SUBSET Msg
      BY <1>4 DEF Done, QueueOK
    <2>2. (tasks \ {t}) \in SUBSET Task
      BY DEF QueueOK
    <2>3. latch' \in [Target -> Msg \cup {NoMsg}] /\ tasks' \subseteq Task
      BY <1>1, <1>2, <1>4, <2>1, <2>2, StartType DEF Done
    <2>4. /\ trouble' \in [Target -> {"none", "wait", "over"}]
          /\ receipt' \in [Id -> {"none", "wait", "due"}]
      BY <1>4 DEF Done, QueueOK
    <2> QED BY <1>3, <2>1, <2>3, <2>4 DEF QueueOK
  <1>5. CASE NotDone(t)
    BY <1>2, <1>3, <1>5 DEF NotDone, QueueOK
  <1> QED BY <1>4, <1>5 DEF OnDeliveryDone

\* Delivery tasks
LEMMA TaskStepType ==
  ASSUME TypeOK, NEW t \in tasks, TaskRefused(t) \/ TaskTypes(t) \/ TaskReturns(t)
  PROVE  TypeOK'
  <1> USE DEF TypeOK, MarksOK, SeatOK, BootOK, WireOK
  <1>1. t \in Task
    BY DEF QueueOK
  <1>2. \A r \in {"running", "typed", "ok", "err"} : [t EXCEPT !.at = r] \in Task
    BY <1>1 DEF Task
  <1>3. CASE TaskRefused(t)
    BY <1>2, <1>3 DEF TaskRefused, QueueOK, AgentOK
  <1>4. CASE TaskTypes(t)
    <2>1. {t.msg} \in SUBSET Msg /\ t.win \in Window
      BY <1>1, <1>4 DEF Task, TaskTypes, TakesKeys
    <2>2. box' \in [Window -> SUBSET Msg] /\ given' \in [Msg -> 0 .. 2]
      BY <1>4, <2>1, TypeType DEF TaskTypes
    <2> QED BY <1>2, <1>4, <2>2 DEF TaskTypes, QueueOK, AgentOK
  <1>5. CASE TaskReturns(t)
    BY <1>2, <1>5 DEF TaskReturns, QueueOK, AgentOK
  <1> QED BY <1>3, <1>4, <1>5

\* Time passing, and the parts of the tick that look at the latches
LEMMA TickType ==
  ASSUME TypeOK,
         \/ \E w \in Target : TroubleOver(w) \/ Stalls(w) \/ GiveUpStuck(w)
         \/ \E i \in Id : ReceiptDue(i)
         \/ \E w \in Window : WatchOver(w)
         \/ DrainDeadline \/ RetryPending \/ SaveLedger
  PROVE  TypeOK'
  <1> USE DEF TypeOK, MarksOK, AgentOK, WireOK
  <1>1. ASSUME NEW w \in Target, TroubleOver(w) \/ Stalls(w) \/ GiveUpStuck(w)
        PROVE  TypeOK'
    BY <1>1, ZenonT(40) DEF TroubleOver, Stalls, GiveUpStuck, QueueOK, SeatOK, BootOK
  <1>2. ASSUME NEW i \in Id, ReceiptDue(i)
        PROVE  TypeOK'
    BY <1>2 DEF ReceiptDue, QueueOK, SeatOK, BootOK
  <1>3. ASSUME NEW w \in Window, WatchOver(w)
        PROVE  TypeOK'
    BY <1>3 DEF WatchOver, QueueOK, SeatOK, BootOK
  <1>4. CASE DrainDeadline
    BY <1>4 DEF DrainDeadline, QueueOK, SeatOK, BootOK
  <1>5. CASE RetryPending
    <2>1. latch' \in [Target -> Msg \cup {NoMsg}] /\ tasks' \subseteq Task
      BY <1>5, StartType, WindowForType DEF RetryPending, QueueOK
    <2> QED BY <1>5, <2>1 DEF RetryPending, QueueOK, SeatOK, BootOK
  <1>6. CASE SaveLedger
    BY <1>6 DEF SaveLedger, QueueOK, SeatOK, BootOK
  <1> QED BY <1>1, <1>2, <1>3, <1>4, <1>5, <1>6

LEMMA SendType ==
  ASSUME WireOK, NEW kind, NEW w \in Window, Send(kind, w),
         kind \in {"session_start", "session_end", "user_prompt", "error"}
  PROVE  hooks' \subseteq Hook
  BY DEF Send, WireOK, Hook

\* The agent's own steps
LEMMA AgentStepType ==
  ASSUME TypeOK, NEW w \in Window,
         \/ AgentUp(w) \/ ReadPrompt(w) \/ AgentEnds(w) \/ TurnFails(w)
         \/ \E m \in Msg : TakeIn(w, m) \/ Swallow(w, m) \/ Answer(w, m)
  PROVE  TypeOK'
  <1> USE DEF TypeOK, QueueOK, MarksOK, SeatOK, BootOK
  <1>1. CASE AgentUp(w)
    BY <1>1, SendType DEF AgentUp, AgentOK, WireOK
  <1>2. CASE ReadPrompt(w)
    <2>1. prompt[w] \in Msg
      BY <1>2 DEF ReadPrompt, AgentOK
    <2>2. AgentOK'
      BY <1>2, <2>1 DEF ReadPrompt, AgentOK
    <2>3. WireOK'
      BY <1>2, SendType DEF ReadPrompt, WireOK
    <2> QED BY <1>2, <2>2, <2>3 DEF ReadPrompt
  <1>3. CASE AgentEnds(w)
    <2>1. AgentOK'
      BY <1>3 DEF AgentEnds, AgentOK
    <2>2. WireOK'
      BY <1>3, SendType DEF AgentEnds, WireOK
    <2> QED BY <1>3, <2>1, <2>2 DEF AgentEnds
  <1>4. CASE TurnFails(w)
    BY <1>4, SendType DEF TurnFails, AgentOK, WireOK
  <1>5. ASSUME NEW m \in Msg, TakeIn(w, m)
        PROVE  TypeOK'
    <2>1. AgentOK'
      BY <1>5 DEF TakeIn, AgentOK
    <2>2. WireOK'
      BY <1>5, SendType DEF TakeIn, WireOK
    <2> QED BY <1>5, <2>1, <2>2 DEF TakeIn
  <1>6. ASSUME NEW m \in Msg, Swallow(w, m)
        PROVE  TypeOK'
    BY <1>6 DEF Swallow, AgentOK, WireOK
  <1>7. ASSUME NEW m \in Msg, Answer(w, m)
        PROVE  TypeOK'
    BY <1>7, TsType DEF Answer, AgentOK, WireOK
  <1> QED BY <1>1, <1>2, <1>3, <1>4, <1>5, <1>6, <1>7

\* Hooks taken by the loop, and the start-up screen watch
LEMMA HookType ==
  ASSUME TypeOK, NEW w \in Window,
         \/ OnSessionStart(w) \/ OnSessionEnd(w) \/ OnUserPrompt(w)
         \/ OnTurnFailure(w) \/ OnSpawnExited(w)
  PROVE  TypeOK'
  <1> USE DEF TypeOK, Take, BootOK, WireOK
  <1>1. CASE OnSessionStart(w) \/ OnSessionEnd(w)
    BY <1>1, ZenonT(40) DEF OnSessionStart, OnSessionEnd, QueueOK, MarksOK, SeatOK, AgentOK
  <1>2. CASE OnUserPrompt(w)
    <2>1. latch' \in [Target -> Msg \cup {NoMsg}] /\ tasks' \subseteq Task
      BY <1>2, StartType, WindowForType DEF OnUserPrompt, QueueOK
    <2>2. QueueOK' /\ MarksOK'
      BY <1>2, <2>1 DEF OnUserPrompt, QueueOK, MarksOK
    <2> QED BY <1>2, <2>2 DEF OnUserPrompt, SeatOK, AgentOK
  <1>3. CASE OnTurnFailure(w)
    <2>1. MarksOK' /\ (UNCHANGED <<given, box>>
                       \/ \E M \in SUBSET Msg : Type(M, Window_for) /\ TakesKeys(Window_for))
      <3>1. CASE TurnFailureTold \/ TurnFailureSpent
        BY <3>1, DisposeType DEF TurnFailureTold, TurnFailureSpent
      <3>2. CASE TurnFailureKept \/ UNCHANGED <<marks, given, box>>
        BY <3>2 DEF TurnFailureKept, MarksOK
      <3>3. CASE TurnFailureResent
        BY <3>3 DEF TurnFailureResent, MarksOK
      <3> QED BY <1>3, <3>1, <3>2, <3>3 DEF OnTurnFailure
    <2>2. box' \in [Window -> SUBSET Msg] /\ given' \in [Msg -> 0 .. 2]
      BY <2>1, TypeType DEF TakesKeys, AgentOK
    <2> QED BY <1>3, <2>1, <2>2 DEF OnTurnFailure, QueueOK, SeatOK, AgentOK
  <1>4. CASE OnSpawnExited(w)
    <2>1. MarksOK'
      BY <1>4, DisposeType DEF OnSpawnExited, NeverStarted, MarksOK
    <2> QED BY <1>4, <2>1 DEF OnSpawnExited, NeverStarted, QueueOK, SeatOK, AgentOK
  <1> QED BY <1>1, <1>2, <1>3, <1>4

\* Ending the agent, going down, coming back
LEMMA KillType ==
  ASSUME AgentOK, NEW W, Kill(W)
  PROVE  /\ proc' \in [Window -> {"none", "boot", "run", "gone"}]
         /\ box' \in [Window -> SUBSET Msg]
  BY DEF Kill, AgentOK

LEMMA GoDownType ==
  ASSUME TypeOK, GoDown
  PROVE  QueueOK' /\ MarksOK' /\ SeatOK' /\ WireOK' /\ up' \in BOOLEAN
         /\ resume' \subseteq Msg /\ seen' \subseteq Msg
         /\ drain' \in {"none", "wait", "due", "stale"}
  <1> USE DEF GoDown, TypeOK
  <1>1. QueueOK'
    BY DEF QueueOK
  <1>2. MarksOK' /\ SeatOK' /\ WireOK'
    BY TargetFacts DEF MarksOK, SeatOK, WireOK
  <1> QED BY <1>1, <1>2

LEMMA FoundType ==
  ASSUME TypeOK
  PROVE  Found \in Target /\ (Found # 0 => Found \in Window)
  <1>1. \A w \in Target : w # 0 => w \in Window
    BY DEF Target, Window
  <1> QED BY <1>1, NamedType, TargetFacts DEF Found

LEMMA TerminateType ==
  ASSUME TypeOK, NEW named, Terminate(named)
  PROVE  /\ MarksOK' /\ queue' \subseteq Msg /\ hooks' \subseteq Hook
         /\ starting' \in BOOLEAN /\ ended' \in BOOLEAN /\ bound' \in Target
         /\ proc' \in [Window -> {"none", "boot", "run", "gone"}]
         /\ box' \in [Window -> SUBSET Msg]
  <1> USE DEF Terminate, TypeOK
  <1>1. MarksOK' /\ queue' \subseteq Msg
    BY DisposeType
  <1>2. CASE named
    BY <1>1, <1>2, KillType, FoundType, SendType, TargetFacts DEF WireOK
  <1>3. CASE ~named
    BY <1>1, <1>3 DEF WireOK, SeatOK, AgentOK
  <1> QED BY <1>2, <1>3

LEMMA LifeType ==
  ASSUME TypeOK, RunDrain \/ RequestExit \/ OnRootDeleted \/ Restart \/ Shutdown \/ Crash \/ Boot
  PROVE  TypeOK'
  <1> USE DEF TypeOK
  <1>1. CASE RunDrain
    <2>1. Terminate(drain # "stale")
      BY <1>1 DEF RunDrain
    <2> QED BY <1>1, <2>1, TerminateType
            DEF RunDrain, QueueOK, SeatOK, AgentOK, BootOK, WireOK
  <1>4. CASE RequestExit
    <2>1. CASE Terminate(FALSE) /\ UNCHANGED drain
      BY <1>4, <2>1, TerminateType
         DEF RequestExit, QueueOK, SeatOK, AgentOK, BootOK, WireOK
    <2>2. CASE UNCHANGED <<queue, marks, starting, ended, bound, proc, box, hooks>>
      BY <1>4, <2>2
         DEF RequestExit, QueueOK, MarksOK, SeatOK, AgentOK, BootOK, WireOK, marks
    <2> QED BY <1>4, <2>1, <2>2 DEF RequestExit
  <1>5. CASE OnRootDeleted
    <2>1. Terminate(session)
      BY <1>5 DEF OnRootDeleted
    <2> QED BY <1>5, <2>1, TerminateType
            DEF OnRootDeleted, QueueOK, SeatOK, AgentOK, BootOK, WireOK
  <1>2. CASE Restart \/ Shutdown \/ Crash
    <2>1. GoDown
      BY <1>2 DEF Restart, Shutdown, Crash
    <2>2. AgentOK'
      BY <1>2, KillType DEF Restart, Shutdown, Crash, GoDown, AgentOK
    <2>3. /\ saved' \in [ledger : SUBSET Id, received : SUBSET Id, spent : SUBSET Id]
          /\ saved'.received \subseteq saved'.ledger /\ saved'.spent \subseteq saved'.ledger
          /\ parked' \subseteq Msg
      <3>1. CASE SaveAll
        BY <3>1 DEF SaveAll, MarksOK, QueueOK, BootOK
      <3>2. CASE UNCHANGED <<saved, parked>>
        BY <3>2 DEF BootOK
      <3> QED BY <1>2, <3>1, <3>2 DEF Restart, Shutdown, Crash
    <2>4. BootOK'
      BY <2>1, <2>3, GoDownType DEF BootOK
    <2> QED BY <2>1, <2>2, <2>4, GoDownType
  <1>3. CASE Boot
    <2>1. QueueOK' /\ AgentOK' /\ WireOK'
      BY <1>3 DEF Boot, QueueOK, AgentOK, WireOK
    <2>2. MarksOK' /\ SeatOK'
      BY <1>3 DEF Boot, MarksOK, SeatOK, BootOK
    <2>3. BootOK'
      BY <1>3 DEF Boot, BootOK
    <2> QED BY <2>1, <2>2, <2>3
  <1> QED BY <1>1, <1>2, <1>3, <1>4, <1>5

LEMMA StutterType ==
  ASSUME TypeOK, UNCHANGED vars
  PROVE  TypeOK'
  BY DEF TypeOK, QueueOK, MarksOK, SeatOK, AgentOK, BootOK, WireOK

LEMMA StepType ==
  ASSUME TypeOK, [Next]_vars
  PROVE  TypeOK'
  <1>1. CASE BridgeStep
    BY <1>1, ArriveType, SettleType, DoneType, TickType, HookType, LifeType DEF BridgeStep
  <1>2. CASE TaskStep
    BY <1>2, TaskStepType DEF TaskStep
  <1>3. CASE AgentStep
    BY <1>3, AgentStepType DEF AgentStep
  <1>4. CASE TimeStep
    BY <1>4, TickType, LifeType DEF TimeStep
  <1>5. CASE UNCHANGED vars
    BY <1>5, StutterType
  <1> QED BY <1>1, <1>2, <1>3, <1>4, <1>5 DEF Next

\* In every reachable state every variable has its type, and the receipt and
\* re-send marks belong to entries of the ledger, in memory and as saved
\* (Ledger::disposed drops them with the entry).
THEOREM TypeCorrect == Spec => []TypeOK
  BY InitType, StepType, PTL DEF Spec

-----------------------------------------------------------------------------
(* The latch and the tasks.                                                *)

Running(i, w, m) == [id |-> i, win |-> w, msg |-> m, at |-> "running"]

\* What StartDelivery does, without its CHOOSE: one new task in a free window, or
\* nothing
LEMMA StartCases ==
  ASSUME NEW w, NEW q \in SUBSET Msg, NEW l, NEW tr, NEW T,
         StartDelivery(w, q, l, tr, T)
  PROVE  \/ latch' = l /\ tasks' = T
         \/ \E m \in Msg, i \in TaskId :
              /\ l[w] = NoMsg
              /\ latch' = [l EXCEPT ![w] = m]
              /\ tasks' = T \cup {Running(i, w, m)}
  <1>1. CASE Startable(w, q, l, tr, T)
    <2>1. (CHOOSE i \in Free(T) : TRUE) \in TaskId
      BY <1>1, FreeType DEF Startable
    <2> QED BY <1>1, <2>1 DEF StartDelivery, Startable, Running
  <1>2. CASE ~Startable(w, q, l, tr, T)
    BY <1>2 DEF StartDelivery
  <1> QED BY <1>1, <1>2

\* The steps that touch latches, stall marks or tasks, and how
LEMMA DeliverySteps ==
  ASSUME TypeOK, [Next]_vars
  PROVE  \/ UNCHANGED <<latch, overdue, tasks>>
         \/ /\ UNCHANGED overdue
            /\ \E q \in SUBSET Msg : StartDelivery(Window_for, q, latch, trouble, tasks)
         \/ \E t \in tasks : OnDeliveryDone(t)
         \/ \E t \in tasks : TaskRefused(t) \/ TaskTypes(t) \/ TaskReturns(t)
         \/ \E w \in Target : Stalls(w) \/ GiveUpStuck(w)
         \/ GoDown
  <1> DEFINE Same == UNCHANGED <<latch, overdue, tasks>>
             Starts == /\ UNCHANGED overdue
                       /\ \E q \in SUBSET Msg :
                            StartDelivery(Window_for, q, latch, trouble, tasks)
  <1>1. ASSUME NEW m \in Msg, Serve(m)
        PROVE  Same \/ Starts
    <2>1. CASE Deliver(m)
      <3>1. queue' \in SUBSET Msg
        BY <2>1 DEF Deliver, TypeOK, QueueOK
      <3> QED BY <2>1, <3>1 DEF Deliver
    <2> QED BY <1>1, <2>1 DEF Serve, MissingFolder, NoAgentFiles, SpawnFails, Spawn, Enqueue
  <1>2. ASSUME NEW m \in Msg, Arrive(m) \/ ResumeNext(m) \/ OnEdited(m) \/ OnDeleted(m)
        PROVE  Same \/ Starts
    BY <1>1, <1>2 DEF Arrive, ResumeNext, OnEdited, OnDeleted
  <1>3. queue \in SUBSET Msg
    BY DEF TypeOK, QueueOK
  <1>4. CASE RetryPending
    BY <1>3, <1>4 DEF RetryPending
  <1>5. ASSUME NEW w \in Window,
               \/ OnSessionStart(w) \/ OnSessionEnd(w) \/ OnUserPrompt(w)
               \/ OnTurnFailure(w) \/ OnSpawnExited(w)
        PROVE  Same \/ Starts
    BY <1>3, <1>5 DEF OnSessionStart, OnSessionEnd, OnUserPrompt, OnTurnFailure,
                      OnSpawnExited
  <1>6. ASSUME \/ UserStop \/ ScanTranscripts \/ SaveLedger \/ RequestExit \/ RunDrain
               \/ OnRootDeleted \/ Boot \/ \E i \in Id : WarnUnreceived(i)
               \/ \E S \in dispo : OnDisposition(S)
        PROVE  Same
    BY <1>6 DEF UserStop, ScanTranscripts, SaveLedger, RequestExit, RunDrain,
                OnRootDeleted, Boot, WarnUnreceived, OnDisposition
  <1>7. Restart \/ Shutdown \/ Crash => GoDown
    BY DEF Restart, Shutdown, Crash
  <1>8. CASE AgentStep
    BY <1>8 DEF AgentStep, AgentUp, ReadPrompt, AgentEnds, TurnFails, TakeIn, Swallow, Answer
  <1>9. ASSUME \/ \E w \in Target : TroubleOver(w)
               \/ \E i \in Id : ReceiptDue(i)
               \/ \E w \in Window : WatchOver(w)
               \/ DrainDeadline
        PROVE  Same
    BY <1>9 DEF TroubleOver, ReceiptDue, WatchOver, DrainDeadline
  <1>10. CASE BridgeStep
    BY <1>2, <1>4, <1>5, <1>6, <1>7, <1>10 DEF BridgeStep
  <1>11. CASE TimeStep
    BY <1>7, <1>9, <1>11 DEF TimeStep
  <1>12. CASE TaskStep
    BY <1>12 DEF TaskStep
  <1> QED BY <1>8, <1>10, <1>11, <1>12 DEF Next

-----------------------------------------------------------------------------
(* NoOrphanLatch, under every move of the environment.                     *)

\* Every latch of l is answered for by a task of T
Backed(l, T) ==
    \A w \in Target : l[w] # NoMsg => \E t \in T : t.win = w /\ t.msg = l[w]

LEMMA StartBacked ==
  ASSUME NEW w \in Target, NEW q \in SUBSET Msg, NEW l \in [Target -> Msg \cup {NoMsg}],
         NEW tr, NEW T, Backed(l, T), StartDelivery(w, q, l, tr, T)
  PROVE  Backed(latch', tasks')
  <1>1. CASE latch' = l /\ tasks' = T
    BY <1>1
  <1>2. ASSUME NEW m \in Msg, NEW i \in TaskId, l[w] = NoMsg,
               latch' = [l EXCEPT ![w] = m], tasks' = T \cup {Running(i, w, m)}
        PROVE  Backed(latch', tasks')
    <2>1. Running(i, w, m).win = w /\ Running(i, w, m).msg = m
      BY DEF Running
    <2> QED BY <1>2, <2>1 DEF Backed
  <1>3. \/ latch' = l /\ tasks' = T
        \/ \E m \in Msg, i \in TaskId :
              /\ l[w] = NoMsg
              /\ latch' = [l EXCEPT ![w] = m]
              /\ tasks' = T \cup {Running(i, w, m)}
    BY StartCases, ZenonT(40)
  <1> QED BY <1>1, <1>2, <1>3

LEMMA BackedStep ==
  ASSUME TypeOK, Backed(latch, tasks), [Next]_vars
  PROVE  Backed(latch', tasks')
  <1>1. latch \in [Target -> Msg \cup {NoMsg}] /\ tasks \subseteq Task
    BY DEF TypeOK, QueueOK
  <1>2. CASE UNCHANGED <<latch, overdue, tasks>>
    BY <1>2
  <1>3. ASSUME NEW q \in SUBSET Msg, StartDelivery(Window_for, q, latch, trouble, tasks)
        PROVE  Backed(latch', tasks')
    BY <1>1, <1>3, StartBacked, WindowForType
  <1>4. ASSUME NEW t \in tasks, OnDeliveryDone(t)
        PROVE  Backed(latch', tasks')
    <2>1. t.win \in Target
      BY <1>1 DEF Task
    <2>2. /\ Unlatched(t.win) \in [Target -> Msg \cup {NoMsg}]
          /\ Backed(Unlatched(t.win), tasks \ {t})
      BY <1>1, <2>1 DEF Backed, Unlatched
    <2>3. CASE Done(t)
      <3>1. queue' \in SUBSET Msg
        BY <2>3 DEF Done, TypeOK, QueueOK
      <3>2. StartDelivery(t.win, queue', Unlatched(t.win), trouble', tasks \ {t})
        BY <2>3 DEF Done
      <3> QED BY <2>1, <2>2, <3>1, <3>2, StartBacked
    <2>4. CASE NotDone(t)
      BY <2>2, <2>4 DEF NotDone
    <2> QED BY <1>4, <2>3, <2>4 DEF OnDeliveryDone
  <1>5. ASSUME NEW t \in tasks, TaskRefused(t) \/ TaskTypes(t) \/ TaskReturns(t)
        PROVE  Backed(latch', tasks')
    <2>1. PICK r \in {"typed", "ok", "err"} :
            tasks' = (tasks \ {t}) \cup {[t EXCEPT !.at = r]} /\ latch' = latch
      BY <1>5 DEF TaskRefused, TaskTypes, TaskReturns
    <2>2. [t EXCEPT !.at = r].win = t.win /\ [t EXCEPT !.at = r].msg = t.msg
      BY <1>1 DEF Task
    <2> QED BY <2>1, <2>2 DEF Backed
  <1>6. ASSUME NEW w \in Target, Stalls(w) \/ GiveUpStuck(w)
        PROVE  Backed(latch', tasks')
    BY <1>1, <1>6 DEF Stalls, GiveUpStuck, Backed
  <1>7. CASE GoDown
    BY <1>7 DEF GoDown, Backed
  <1> QED BY <1>2, <1>3, <1>4, <1>5, <1>6, <1>7, DeliverySteps

\* No window stays latched once nobody is left to report on it, whatever the
\* agents, the people, tmux and the machine do (start_delivery, on_delivery_done,
\* give_up_stuck_deliveries, terminate, restart and crash).
THEOREM LatchIsAnsweredFor == Spec => []NoOrphanLatch
  <1>1. Init => Backed(latch, tasks)
    BY DEF Init, Backed
  <1>2. TypeOK /\ Backed(latch, tasks) /\ [Next]_vars => Backed(latch, tasks)'
    BY BackedStep
  <1>3. Backed(latch, tasks) => NoOrphanLatch
    BY DEF Backed, NoOrphanLatch
  <1> QED BY <1>1, <1>2, <1>3, TypeCorrect, PTL DEF Spec

-----------------------------------------------------------------------------
(* OneTaskPerWindow, as long as no delivery is given up as stuck.          *)

\* Each task of T holds its window's latch, and no window has two tasks
Alone(l, T) ==
    /\ \A t \in T : l[t.win] = t.msg
    /\ \A t, u \in T : t.win = u.win => t = u

\* OneTaskPerWindow is not inductive: that the latch is set by the very task at
\* work is what keeps start_delivery from starting another
OneInv == Alone(latch, tasks) /\ overdue = {}

LEMMA StartAlone ==
  ASSUME NEW w \in Target, NEW q \in SUBSET Msg, NEW l \in [Target -> Msg \cup {NoMsg}],
         NEW tr, NEW T \in SUBSET Task, Alone(l, T), StartDelivery(w, q, l, tr, T)
  PROVE  Alone(latch', tasks')
  <1>1. CASE latch' = l /\ tasks' = T
    BY <1>1
  <1>2. ASSUME NEW m \in Msg, NEW i \in TaskId, l[w] = NoMsg,
               latch' = [l EXCEPT ![w] = m], tasks' = T \cup {Running(i, w, m)}
        PROVE  Alone(latch', tasks')
    <2>1. Running(i, w, m).win = w /\ Running(i, w, m).msg = m
      BY DEF Running
    <2>2. \A t \in T : t.msg \in Msg /\ t.win \in Target
      BY DEF Task
    <2>3. \A t \in T : t.win # w
      BY <1>2, <2>2 DEF Alone
    <2> QED BY <1>2, <2>1, <2>2, <2>3 DEF Alone
  <1> QED BY <1>1, <1>2, StartCases

LEMMA OneStep ==
  ASSUME TypeOK, OneInv, [Next]_vars, "slow" \notin Moves
  PROVE  OneInv'
  <1>1. latch \in [Target -> Msg \cup {NoMsg}] /\ tasks \subseteq Task
    BY DEF TypeOK, QueueOK
  <1>2. CASE UNCHANGED <<latch, overdue, tasks>>
    BY <1>2 DEF OneInv, Alone
  <1>3. ASSUME NEW q \in SUBSET Msg, StartDelivery(Window_for, q, latch, trouble, tasks),
               UNCHANGED overdue
        PROVE  OneInv'
    <2>1. Alone(latch', tasks')
      BY <1>1, <1>3, StartAlone, WindowForType DEF OneInv
    <2> QED BY <1>3, <2>1 DEF OneInv
  <1>4. ASSUME NEW t \in tasks, OnDeliveryDone(t)
        PROVE  OneInv'
    <2>1. t.win \in Target /\ overdue' = {}
      BY <1>1, <1>4 DEF Task, OneInv, OnDeliveryDone, Done, NotDone, Reported
    <2>2. /\ Unlatched(t.win) \in [Target -> Msg \cup {NoMsg}]
          /\ Alone(Unlatched(t.win), tasks \ {t})
          /\ (tasks \ {t}) \in SUBSET Task
      <3>1. \A u \in tasks \ {t} : u.win \in Target /\ u.win # t.win
        BY <1>1 DEF OneInv, Alone, Task
      <3> QED BY <1>1, <2>1, <3>1 DEF OneInv, Alone, Unlatched
    <2>3. CASE Done(t)
      <3>1. queue' \in SUBSET Msg
        BY <2>3 DEF Done, TypeOK, QueueOK
      <3>2. Alone(latch', tasks')
        BY <2>1, <2>2, <2>3, <3>1, StartAlone DEF Done
      <3> QED BY <2>1, <3>2 DEF OneInv
    <2>4. CASE NotDone(t)
      BY <2>1, <2>2, <2>4 DEF NotDone, OneInv
    <2> QED BY <1>4, <2>3, <2>4 DEF OnDeliveryDone
  <1>5. ASSUME NEW t \in tasks, TaskRefused(t) \/ TaskTypes(t) \/ TaskReturns(t)
        PROVE  OneInv'
    <2>1. PICK r \in {"typed", "ok", "err"} :
            /\ tasks' = (tasks \ {t}) \cup {[t EXCEPT !.at = r]}
            /\ latch' = latch /\ overdue' = overdue
      BY <1>5 DEF TaskRefused, TaskTypes, TaskReturns
    <2>2. [t EXCEPT !.at = r].win = t.win /\ [t EXCEPT !.at = r].msg = t.msg
      BY <1>1 DEF Task
    <2>3. PICK v : v.win = t.win /\ v.msg = t.msg /\ tasks' = (tasks \ {t}) \cup {v}
      BY <2>1, <2>2
    <2>4. Alone(latch', tasks')
      BY <2>1, <2>3 DEF OneInv, Alone
    <2> QED BY <2>1, <2>4 DEF OneInv
  <1>6. ASSUME NEW w \in Target, Stalls(w) \/ GiveUpStuck(w)
        PROVE  OneInv'
    BY <1>6 DEF Stalls, GiveUpStuck, OneInv, Optional
  <1>7. CASE GoDown
    BY <1>7 DEF GoDown, OneInv, Alone
  <1> QED BY <1>2, <1>3, <1>4, <1>5, <1>6, <1>7, DeliverySteps

\* At most one task types into a window, as long as none is given up as stuck:
\* with the "slow" move a run shows two (Bridge::delivering).
THEOREM TypistIsAlone == "slow" \notin Moves => (Spec => []OneTaskPerWindow)
  <1> SUFFICES ASSUME "slow" \notin Moves PROVE Spec => []OneTaskPerWindow
    OBVIOUS
  <1>1. Init => OneInv
    BY DEF Init, OneInv, Alone
  <1>2. TypeOK /\ OneInv /\ [Next]_vars => OneInv'
    BY OneStep
  <1>3. OneInv => OneTaskPerWindow
    BY DEF OneInv, Alone, OneTaskPerWindow
  <1> QED BY <1>1, <1>2, <1>3, TypeCorrect, PTL DEF Spec


-----------------------------------------------------------------------------
(* LeavesTyped, under every move of the environment.                       *)

\* Slack gives every message a timestamp of its own
OneToOne == \A m, k \in Msg : TsOf[m] = TsOf[k] => m = k

LEMMA GiveGrows ==
  ASSUME NEW M, Give(M), given \in [Msg -> 0 .. 2]
  PROVE  \A m \in Msg : given[m] <= given'[m]
  BY DEF Give

\* What was given stays given
LEMMA GivenGrows ==
  ASSUME TypeOK, [Next]_vars
  PROVE  \A m \in Msg : given[m] <= given'[m]
  <1> DEFINE Same == UNCHANGED given
             Grows == Same \/ \E M \in SUBSET Msg : Give(M)
  <1>0. given \in [Msg -> 0 .. 2]
    BY DEF TypeOK, AgentOK
  <1>1. ASSUME NEW m \in Msg, Serve(m)
        PROVE  Grows
    <2>1. CASE Spawn(m)
      <3>1. {m} \in SUBSET Msg /\ Give({m})
        BY <2>1 DEF Spawn
      <3> QED BY <3>1
    <2> QED BY <1>1, <2>1 DEF Serve, MissingFolder, NoAgentFiles, SpawnFails, Deliver, Enqueue
  <1>2. ASSUME NEW m \in Msg, Arrive(m) \/ ResumeNext(m) \/ OnEdited(m) \/ OnDeleted(m)
        PROVE  Grows
    BY <1>1, <1>2 DEF Arrive, ResumeNext, OnEdited, OnDeleted
  <1>3. ASSUME NEW w \in Window,
               \/ OnSessionStart(w) \/ OnSessionEnd(w) \/ OnUserPrompt(w)
               \/ OnTurnFailure(w) \/ OnSpawnExited(w)
        PROVE  Grows
    <2>1. ASSUME TurnFailureResent PROVE Grows
      <3>1. \/ UNCHANGED given
            \/ \E M \in SUBSET {m \in arrived : TsOf[m] \in ledger} : Type(M, Window_for)
        BY <2>1 DEF TurnFailureResent
      <3> QED BY <3>1 DEF Type, TypeOK, WireOK
    <2> QED BY <1>3, <2>1 DEF OnSessionStart, OnSessionEnd, OnUserPrompt, OnTurnFailure,
                              OnSpawnExited, TurnFailureTold, TurnFailureKept, TurnFailureSpent
  <1>4. ASSUME \/ UserStop \/ ScanTranscripts \/ SaveLedger \/ RequestExit \/ RunDrain
               \/ OnRootDeleted \/ Boot \/ RetryPending \/ Restart \/ Shutdown \/ Crash
               \/ \E i \in Id : WarnUnreceived(i)
               \/ \E S \in dispo : OnDisposition(S)
               \/ \E t \in tasks : OnDeliveryDone(t)
               \/ \E w \in Target : GiveUpStuck(w)
        PROVE  Same
    BY <1>4 DEF UserStop, ScanTranscripts, SaveLedger, RequestExit, RunDrain, OnRootDeleted,
                Boot, RetryPending, Restart, Shutdown, Crash, GoDown, WarnUnreceived,
                OnDisposition, OnDeliveryDone, Done, NotDone, Reported, GiveUpStuck
  <1>5. AgentStep => Same
    BY DEF AgentStep, AgentUp, ReadPrompt, AgentEnds, TurnFails, TakeIn, Swallow, Answer
  <1>6. ASSUME \/ \E w \in Target : TroubleOver(w) \/ Stalls(w)
               \/ \E i \in Id : ReceiptDue(i)
               \/ \E w \in Window : WatchOver(w)
               \/ DrainDeadline
        PROVE  Same
    BY <1>6 DEF TroubleOver, Stalls, ReceiptDue, WatchOver, DrainDeadline
  <1>7. ASSUME NEW t \in tasks, TaskRefused(t) \/ TaskTypes(t) \/ TaskReturns(t)
        PROVE  Grows
    <2>1. {t.msg} \in SUBSET Msg
      BY DEF TypeOK, QueueOK, Task
    <2> QED BY <1>7, <2>1 DEF TaskRefused, TaskTypes, TaskReturns, Type
  <1>8. UNCHANGED vars => Same
    OBVIOUS
  <1>9. Same => Grows
    OBVIOUS
  <1> HIDE DEF Same, Grows
  <1>10. BridgeStep => Grows
    BY <1>2, <1>3, <1>4, <1>9, Zenon DEF BridgeStep
  <1>11. TaskStep => Grows
    BY <1>7, Zenon DEF TaskStep
  <1>12. TimeStep => Grows
    BY <1>4, <1>6, <1>9, Zenon DEF TimeStep
  <1>13. Grows
    BY <1>5, <1>8, <1>9, <1>10, <1>11, <1>12 DEF Next
  <1> USE DEF Same, Grows
  <1> QED BY <1>0, <1>13, GiveGrows

\* Whoever says a message was typed has given it to an agent
Honest(T) == \A t \in T : t.at \in {"typed", "ok"} => given[t.msg] > 0

LEMMA StartHonest ==
  ASSUME NEW w, NEW q \in SUBSET Msg, NEW l, NEW tr, NEW T, Honest(T),
         StartDelivery(w, q, l, tr, T)
  PROVE  \A t \in tasks' : t.at \in {"typed", "ok"} => given[t.msg] > 0
  <1>1. CASE tasks' = T
    BY <1>1 DEF Honest
  <1>2. ASSUME NEW m \in Msg, NEW i \in TaskId, tasks' = T \cup {Running(i, w, m)}
        PROVE  \A t \in tasks' : t.at \in {"typed", "ok"} => given[t.msg] > 0
    BY <1>2 DEF Honest, Running
  <1>3. \/ latch' = l /\ tasks' = T
        \/ \E m \in Msg, i \in TaskId :
              /\ l[w] = NoMsg
              /\ latch' = [l EXCEPT ![w] = m]
              /\ tasks' = T \cup {Running(i, w, m)}
    BY StartCases
  <1> QED BY <1>1, <1>2, <1>3

LEMMA HonestStep ==
  ASSUME TypeOK, Honest(tasks), [Next]_vars
  PROVE  Honest(tasks)'
  <1>1. \A m \in Msg : given[m] \in Nat /\ given'[m] \in Nat /\ given[m] <= given'[m]
    BY GivenGrows, StepType DEF TypeOK, AgentOK
  <1>2. tasks \subseteq Task /\ tasks' \subseteq Task
    BY StepType DEF TypeOK, QueueOK
  <1>3. SUFFICES ASSUME NEW t \in tasks', t.at \in {"typed", "ok"}
                 PROVE  given'[t.msg] > 0
    BY DEF Honest
  <1>4. t.msg \in Msg
    BY <1>2 DEF Task
  <1>5. SUFFICES given[t.msg] > 0 \/ given'[t.msg] > 0
    <2>1. given[t.msg] \in Nat /\ given'[t.msg] \in Nat /\ given[t.msg] <= given'[t.msg]
      BY <1>1, <1>4
    <2> QED BY <2>1
  <1>6. CASE UNCHANGED <<latch, overdue, tasks>>
    BY <1>3, <1>6 DEF Honest
  <1>7. ASSUME NEW q \in SUBSET Msg, StartDelivery(Window_for, q, latch, trouble, tasks)
        PROVE  given[t.msg] > 0
    BY <1>3, <1>7, StartHonest
  <1>8. ASSUME NEW u \in tasks, OnDeliveryDone(u)
        PROVE  given[t.msg] > 0
    <2>1. Honest(tasks \ {u})
      BY DEF Honest
    <2>2. CASE Done(u)
      <3>1. queue' \in SUBSET Msg
        BY <2>2 DEF Done, TypeOK, QueueOK
      <3> QED BY <1>3, <2>1, <2>2, <3>1, StartHonest DEF Done
    <2>3. CASE NotDone(u)
      BY <1>3, <2>1, <2>3 DEF NotDone, Honest
    <2> QED BY <1>8, <2>2, <2>3 DEF OnDeliveryDone
  <1>9. ASSUME NEW u \in tasks, TaskRefused(u) \/ TaskTypes(u) \/ TaskReturns(u)
        PROVE  given[t.msg] > 0 \/ given'[t.msg] > 0
    <2>1. CASE t \in tasks
      BY <1>3, <2>1 DEF Honest
    <2>2. CASE t \notin tasks
      <3>1. \A r : [u EXCEPT !.at = r].at = r /\ [u EXCEPT !.at = r].msg = u.msg
        BY <1>2 DEF Task
      <3>2. t.msg = u.msg
        <4>1. PICK r : tasks' = (tasks \ {u}) \cup {[u EXCEPT !.at = r]}
          BY <1>9 DEF TaskRefused, TaskTypes, TaskReturns
        <4>2. t = [u EXCEPT !.at = r]
          BY <1>3, <2>2, <4>1
        <4> QED BY <3>1, <4>2
      <3>3. CASE TaskTypes(u)
        BY <1>4, <3>2, <3>3 DEF TaskTypes, Type, Give, TypeOK, AgentOK
      <3>4. CASE TaskReturns(u)
        BY <3>2, <3>4 DEF TaskReturns, Honest
      <3>5. CASE TaskRefused(u)
        BY <1>3, <2>2, <3>1, <3>5 DEF TaskRefused
      <3> QED BY <1>9, <3>3, <3>4, <3>5
    <2> QED BY <2>1, <2>2
  <1>10. ASSUME NEW w \in Target, Stalls(w) \/ GiveUpStuck(w)
         PROVE  given[t.msg] > 0
    BY <1>3, <1>10 DEF Stalls, GiveUpStuck, Honest
  <1>11. ~GoDown
    BY <1>3 DEF GoDown
  <1> QED BY <1>6, <1>7, <1>8, <1>9, <1>10, <1>11, DeliverySteps

\* A report takes off the queue only what it is about, and that was typed, whatever
\* the environment does (on_delivery_done, DeliveryDone.msg_ts).
THEOREM ReportsTakeTheTyped == OneToOne => (Spec => LeavesTyped)
  <1> SUFFICES ASSUME OneToOne PROVE Spec => LeavesTyped
    OBVIOUS
  <1>1. Init => Honest(tasks)
    BY DEF Init, Honest
  <1>2. TypeOK /\ Honest(tasks) /\ [Next]_vars => Honest(tasks)'
    BY HonestStep
  <1>3. TypeOK /\ Honest(tasks) => [\A t \in tasks : OnDeliveryDone(t) =>
                                      \A m \in queue \ queue' : given[m] > 0]_vars
    <2> SUFFICES ASSUME TypeOK, Honest(tasks), NEW t \in tasks, OnDeliveryDone(t),
                        NEW m \in queue \ queue'
                 PROVE  given[m] > 0
      OBVIOUS
    <2>1. m \in Msg /\ t.msg \in Msg
      BY DEF TypeOK, QueueOK, Task
    <2>2. Done(t) /\ TsOf[m] = TsOf[t.msg]
      BY DEF OnDeliveryDone, Done, NotDone
    <2> QED BY <2>1, <2>2 DEF Done, Honest, OneToOne
  <1> QED BY <1>1, <1>2, <1>3, TypeCorrect, PTL DEF Spec, LeavesTyped


-----------------------------------------------------------------------------
(* SurvivesRestart, as long as nobody takes the agent away: it does not    *)
(* end, is not asked to, is not killed; its folder and files are there;    *)
(* and the Bridge goes down in order.  Everything else may happen: refused,*)
(* slow and failed deliveries, failed turns, edits, deletions, stops,      *)
(* copies of events, and restarts at any moment.                           *)

Calm == Moves \cap {"end", "exit", "root", "shutdown", "crash", "nodir", "nofiles", "spawnerr"} = {}

\* A session has one process, from its first request on.  What SurvivesRestart says
\* of processes is not inductive: a second one is opened when the first is thought gone
SeatKept ==
    /\ drain = "none" /\ ~ended /\ \A w \in Window : <<"session_end", w>> \notin hooks
    /\ \A w \in Window : /\ proc[w] # "gone" /\ (proc[w] # "none" => session)
                         /\ w \in watch => proc[w] # "none"
    /\ session => \E w \in Window : proc[w] # "none"

\* Start-up's list is what threads.json still holds, until it is worked on
Listed == (up => parked \in {{}, resume}) /\ (~up => resume = {})

Stays == SeatKept /\ OneAgent /\ Listed /\ NothingLost

\* What most actions do to all this: nothing
Plain ==
    /\ UNCHANGED <<drain, proc, session, up, resume, parked, arrived, queue>> /\ ~ended'
    /\ watch' \subseteq watch /\ \A w \in Window : <<"session_end", w>> \notin hooks'

LEMMA AliveIs ==
  ASSUME TypeOK, SeatKept
  PROVE  (\A w \in Window : Live(w) <=> proc[w] # "none") /\ (Alive <=> session)
  <1>1. ASSUME NEW w \in Window PROVE Live(w) <=> proc[w] # "none"
    BY DEF Live, TypeOK, AgentOK, SeatKept
  <1> QED BY <1>1 DEF Alive, SeatKept

\* Nothing is lost by a step that takes nothing off the lists
LEMMA GivenHelps ==
  ASSUME TypeOK, [Next]_vars, NEW m \in Msg, given[m] > 0
  PROVE  given'[m] > 0
  <1>1. given[m] \in Nat /\ given'[m] \in Nat /\ given[m] <= given'[m]
    BY GivenGrows, StepType DEF TypeOK, AgentOK
  <1> QED BY <1>1

LEMMA PlainStays ==
  ASSUME TypeOK, Stays, Plain, [Next]_vars
  PROVE  Stays'
  <1>1. SeatKept' /\ OneAgent'
    BY DEF Plain, Stays, SeatKept, OneAgent, Live
  <1>2. Listed'
    BY DEF Plain, Stays, Listed
  <1>3. NothingLost'
    BY GivenHelps DEF Plain, Stays, NothingLost, TypeOK, WireOK
  <1> QED BY <1>1, <1>2, <1>3 DEF Stays

LEMMA SendsNoEnd ==
  ASSUME SeatKept, NEW kind, NEW v \in Window, Send(kind, v), kind # "session_end"
  PROVE  \A w \in Window : <<"session_end", w>> \notin hooks'
  BY DEF Send, SeatKept

\* The steps that are plain
LEMMA PlainSteps ==
  ASSUME TypeOK, SeatKept,
         \/ UserStop \/ RetryPending \/ ScanTranscripts \/ SaveLedger
         \/ \E m \in Msg : OnEdited(m) \/ OnDeleted(m)
         \/ \E t \in tasks : NotDone(t) \/ TaskRefused(t) \/ TaskTypes(t) \/ TaskReturns(t)
         \/ \E w \in Target : GiveUpStuck(w) \/ TroubleOver(w) \/ Stalls(w)
         \/ \E i \in Id : WarnUnreceived(i) \/ ReceiptDue(i)
         \/ \E S \in dispo : OnDisposition(S)
         \/ \E w \in Window : \/ OnSessionStart(w) \/ OnUserPrompt(w) \/ OnTurnFailure(w)
                              \/ WatchOver(w) \/ ReadPrompt(w) \/ TurnFails(w)
                              \/ \E m \in Msg : TakeIn(w, m) \/ Swallow(w, m) \/ Answer(w, m)
         \/ UNCHANGED vars
  PROVE  Plain
  <1>0. ~ended /\ \A w \in Window : <<"session_end", w>> \notin hooks
    BY DEF SeatKept
  <1>1. CASE UserStop \/ RetryPending \/ ScanTranscripts \/ SaveLedger \/ UNCHANGED vars
    BY <1>0, <1>1 DEF Plain, UserStop, RetryPending, ScanTranscripts, SaveLedger
  <1>2. ASSUME NEW m \in Msg, OnEdited(m) \/ OnDeleted(m) PROVE Plain
    BY <1>0, <1>2 DEF Plain, OnEdited, OnDeleted
  <1>3. ASSUME NEW t \in tasks, NotDone(t) \/ TaskRefused(t) \/ TaskTypes(t) \/ TaskReturns(t)
        PROVE  Plain
    BY <1>0, <1>3 DEF Plain, NotDone, Reported, TaskRefused, TaskTypes, TaskReturns
  <1>4. ASSUME NEW w \in Target, GiveUpStuck(w) \/ TroubleOver(w) \/ Stalls(w) PROVE Plain
    BY <1>0, <1>4 DEF Plain, GiveUpStuck, TroubleOver, Stalls
  <1>5. ASSUME NEW i \in Id, WarnUnreceived(i) \/ ReceiptDue(i) PROVE Plain
    BY <1>0, <1>5 DEF Plain, WarnUnreceived, ReceiptDue
  <1>6. ASSUME NEW S \in dispo, OnDisposition(S) PROVE Plain
    BY <1>0, <1>6 DEF Plain, OnDisposition
  <1>7. ASSUME NEW w \in Window, OnSessionStart(w) \/ OnUserPrompt(w) \/ OnTurnFailure(w) \/ WatchOver(w)
        PROVE  Plain
    <2>1. CASE OnSessionStart(w)
      BY <1>0, <2>1 DEF Plain, Take, OnSessionStart
    <2>2. CASE OnUserPrompt(w)
      <3>1. UNCHANGED <<drain, ended, proc, session, watch, up, resume, parked, arrived, queue>>
        BY <2>2 DEF OnUserPrompt
      <3>2. hooks' \subseteq hooks
        BY <2>2 DEF OnUserPrompt, Take
      <3> QED BY <1>0, <3>1, <3>2 DEF Plain
    <2>3. CASE OnTurnFailure(w)
      BY <1>0, <2>3 DEF Plain, Take, OnTurnFailure
    <2>4. CASE WatchOver(w)
      BY <1>0, <2>4 DEF Plain, WatchOver
    <2> QED BY <1>7, <2>1, <2>2, <2>3, <2>4
  <1>8. ASSUME NEW w \in Window, ReadPrompt(w) \/ TurnFails(w) PROVE Plain
    BY <1>0, <1>8, SendsNoEnd DEF Plain, ReadPrompt, TurnFails
  <1>9. ASSUME NEW w \in Window, NEW m \in Msg, TakeIn(w, m) \/ Swallow(w, m) \/ Answer(w, m) PROVE Plain
    BY <1>0, <1>9, SendsNoEnd DEF Plain, TakeIn, Swallow, Answer
  <1> HIDE DEF Plain
  <1> QED BY <1>1, <1>2, <1>3, <1>4, <1>5, <1>6, <1>7, <1>8, <1>9

\* The steps that cannot be taken
LEMMA NeverSteps ==
  ASSUME TypeOK, SeatKept, Calm
  PROVE  /\ ~RequestExit /\ ~RunDrain /\ ~OnRootDeleted /\ ~Shutdown /\ ~Crash /\ ~DrainDeadline
         /\ \A w \in Window : ~OnSessionEnd(w) /\ ~OnSpawnExited(w) /\ ~AgentEnds(w)
         /\ \A m \in Msg : ~MissingFolder(m) /\ ~NoAgentFiles(m) /\ ~SpawnFails(m)
  <1>1. ~RequestExit /\ ~OnRootDeleted /\ ~Shutdown /\ ~Crash
    BY DEF Calm, Optional, RequestExit, OnRootDeleted, Shutdown, Crash
  <1>2. ~RunDrain /\ ~DrainDeadline
    BY DEF SeatKept, RunDrain, DrainDeadline
  <1>3. ASSUME NEW w \in Window PROVE ~OnSessionEnd(w) /\ ~OnSpawnExited(w) /\ ~AgentEnds(w)
    BY AliveIs DEF SeatKept, OnSessionEnd, Take, OnSpawnExited, AgentEnds, Calm, Optional
  <1>4. ASSUME NEW m \in Msg PROVE ~MissingFolder(m) /\ ~NoAgentFiles(m) /\ ~SpawnFails(m)
    BY DEF Calm, Optional, MissingFolder, NoAgentFiles, SpawnFails
  <1> QED BY <1>1, <1>2, <1>3, <1>4

\* A request is served by the session's process, or by its first
LEMMA ServeStays ==
  ASSUME TypeOK, SeatKept, OneAgent, Calm, NEW m \in Msg, Serve(m), drain' = Outlived
  PROVE  /\ SeatKept' /\ OneAgent'
         /\ queue \subseteq queue' /\ (m \in queue' \/ given'[m] > 0)
  <1>1. CASE Spawn(m)
    <2>1. ~session /\ \A w \in Window : proc[w] = "none"
      BY <1>1, AliveIs DEF Spawn, WorkerState, SeatKept
    <2>2. Of(proc, Abandoned) = proc
      BY <2>1 DEF Of, Abandoned, Live, TypeOK, AgentOK
    <2>3. PICK v \in Window : proc' = [proc EXCEPT ![v] = "boot"] /\ watch' = Of(watch, {}) \cup {v}
      BY <1>1, <2>2 DEF Spawn
    <2>4. drain' = "none" /\ ended' = FALSE /\ hooks' = {} /\ session' = TRUE /\ watch' = {v}
      BY <1>1, <2>1, <2>3 DEF Spawn, Of, Outlived, SeatKept
    <2>5. \A w \in Window : proc'[w] = IF w = v THEN "boot" ELSE "none"
      BY <2>1, <2>3 DEF TypeOK, AgentOK
    <2>6. SeatKept'
      BY <2>4, <2>5 DEF SeatKept
    <2>7. OneAgent'
      BY <2>5 DEF OneAgent, Live
    <2>8. queue' = queue /\ given'[m] > 0
      <3>1. Give({m}) /\ queue' = queue
        BY <1>1 DEF Spawn
      <3>2. given[m] \in 0 .. 2
        BY DEF TypeOK, AgentOK
      <3>3. given'[m] = IF given[m] < 2 THEN given[m] + 1 ELSE given[m]
        BY <3>1 DEF Give
      <3> QED BY <3>1, <3>2, <3>3
    <2> QED BY <2>6, <2>7, <2>8
  <1>2. CASE Deliver(m) \/ Enqueue(m)
    <2>1. UNCHANGED <<session, ended, watch, proc, hooks>> /\ queue' = queue \cup {m}
      BY <1>2 DEF Deliver, Enqueue
    <2>2. drain' = "none"
      BY <2>1 DEF Outlived, SeatKept
    <2> QED BY <2>1, <2>2 DEF SeatKept, OneAgent, Live
  <1> QED BY <1>1, <1>2, NeverSteps DEF Serve

LEMMA ArriveStays ==
  ASSUME TypeOK, Stays, Calm, NEW m \in Msg, Arrive(m) \/ ResumeNext(m), [Next]_vars
  PROVE  Stays'
  <1>1. SeatKept' /\ OneAgent' /\ queue \subseteq queue' /\ (m \in queue' \/ given'[m] > 0)
    BY ServeStays DEF Arrive, ResumeNext, Stays
  <1>2. CASE Arrive(m)
    <2>1. UNCHANGED <<up, resume, parked>> /\ arrived' = arrived \cup {m}
      BY <1>2 DEF Arrive
    <2>2. Listed'
      BY <2>1 DEF Stays, Listed
    <2>3. NothingLost'
      BY <1>1, <2>1, GivenHelps DEF Stays, NothingLost, TypeOK, WireOK
    <2> QED BY <1>1, <2>2, <2>3 DEF Stays
  <1>3. CASE ResumeNext(m)
    <2>1. up /\ up' = up /\ resume' = resume \ {m} /\ parked' = {} /\ arrived' = arrived
      BY <1>3 DEF ResumeNext
    <2>2. Listed'
      BY <2>1 DEF Listed
    <2>3. \A k \in arrived : given[k] > 0 \/ k \in queue \cup resume
      BY <2>1 DEF Stays, Listed, NothingLost
    <2>4. NothingLost'
      BY <1>1, <2>1, <2>3, GivenHelps DEF NothingLost, TypeOK, WireOK
    <2> QED BY <1>1, <2>2, <2>4 DEF Stays
  <1> QED BY <1>2, <1>3

LEMMA DoneStays ==
  ASSUME TypeOK, Stays, Honest(tasks), OneToOne, NEW t \in tasks, Done(t), [Next]_vars
  PROVE  Stays'
  <1>1. UNCHANGED <<drain, ended, proc, session, watch, hooks, up, resume, parked, arrived>>
    BY DEF Done, Reported
  <1>2. given[t.msg] > 0 /\ t.msg \in Msg
    BY DEF Done, Honest, TypeOK, QueueOK, Task
  <1>3. \A m \in queue \ queue' : given[m] > 0
    BY <1>2 DEF Done, OneToOne, TypeOK, QueueOK
  <1>4. NothingLost'
    BY <1>1, <1>3, GivenHelps DEF Stays, NothingLost, TypeOK, WireOK
  <1> QED BY <1>1, <1>4 DEF Stays, SeatKept, OneAgent, Live, Listed

LEMMA AgentUpStays ==
  ASSUME TypeOK, Stays, NEW w \in Window, AgentUp(w), [Next]_vars
  PROVE  Stays'
  <1>1. /\ UNCHANGED <<drain, ended, session, watch, up, resume, parked, arrived, queue>>
        /\ \A v \in Window : <<"session_end", v>> \notin hooks'
    BY SendsNoEnd DEF AgentUp, Stays
  <1>2. \A v \in Window : /\ proc'[v] # "gone" /\ (proc'[v] = "none" <=> proc[v] = "none")
                          /\ Live(v)' <=> Live(v)
    BY DEF AgentUp, TypeOK, AgentOK, Live, Stays, SeatKept
  <1>3. SeatKept' /\ OneAgent'
    BY <1>1, <1>2 DEF Stays, SeatKept, OneAgent
  <1>4. NothingLost' /\ Listed'
    BY <1>1, GivenHelps DEF Stays, NothingLost, Listed, TypeOK, WireOK
  <1> QED BY <1>3, <1>4 DEF Stays

\* Down in order, and up again: the agent is still there, and what waited is served
LEMMA RestartStays ==
  ASSUME TypeOK, Stays, Restart \/ Boot, [Next]_vars
  PROVE  Stays'
  <1>1. CASE Restart
    <2>1. /\ drain' = "none" /\ ended' = FALSE /\ hooks' = {} /\ watch' = {} /\ up' = FALSE
          /\ UNCHANGED <<proc, session, arrived>> /\ parked' = parked \cup queue
          /\ resume = {} /\ resume' = {}
      BY <1>1 DEF Restart, GoDown, SaveAll, Looping
    <2>2. SeatKept' /\ OneAgent' /\ Listed'
      BY <2>1 DEF Stays, SeatKept, OneAgent, Live, Listed
    <2>3. NothingLost'
      BY <2>1, GivenHelps DEF Stays, NothingLost, TypeOK, WireOK
    <2> QED BY <2>2, <2>3 DEF Stays
  <1>2. CASE Boot
    <2>1. ~(session /\ ~hist /\ ~Alive)
      BY AliveIs DEF Stays
    <2>2. /\ UNCHANGED <<session, parked, drain, ended, proc, watch, hooks, arrived, queue>>
          /\ resume' = parked'
      <3>1. session \in BOOLEAN
        BY DEF TypeOK, SeatOK
      <3>2. session' = session
        <4>1. session' = (session /\ ~(session /\ ~hist /\ ~Alive))
          BY <1>2 DEF Boot
        <4> QED BY <2>1, <3>1, <4>1
      <3> QED BY <1>2, <2>1, <3>2 DEF Boot
    <2>3. SeatKept' /\ OneAgent' /\ Listed'
      <3>1. up' = TRUE
        BY <1>2 DEF Boot
      <3> QED BY <2>2, <3>1 DEF Stays, SeatKept, OneAgent, Live, Listed
    <2>4. \A m \in arrived : given[m] > 0 \/ m \in queue \cup parked \cup resume
      BY DEF Stays, NothingLost
    <2>5. resume \subseteq parked'
      BY <1>2 DEF Boot, Stays, Listed
    <2>6. NothingLost'
      BY <2>2, <2>4, <2>5, GivenHelps DEF NothingLost, TypeOK, WireOK
    <2> QED BY <2>3, <2>6 DEF Stays
  <1> QED BY <1>1, <1>2

LEMMA StaysStep ==
  ASSUME TypeOK, Stays, Honest(tasks), Calm, OneToOne, [Next]_vars
  PROVE  Stays'
  <1>1. SeatKept
    BY DEF Stays
  <1>2. CASE BridgeStep
    BY <1>1, <1>2, PlainSteps, PlainStays, NeverSteps, ArriveStays, DoneStays, RestartStays
       DEF BridgeStep, OnDeliveryDone
  <1>3. CASE TaskStep
    BY <1>1, <1>3, PlainSteps, PlainStays DEF TaskStep
  <1>4. CASE AgentStep
    BY <1>1, <1>4, PlainSteps, PlainStays, NeverSteps, AgentUpStays DEF AgentStep
  <1>5. CASE TimeStep
    BY <1>1, <1>5, PlainSteps, PlainStays, NeverSteps DEF TimeStep
  <1>6. CASE UNCHANGED vars
    BY <1>1, <1>6, PlainSteps, PlainStays
  <1> QED BY <1>2, <1>3, <1>4, <1>5, <1>6 DEF Next

\* A restart at any moment - with deliveries on their way, refused or given up as stuck,
\* failed turns, edits, deletions and stops, and events handed over again - costs no
\* request and starts no second process for the conversation (flush_pending_to_disk,
\* restore_pending, resume_pending_from_disk, forget_unresumable_threads, state_of).
THEOREM RestartCostsNothing == OneToOne /\ Calm => (Spec => []SurvivesRestart)
  <1> SUFFICES ASSUME OneToOne, Calm PROVE Spec => []SurvivesRestart
    OBVIOUS
  <1>1. Init => Stays /\ Honest(tasks)
    BY DEF Init, Stays, SeatKept, OneAgent, Live, Listed, NothingLost, Honest
  <1>2. TypeOK /\ Stays /\ Honest(tasks) /\ [Next]_vars => Stays' /\ Honest(tasks)'
    BY StaysStep, HonestStep
  <1>3. Stays => SurvivesRestart
    BY DEF Stays, SurvivesRestart
  <1> QED BY <1>1, <1>2, <1>3, TypeCorrect, PTL DEF Spec


-----------------------------------------------------------------------------
(* HeldAndHandedOnce, as long as an agent goes only with its thread and    *)
(* deliveries do what they say: none is given up while it runs or refused  *)
(* after it typed, no turn fails, no request is edited, and the Bridge     *)
(* stays up.                                                               *)

Quiet == Moves \cap {"slow", "midsend", "fail", "end", "exit", "edit", "nofiles",
                     "restart", "shutdown", "crash"} = {}

StaysUp == up /\ resume = {} /\ parked = {} /\ drain = "none"

\* A thread with a session has one process, the bound one; without one it owes nothing
OneSeat ==
    /\ session => bound \in Window /\ Live(bound) /\ ~ended
    /\ \A w \in Window : Live(w) => session /\ w = bound
    /\ ~session => queue = {} /\ ledger = {}
    /\ \A w \in Window : /\ <<"session_end", w>> \in hooks => ~session
                         /\ <<"error", w>> \notin hooks
                         /\ w \in watch /\ session => Live(w)

\* What is at work in the bound window is what the agent has not been given, until it is
TaskFits(t, q, g, b) ==
    /\ t.at \in {"running", "err"} /\ t.win = b => g[t.msg] = 0
    /\ t.at \in {"typed", "ok"} /\ t.win # b => t.msg \notin q

\* What is still queued though it was given is about to be reported
QueueFits(q, T, g, b) ==
    \A m \in q : g[m] > 0 => \E t \in T : t.win = b /\ t.msg = m /\ t.at \in {"typed", "ok"}

Handing ==
    /\ \A t \in tasks : /\ TaskFits(t, queue, given, bound) /\ t.msg \in seen
                        /\ t.win # 0 /\ proc[t.win] # "none"
    /\ QueueFits(queue, tasks, given, bound)
    /\ queue \subseteq seen /\ \A m \in Msg \ seen : given[m] = 0

-----------------------------------------------------------------------------
(* StaysUp and OneSeat                                                     *)

LEMMA SeatIs ==
  ASSUME TypeOK, OneSeat
  PROVE  /\ WorkerState = "absent" <=> ~session
         /\ session => Window_for = bound /\ Alive
         /\ Found = IF session THEN bound ELSE 0
  <1>0. session \in BOOLEAN /\ 0 \notin Window
    BY DEF TypeOK, SeatOK, Window
  <1>1. session => Alive /\ bound # 0 /\ bound \in Window /\ Live(bound) /\ ~ended
    BY <1>0 DEF OneSeat, Alive
  <1>2. ~session => \A w \in Window : ~Live(w)
    BY DEF OneSeat
  <1>3. ~session => Named = 0
    BY <1>2 DEF Named, Oldest
  <1>4. Found = IF session THEN bound ELSE 0
    BY <1>0, <1>1, <1>2, <1>3 DEF Found
  <1>5. session => Window_for = bound
    BY <1>1 DEF Window_for
  <1>6. WorkerState = "absent" <=> ~session
    BY <1>0, <1>1 DEF WorkerState
  <1> QED BY <1>1, <1>4, <1>5, <1>6

\* The steps that cannot be taken
LEMMA QuietSteps ==
  ASSUME TypeOK, StaysUp, OneSeat, overdue = {}, Quiet
  PROVE  /\ ~RequestExit /\ ~RunDrain /\ ~DrainDeadline /\ ~Restart /\ ~Shutdown /\ ~Crash
         /\ ~Boot /\ ~SaveLedger
         /\ \A w \in Window : ~AgentEnds(w) /\ ~TurnFails(w) /\ ~OnTurnFailure(w)
         /\ \A w \in Target : ~Stalls(w) /\ ~GiveUpStuck(w)
         /\ \A m \in Msg : ~ResumeNext(m) /\ ~OnEdited(m) /\ ~NoAgentFiles(m)
  <1>1. ~RequestExit /\ ~Restart /\ ~Shutdown /\ ~Crash /\ ~SaveLedger
    BY DEF Quiet, Optional, RequestExit, Restart, Shutdown, Crash, SaveLedger
  <1>2. ~RunDrain /\ ~DrainDeadline /\ ~Boot
    BY DEF StaysUp, RunDrain, DrainDeadline, Boot
  <1>3. ASSUME NEW w \in Window PROVE ~AgentEnds(w) /\ ~TurnFails(w) /\ ~OnTurnFailure(w)
    BY DEF Quiet, Optional, AgentEnds, TurnFails, OnTurnFailure, Take, OneSeat
  <1>4. ASSUME NEW w \in Target PROVE ~Stalls(w) /\ ~GiveUpStuck(w)
    BY DEF Quiet, Optional, Stalls, GiveUpStuck
  <1>5. ASSUME NEW m \in Msg PROVE ~ResumeNext(m) /\ ~OnEdited(m) /\ ~NoAgentFiles(m)
    BY DEF Quiet, Optional, ResumeNext, First, StaysUp, OnEdited, NoAgentFiles
  <1> QED BY <1>1, <1>2, <1>3, <1>4, <1>5


\* What most actions do to the seat: nothing
Sits ==
    /\ UNCHANGED <<up, resume, parked, drain, session, bound, proc>> /\ (ended' => ended)
    /\ ~session => queue' \subseteq queue /\ ledger' \subseteq ledger
    /\ watch' \subseteq watch
    /\ \A w \in Window : /\ <<"session_end", w>> \in hooks' => <<"session_end", w>> \in hooks
                         /\ <<"error", w>> \notin hooks'

LEMMA SitsStays ==
  ASSUME StaysUp, OneSeat, Sits
  PROVE  StaysUp' /\ OneSeat'
  <1>1. StaysUp'
    BY DEF Sits, StaysUp
  <1>2. OneSeat'
    BY DEF Sits, OneSeat, Live
  <1> QED BY <1>1, <1>2

LEMMA SendsQuietly ==
  ASSUME OneSeat, NEW kind, NEW v \in Window, Send(kind, v), kind \notin {"session_end", "error"}
  PROVE  \A w \in Window : /\ <<"session_end", w>> \in hooks' => <<"session_end", w>> \in hooks
                           /\ <<"error", w>> \notin hooks'
  BY DEF Send, OneSeat

LEMMA SitsSteps ==
  ASSUME TypeOK, OneSeat,
         \/ UserStop \/ RetryPending \/ ScanTranscripts
         \/ \E m \in Msg : OnDeleted(m)
         \/ \E t \in tasks : OnDeliveryDone(t) \/ TaskRefused(t) \/ TaskTypes(t) \/ TaskReturns(t)
         \/ \E w \in Target : TroubleOver(w)
         \/ \E i \in Id : WarnUnreceived(i) \/ ReceiptDue(i)
         \/ \E S \in dispo : OnDisposition(S)
         \/ \E w \in Window : \/ OnSessionStart(w) \/ OnUserPrompt(w) \/ WatchOver(w) \/ ReadPrompt(w)
                              \/ \E m \in Msg : TakeIn(w, m) \/ Swallow(w, m) \/ Answer(w, m)
         \/ UNCHANGED vars
  PROVE  Sits
  <1>0. \A w \in Window : <<"error", w>> \notin hooks
    BY DEF OneSeat
  <1>1. CASE UserStop \/ RetryPending \/ ScanTranscripts \/ UNCHANGED vars
    BY <1>0, <1>1 DEF Sits, UserStop, Dispose, RetryPending, ScanTranscripts
  <1>2. ASSUME NEW m \in Msg, OnDeleted(m) PROVE Sits
    BY <1>0, <1>2 DEF Sits, OnDeleted, Dispose
  <1>3. ASSUME NEW t \in tasks, OnDeliveryDone(t) PROVE Sits
    <2>1. queue' \subseteq queue
      BY <1>3 DEF OnDeliveryDone, Done, NotDone
    <2> QED BY <1>0, <1>3, <2>1 DEF Sits, OnDeliveryDone, Done, NotDone, Reported
  <1>4. ASSUME NEW t \in tasks, TaskRefused(t) \/ TaskTypes(t) \/ TaskReturns(t)
        PROVE  Sits
    BY <1>0, <1>4 DEF Sits, TaskRefused, TaskTypes, TaskReturns
  <1>5. ASSUME NEW w \in Target, TroubleOver(w) PROVE Sits
    BY <1>0, <1>5 DEF Sits, TroubleOver
  <1>6. ASSUME NEW i \in Id, WarnUnreceived(i) \/ ReceiptDue(i) PROVE Sits
    BY <1>0, <1>6 DEF Sits, WarnUnreceived, Dispose, ReceiptDue
  <1>7. ASSUME NEW S \in dispo, OnDisposition(S) PROVE Sits
    BY <1>0, <1>7 DEF Sits, OnDisposition, Dispose
  <1>8. ASSUME NEW w \in Window, OnSessionStart(w) \/ OnUserPrompt(w) \/ WatchOver(w)
        PROVE  Sits
    <2>1. CASE OnSessionStart(w)
      BY <1>0, <2>1 DEF Sits, Take, OnSessionStart
    <2>2. CASE OnUserPrompt(w)
      <3>1. UNCHANGED <<up, resume, parked, drain, session, bound, proc, ended, watch, queue, ledger>>
        BY <2>2 DEF OnUserPrompt
      <3>2. hooks' \subseteq hooks
        BY <2>2 DEF OnUserPrompt, Take
      <3> QED BY <1>0, <3>1, <3>2 DEF Sits
    <2>3. CASE WatchOver(w)
      BY <1>0, <2>3 DEF Sits, WatchOver
    <2> QED BY <1>8, <2>1, <2>2, <2>3
  <1>9. ASSUME NEW w \in Window, ReadPrompt(w) PROVE Sits
    BY <1>0, <1>9, SendsQuietly DEF Sits, ReadPrompt
  <1>10. ASSUME NEW w \in Window, NEW m \in Msg, TakeIn(w, m) \/ Swallow(w, m) \/ Answer(w, m) PROVE Sits
    BY <1>0, <1>10, SendsQuietly DEF Sits, TakeIn, Swallow, Answer
  <1> HIDE DEF Sits
  <1> QED BY <1>1, <1>2, <1>3, <1>4, <1>5, <1>6, <1>7, <1>8, <1>9, <1>10

\* What the first request of a session does to the windows
LEMMA SpawnIs ==
  ASSUME TypeOK, OneSeat, NEW m \in Msg, Spawn(m)
  PROVE  /\ ~session /\ session' = TRUE /\ ended' = FALSE /\ hooks' = {} /\ queue = {} /\ ledger = {}
         /\ \A w \in Window : ~Live(w)
         /\ \E v \in Window : /\ proc[v] = "none" /\ bound' = v /\ watch' = {v}
                              /\ proc' = [proc EXCEPT ![v] = "boot"]
                              /\ prompt' = [prompt EXCEPT ![v] = m]
  <1>1. ~session /\ \A w \in Window : ~Live(w)
    BY SeatIs DEF Spawn, OneSeat
  <1>2. Of(proc, Abandoned) = proc
    BY <1>1 DEF Of, Abandoned, TypeOK, AgentOK
  <1>3. session' = TRUE /\ ended' = FALSE /\ hooks' = {} /\ queue = {} /\ ledger = {}
    BY <1>1 DEF Spawn, Of, OneSeat
  <1>4. Of(watch, {}) = {}
    BY <1>1 DEF Of
  <1>5. \E v \in Window : /\ proc[v] = "none" /\ bound' = v /\ watch' = {v}
                          /\ proc' = [proc EXCEPT ![v] = "boot"]
                          /\ prompt' = [prompt EXCEPT ![v] = m]
    BY <1>2, <1>4 DEF Spawn
  <1> QED BY <1>1, <1>3, <1>5

LEMMA ServeSits ==
  ASSUME TypeOK, StaysUp, OneSeat, NEW m \in Msg, Serve(m), ~NoAgentFiles(m), drain' = Outlived,
         UNCHANGED <<up, resume, parked>>
  PROVE  StaysUp' /\ OneSeat'
  <1>1. drain' = "none" /\ StaysUp'
    BY DEF Outlived, StaysUp
  <1>2. CASE MissingFolder(m)
    <2>1. ~session /\ UNCHANGED <<session, ended, bound, watch, proc, hooks, queue>> /\ ledger' \subseteq ledger
      BY <1>2, SeatIs DEF MissingFolder, Dispose
    <2> QED BY <1>1, <2>1 DEF OneSeat, Live
  <1>3. CASE SpawnFails(m)
    <2>1. ~session /\ ~session' /\ queue' = {} /\ UNCHANGED <<ended, bound, watch, proc, hooks>>
      BY <1>3, SeatIs DEF SpawnFails, NeverStarted
    <2>2. ledger' = {}
      BY <1>3 DEF SpawnFails, NeverStarted, Dispose, TypeOK, MarksOK
    <2> QED BY <1>1, <2>1, <2>2 DEF OneSeat, Live
  <1>4. CASE Spawn(m)
    <2>1. PICK v \in Window : /\ proc[v] = "none" /\ bound' = v /\ watch' = {v}
                              /\ proc' = [proc EXCEPT ![v] = "boot"]
      BY <1>4, SpawnIs
    <2>2. /\ session' = TRUE /\ ended' = FALSE /\ hooks' = {}
          /\ \A w \in Window : ~Live(w)
      BY <1>4, SpawnIs
    <2>3. \A w \in Window : Live(w)' <=> w = v
      BY <2>1, <2>2 DEF Live, TypeOK, AgentOK
    <2> QED BY <1>1, <2>1, <2>2, <2>3 DEF OneSeat
  <1>5. CASE Deliver(m) \/ Enqueue(m)
    <2>1. session
      BY <1>5 DEF Deliver, Enqueue, WorkerState
    <2>2. UNCHANGED <<session, ended, bound, watch, proc, hooks>>
      BY <1>5 DEF Deliver, Enqueue
    <2> QED BY <1>1, <2>1, <2>2 DEF OneSeat, Live
  <1> QED BY <1>2, <1>3, <1>4, <1>5 DEF Serve

\* The other steps that move somebody
LEMMA MovesSit ==
  ASSUME TypeOK, StaysUp, OneSeat,
         \/ OnRootDeleted
         \/ \E w \in Window : OnSessionEnd(w) \/ OnSpawnExited(w) \/ AgentUp(w)
  PROVE  StaysUp' /\ OneSeat'
  <1>1. ASSUME NEW w \in Window, OnSessionEnd(w) PROVE StaysUp' /\ OneSeat'
    <2>1. ~session
      BY <1>1 DEF OnSessionEnd, Take, OneSeat
    <2>2. UNCHANGED <<up, resume, parked, drain, session, bound, watch, proc, queue, ledger>> /\ hooks' \subseteq hooks
      BY <1>1 DEF OnSessionEnd, Take
    <2> QED BY <2>1, <2>2 DEF StaysUp, OneSeat, Live
  <1>2. ASSUME NEW w \in Window, OnSpawnExited(w) PROVE StaysUp' /\ OneSeat'
    <2>1. ~session /\ queue = {} /\ ledger = {}
      BY <1>2 DEF OnSpawnExited, OneSeat
    <2>2. session' = FALSE /\ queue' = {} /\ ledger' = {}
      BY <1>2, <2>1 DEF OnSpawnExited, NeverStarted, Dispose, TypeOK, SeatOK
    <2>3. UNCHANGED <<up, resume, parked, drain, ended, bound, proc, hooks>> /\ watch' \subseteq watch
      BY <1>2 DEF OnSpawnExited
    <2> QED BY <2>1, <2>2, <2>3 DEF StaysUp, OneSeat, Live
  <1>3. ASSUME NEW w \in Window, AgentUp(w) PROVE StaysUp' /\ OneSeat'
    <2>1. UNCHANGED <<up, resume, parked, drain, session, bound, ended, watch, queue, ledger>>
      BY <1>3 DEF AgentUp
    <2>2. \A v \in Window : Live(v)' <=> Live(v)
      BY <1>3 DEF AgentUp, Live, TypeOK, AgentOK
    <2>3. \A v \in Window : /\ <<"session_end", v>> \in hooks' => <<"session_end", v>> \in hooks
                            /\ <<"error", v>> \notin hooks'
      BY <1>3, SendsQuietly DEF AgentUp
    <2> QED BY <2>1, <2>2, <2>3 DEF StaysUp, OneSeat
  <1>4. CASE OnRootDeleted
    <2>1. session' = FALSE /\ parked' = {} /\ UNCHANGED <<up, resume, drain, watch>> /\ Terminate(session)
      BY <1>4 DEF OnRootDeleted
    <2>2. queue' = {} /\ ledger' = {}
      BY <2>1 DEF Terminate, Dispose, TypeOK, MarksOK
    <2>3. \A v \in Window : ~Live(v)'
      <3>1. CASE session
        <4>1. Kill({bound} \ {0}) /\ bound \in Window /\ bound # 0
          BY <2>1, <3>1, SeatIs DEF Terminate, OneSeat, Window
        <4>2. \A v \in Window : v = bound \/ ~Live(v)
          BY DEF OneSeat
        <4> QED BY <4>1, <4>2 DEF Kill, Live
      <3>2. CASE ~session
        BY <2>1, <3>2 DEF Terminate, OneSeat, Live
      <3> QED BY <3>1, <3>2
    <2>4. hooks' = hooks \/ \E f : hooks' = hooks \cup {<<"session_end", f>>}
      BY <2>1 DEF Terminate, Send
    <2>5. ASSUME NEW v \in Window PROVE <<"error", v>> \notin hooks'
      <3>1. <<"error", v>> \notin hooks
        BY DEF OneSeat
      <3>2. \A f : <<"error", v>> # <<"session_end", f>>
        OBVIOUS
      <3> QED BY <2>4, <3>1, <3>2
    <2> QED BY <2>1, <2>2, <2>3, <2>5 DEF StaysUp, OneSeat
  <1> QED BY <1>1, <1>2, <1>3, <1>4

LEMMA SeatStep ==
  ASSUME TypeOK, StaysUp, OneSeat, overdue = {}, Quiet, [Next]_vars
  PROVE  StaysUp' /\ OneSeat'
  <1>1. ASSUME NEW m \in Msg, Arrive(m) PROVE StaysUp' /\ OneSeat'
    BY <1>1, ServeSits, QuietSteps DEF Arrive
  <1>2. CASE BridgeStep
    BY <1>1, <1>2, SitsSteps, SitsStays, QuietSteps, MovesSit DEF BridgeStep
  <1>3. CASE TaskStep
    BY <1>3, SitsSteps, SitsStays DEF TaskStep
  <1>4. CASE AgentStep
    BY <1>4, SitsSteps, SitsStays, QuietSteps, MovesSit DEF AgentStep
  <1>5. CASE TimeStep
    BY <1>5, SitsSteps, SitsStays, QuietSteps DEF TimeStep
  <1>6. CASE UNCHANGED vars
    BY <1>6, SitsSteps, SitsStays
  <1> QED BY <1>2, <1>3, <1>4, <1>5, <1>6 DEF Next

-----------------------------------------------------------------------------
(* Handing and HandedOnce.                                                 *)

\* What a started delivery adds
LEMMA StartsQueued ==
  ASSUME NEW w, NEW q \in SUBSET Msg, NEW l, NEW tr, NEW T,
         StartDelivery(w, q, l, tr, T)
  PROVE  /\ T \subseteq tasks'
         /\ \A t \in tasks' \ T : t.win = w /\ t.msg \in q /\ t.at = "running" /\ l[w] = NoMsg
  BY DEF StartDelivery, Startable

\* Only what was not given yet is started in a free bound window
LEMMA StartFits ==
  ASSUME NEW w, NEW q \in SUBSET Msg, NEW l, NEW tr, NEW T \in SUBSET Task, NEW g, NEW b,
         g \in [Msg -> 0 .. 2], Alone(l, T), StartDelivery(w, q, l, tr, T),
         \A t \in T : TaskFits(t, q, g, b), QueueFits(q, T, g, b)
  PROVE  (\A t \in tasks' : TaskFits(t, q, g, b)) /\ QueueFits(q, tasks', g, b)
  <1>1. QueueFits(q, tasks', g, b)
    BY StartsQueued DEF QueueFits
  <1>2. ASSUME NEW t \in tasks' \ T PROVE TaskFits(t, q, g, b)
    <2>1. t.win = w /\ t.msg \in q /\ t.at = "running" /\ l[w] = NoMsg
      BY <1>2, StartsQueued
    <2>2. ASSUME w = b, g[t.msg] # 0 PROVE FALSE
      <3>1. g[t.msg] > 0
        <4>1. t.msg \in Msg
          BY <2>1
        <4>2. g[t.msg] \in 0 .. 2
          BY <4>1
        <4> QED BY <2>2, <4>2
      <3>2. PICK u \in T : u.win = b /\ u.msg = t.msg
        BY <2>1, <3>1 DEF QueueFits
      <3> QED BY <2>1, <2>2, <3>2 DEF Alone
    <2> QED BY <2>1, <2>2 DEF TaskFits
  <1> QED BY <1>1, <1>2

\* Steps that hand nothing over
HandsStill ==
    UNCHANGED <<bound, given, proc, tasks>> /\ seen \subseteq seen' /\ queue' \subseteq queue

LEMMA StillHanded ==
  ASSUME Handing, HandedOnce, HandsStill
  PROVE  Handing' /\ HandedOnce'
  BY DEF Handing, HandedOnce, HandsStill, TaskFits, QueueFits

LEMMA StillSteps ==
  ASSUME TypeOK,
         \/ UserStop \/ ScanTranscripts
         \/ \E m \in Msg : OnDeleted(m)
         \/ \E w \in Target : TroubleOver(w)
         \/ \E i \in Id : WarnUnreceived(i) \/ ReceiptDue(i)
         \/ \E S \in dispo : OnDisposition(S)
         \/ \E w \in Window : \/ OnSessionStart(w) \/ OnSessionEnd(w) \/ OnSpawnExited(w)
                              \/ WatchOver(w) \/ ReadPrompt(w)
                              \/ \E m \in Msg : TakeIn(w, m) \/ Swallow(w, m) \/ Answer(w, m)
         \/ UNCHANGED vars
  PROVE  HandsStill
  <1>1. CASE UserStop \/ ScanTranscripts \/ UNCHANGED vars
    BY <1>1 DEF HandsStill, UserStop, ScanTranscripts
  <1>2. ASSUME NEW m \in Msg, OnDeleted(m) PROVE HandsStill
    BY <1>2 DEF HandsStill, OnDeleted
  <1>3. ASSUME NEW w \in Target, TroubleOver(w) PROVE HandsStill
    BY <1>3 DEF HandsStill, TroubleOver
  <1>4. ASSUME NEW i \in Id, WarnUnreceived(i) \/ ReceiptDue(i) PROVE HandsStill
    BY <1>4 DEF HandsStill, WarnUnreceived, ReceiptDue
  <1>5. ASSUME NEW S \in dispo, OnDisposition(S) PROVE HandsStill
    BY <1>5 DEF HandsStill, OnDisposition
  <1>6. ASSUME NEW w \in Window, \/ OnSessionStart(w) \/ OnSessionEnd(w) \/ OnSpawnExited(w)
                                 \/ WatchOver(w) \/ ReadPrompt(w)
        PROVE  HandsStill
    BY <1>6 DEF HandsStill, OnSessionStart, OnSessionEnd, OnSpawnExited, NeverStarted, WatchOver,
                ReadPrompt
  <1>7. ASSUME NEW w \in Window, NEW m \in Msg, TakeIn(w, m) \/ Swallow(w, m) \/ Answer(w, m)
        PROVE  HandsStill
    BY <1>7 DEF HandsStill, TakeIn, Swallow, Answer
  <1> HIDE DEF HandsStill
  <1> QED BY <1>1, <1>2, <1>3, <1>4, <1>5, <1>6, <1>7

\* A delivery started in the bound window, of what waits there and what has just come
LEMMA StartHands ==
  ASSUME TypeOK, OneSeat, OneInv, Handing, HandedOnce, session,
         NEW q \in SUBSET Msg, queue \subseteq q, q \subseteq seen', seen \subseteq seen',
         \A m \in q \ queue : m \notin seen,
         StartDelivery(Window_for, q, latch, trouble, tasks),
         queue' = q, UNCHANGED <<bound, given, proc>>
  PROVE  Handing' /\ HandedOnce'
  <1>1. Window_for = bound /\ bound # 0 /\ proc[bound] # "none"
    BY SeatIs DEF OneSeat, Live, TypeOK, SeatOK, Window
  <1>2. given \in [Msg -> 0 .. 2] /\ tasks \in SUBSET Task
    BY DEF TypeOK, AgentOK, QueueOK
  <1>3. \A t \in tasks : TaskFits(t, q, given, bound)
    BY DEF Handing, TaskFits
  <1>4. QueueFits(q, tasks, given, bound)
    BY DEF Handing, QueueFits
  <1>5. (\A t \in tasks' : TaskFits(t, q, given, bound)) /\ QueueFits(q, tasks', given, bound)
    BY <1>2, <1>3, <1>4, StartFits DEF OneInv
  <1>6. ASSUME NEW t \in tasks' PROVE t.msg \in seen' /\ t.win # 0 /\ proc[t.win] # "none"
    <2>1. CASE t \in tasks
      BY <2>1 DEF Handing
    <2>2. CASE t \notin tasks
      <3>1. t.win = Window_for /\ t.msg \in q
        BY <2>2, StartsQueued
      <3> QED BY <1>1, <3>1
    <2> QED BY <2>1, <2>2
  <1>7. Handing'
    BY <1>5, <1>6 DEF Handing
  <1> QED BY <1>7 DEF HandedOnce

LEMMA ArriveHands ==
  ASSUME TypeOK, OneSeat, OneInv, Handing, HandedOnce, NEW m \in Msg, Serve(m), ~NoAgentFiles(m),
         m \notin seen, seen' = seen \cup {m}
  PROVE  Handing' /\ HandedOnce'
  <1>0. given \in [Msg -> 0 .. 2] /\ given[m] = 0
    BY DEF Handing, TypeOK, AgentOK
  <1>1. CASE MissingFolder(m) \/ SpawnFails(m)
    <2>1. HandsStill
      BY <1>1 DEF HandsStill, MissingFolder, SpawnFails, NeverStarted
    <2> QED BY <2>1, StillHanded
  <1>2. CASE Spawn(m)
    <2>1. PICK v \in Window : proc[v] = "none" /\ bound' = v /\ proc' = [proc EXCEPT ![v] = "boot"]
      BY <1>2, SpawnIs
    <2>2. queue' = {} /\ tasks' = tasks
      BY <1>2, SpawnIs DEF Spawn
    <2>3. given' = [k \in Msg |-> IF k = m THEN 1 ELSE given[k]]
      BY <1>0, <1>2 DEF Spawn, Give
    <2>4. ASSUME NEW t \in tasks
          PROVE  /\ TaskFits(t, queue', given', bound') /\ t.msg \in seen'
                 /\ t.win # 0 /\ proc'[t.win] # "none"
      <3>1. t.msg \in seen /\ t.win # 0 /\ proc[t.win] # "none" /\ t.win # v
        BY <2>1 DEF Handing
      <3>2. proc'[t.win] # "none"
        BY <2>1, <3>1 DEF TypeOK, AgentOK
      <3> QED BY <2>1, <2>2, <3>1, <3>2 DEF TaskFits
    <2>5. QueueFits(queue', tasks', given', bound') /\ queue' \subseteq seen'
      BY <2>2 DEF QueueFits
    <2>6. \A k \in Msg \ seen' : given'[k] = 0
      BY <2>3 DEF Handing
    <2>7. Handing'
      BY <2>2, <2>4, <2>5, <2>6 DEF Handing
    <2> QED BY <2>3, <2>7 DEF HandedOnce
  <1>3. CASE Deliver(m)
    <2>1. session /\ queue' \in SUBSET Msg
      BY <1>3 DEF Deliver, WorkerState, TypeOK, QueueOK
    <2> QED BY <1>3, <2>1, StartHands DEF Deliver, Handing
  <1>4. CASE Enqueue(m)
    <2>1. queue' = queue \cup {m} /\ UNCHANGED <<bound, given, proc, tasks>>
      BY <1>4 DEF Enqueue
    <2>2. \A t \in tasks : TaskFits(t, queue', given, bound)
      BY <2>1 DEF Handing, TaskFits
    <2>3. QueueFits(queue', tasks, given, bound)
      BY <1>0, <2>1 DEF Handing, QueueFits
    <2> QED BY <2>1, <2>2, <2>3 DEF Handing, HandedOnce
  <1> QED BY <1>1, <1>2, <1>3, <1>4 DEF Serve

LEMMA DoneHands ==
  ASSUME TypeOK, OneInv, Handing, HandedOnce, OneToOne, NEW t \in tasks, OnDeliveryDone(t)
  PROVE  Handing' /\ HandedOnce'
  <1>0. /\ given \in [Msg -> 0 .. 2] /\ tasks \in SUBSET Task /\ queue \in SUBSET Msg
        /\ latch \in [Target -> Msg \cup {NoMsg}]
    BY DEF TypeOK, AgentOK, QueueOK
  <1>1. UNCHANGED <<bound, given, proc, seen>>
    BY DEF OnDeliveryDone, Done, NotDone, Reported
  <1>2. CASE NotDone(t)
    <2>1. tasks' = tasks \ {t} /\ queue' = queue /\ t.at = "err"
      BY <1>2 DEF NotDone
    <2>2. QueueFits(queue, tasks', given, bound)
      BY <2>1 DEF Handing, QueueFits
    <2> QED BY <1>1, <2>1, <2>2 DEF Handing, HandedOnce
  <1>3. CASE Done(t)
    <2>1. t.msg \in Msg /\ t.win \in Target
      BY <1>0 DEF Task
    <2>2. queue' = queue \ {t.msg}
      BY <1>0, <1>3, <2>1 DEF Done, OneToOne
    <2>3. Alone(Unlatched(t.win), tasks \ {t})
      <3>1. \A u \in tasks \ {t} : u.win \in Target /\ u.win # t.win
        BY <1>0 DEF OneInv, Alone, Task
      <3> QED BY <1>0, <2>1, <3>1 DEF OneInv, Alone, Unlatched
    <2>4. \A u \in tasks \ {t} : TaskFits(u, queue', given, bound)
      BY <2>2 DEF Handing, TaskFits
    <2>5. QueueFits(queue', tasks \ {t}, given, bound)
      BY <2>2 DEF Handing, QueueFits
    <2>6. StartDelivery(t.win, queue', Unlatched(t.win), trouble', tasks \ {t})
      BY <1>3 DEF Done
    <2>7. queue' \in SUBSET Msg /\ (tasks \ {t}) \in SUBSET Task
      BY <1>0, <2>2
    <2>8. (\A u \in tasks' : TaskFits(u, queue', given, bound)) /\ QueueFits(queue', tasks', given, bound)
      BY <1>0, <2>3, <2>4, <2>5, <2>6, <2>7, StartFits
    <2>9. ASSUME NEW u \in tasks' PROVE u.msg \in seen /\ u.win # 0 /\ proc[u.win] # "none"
      <3>1. CASE u \in tasks \ {t}
        BY <3>1 DEF Handing
      <3>2. CASE u \notin tasks \ {t}
        <4>1. u.win = t.win /\ u.msg \in queue'
          BY <2>6, <2>7, <3>2, StartsQueued, SMTT(20)
        <4> QED BY <2>2, <4>1 DEF Handing
      <3> QED BY <3>1, <3>2
    <2> QED BY <1>1, <2>2, <2>8, <2>9 DEF Handing, HandedOnce
  <1> QED BY <1>2, <1>3 DEF OnDeliveryDone

LEMMA TaskHands ==
  ASSUME TypeOK, OneSeat, OneInv, Handing, HandedOnce, Quiet,
         NEW t \in tasks, TaskRefused(t) \/ TaskTypes(t) \/ TaskReturns(t)
  PROVE  Handing' /\ HandedOnce'
  <1>0. given \in [Msg -> 0 .. 2] /\ tasks \in SUBSET Task /\ t.msg \in Msg
    BY DEF TypeOK, AgentOK, QueueOK, Task
  <1>1. UNCHANGED <<bound, proc, seen, queue>>
    BY DEF TaskRefused, TaskTypes, TaskReturns
  <1>2. PICK v : /\ tasks' = (tasks \ {t}) \cup {v} /\ v.win = t.win /\ v.msg = t.msg
                 /\ \/ t.at = "running" /\ v.at = "err" /\ UNCHANGED given
                    \/ t.at = "running" /\ v.at = "typed" /\ Give({t.msg}) /\ TakesKeys(t.win)
                    \/ t.at = "typed" /\ v.at = "ok" /\ UNCHANGED given
    <2>1. \A r : /\ [t EXCEPT !.at = r].win = t.win /\ [t EXCEPT !.at = r].msg = t.msg
                 /\ [t EXCEPT !.at = r].at = r
      BY <1>0 DEF Task
    <2>2. CASE TaskRefused(t)
      BY <2>1, <2>2 DEF TaskRefused
    <2>3. CASE TaskTypes(t)
      BY <2>1, <2>3 DEF TaskTypes, Type
    <2>4. CASE TaskReturns(t)
      <3>1. "midsend" \notin Moves
        BY DEF Quiet
      <3>2. tasks' = (tasks \ {t}) \cup {[t EXCEPT !.at = "ok"]}
        BY <2>4, <3>1 DEF TaskReturns, Optional
      <3> QED BY <2>1, <2>4, <3>2 DEF TaskReturns
    <2> QED BY <2>2, <2>3, <2>4
  <1>3. CASE UNCHANGED given
    <2>1. TaskFits(v, queue, given, bound)
      <3>1. TaskFits(t, queue, given, bound) /\ v.win = t.win /\ v.msg = t.msg
        BY <1>2 DEF Handing
      <3>2. CASE t.at = "running" /\ v.at = "err"
        BY <3>1, <3>2 DEF TaskFits
      <3>3. CASE t.at = "typed" /\ v.at = "ok"
        BY <3>1, <3>3 DEF TaskFits
      <3>4. CASE t.at = "running" /\ v.at = "typed" /\ Give({t.msg}) /\ TakesKeys(t.win)
        <4>1. t.win = bound /\ given[t.msg] = 0
          BY <3>1, <3>4 DEF TakesKeys, OneSeat, Live, TaskFits
        <4>2. given'[t.msg] = 1
          BY <1>0, <3>4, <4>1 DEF Give
        <4> QED BY <1>3, <4>1, <4>2
      <3> QED BY <1>2, <3>2, <3>3, <3>4
    <2>2. QueueFits(queue, tasks', given, bound)
      BY <1>2 DEF Handing, QueueFits
    <2> QED BY <1>1, <1>2, <1>3, <2>1, <2>2 DEF Handing, HandedOnce
  <1>4. CASE t.at = "running" /\ v.at = "typed" /\ Give({t.msg}) /\ TakesKeys(t.win)
    <2>1. t.win = bound /\ given[t.msg] = 0
      BY <1>4 DEF TakesKeys, OneSeat, Live, Handing, TaskFits
    <2>2. given' = [k \in Msg |-> IF k = t.msg THEN 1 ELSE given[k]]
      BY <1>0, <1>4, <2>1 DEF Give
    <2>3. \A u \in tasks \ {t} : u.win # bound
      BY <2>1 DEF OneInv, Alone
    <2>4. \A u \in tasks' : TaskFits(u, queue, given', bound)
      BY <1>2, <1>4, <2>1, <2>3 DEF Handing, TaskFits
    <2>5. QueueFits(queue, tasks', given', bound)
      <3> SUFFICES ASSUME NEW m \in queue, given'[m] > 0
                   PROVE  \E u \in tasks' : u.win = bound /\ u.msg = m /\ u.at \in {"typed", "ok"}
        BY DEF QueueFits
      <3>1. CASE m = t.msg
        BY <1>2, <1>4, <2>1, <3>1
      <3>2. CASE m # t.msg
        <4>1. given[m] > 0
          BY <2>2, <3>2 DEF TypeOK, QueueOK
        <4>2. PICK u \in tasks : u.win = bound /\ u.msg = m /\ u.at \in {"typed", "ok"}
          BY <4>1 DEF Handing, QueueFits
        <4> QED BY <1>2, <3>2, <4>2
      <3> QED BY <3>1, <3>2
    <2>6. \A u \in tasks' : u.msg \in seen /\ u.win # 0 /\ proc[u.win] # "none"
      BY <1>2 DEF Handing
    <2>7. \A k \in Msg \ seen : given'[k] = 0
      BY <2>2 DEF Handing
    <2> QED BY <1>1, <2>2, <2>4, <2>5, <2>6, <2>7 DEF Handing, HandedOnce
  <1> QED BY <1>2, <1>3, <1>4

\* The other steps that take somebody away, start somebody or flush the queue
LEMMA OtherHands ==
  ASSUME TypeOK, OneSeat, OneInv, Handing, HandedOnce,
         \/ RetryPending \/ OnRootDeleted
         \/ \E w \in Window : OnUserPrompt(w) \/ AgentUp(w)
  PROVE  Handing' /\ HandedOnce'
  <1>0. queue \in SUBSET Msg
    BY DEF TypeOK, QueueOK
  <1>1. CASE RetryPending
    <2>1. session
      BY <1>1 DEF RetryPending, WorkerState
    <2> QED BY <1>0, <1>1, <2>1, StartHands DEF RetryPending, Handing
  <1>2. ASSUME NEW w \in Window, OnUserPrompt(w) PROVE Handing' /\ HandedOnce'
    <2>1. CASE session
      BY <1>0, <1>2, <2>1, StartHands DEF OnUserPrompt, Handing
    <2>2. CASE ~session
      <3>1. HandsStill
        BY <1>2, <2>2 DEF OnUserPrompt, HandsStill
      <3> QED BY <3>1, StillHanded
    <2> QED BY <2>1, <2>2
  <1>3. ASSUME NEW w \in Window, AgentUp(w) PROVE Handing' /\ HandedOnce'
    <2>1. UNCHANGED <<bound, given, tasks, seen, queue>>
      BY <1>3 DEF AgentUp
    <2>2. \A v : proc[v] # "none" => proc'[v] # "none"
      BY <1>3 DEF AgentUp, TypeOK, AgentOK
    <2> QED BY <2>1, <2>2 DEF Handing, HandedOnce
  <1>4. CASE OnRootDeleted
    <2>1. UNCHANGED <<given, tasks, seen>> /\ queue' = {} /\ bound' \in {bound, 0}
      BY <1>4 DEF OnRootDeleted, Terminate
    <2>2. \A t \in tasks : t.win \in Target /\ t.win # 0 /\ proc[t.win] # "none"
      BY DEF Handing, TypeOK, QueueOK, Task
    <2>3. \A t \in tasks : proc'[t.win] # "none"
      BY <1>4, <2>2 DEF OnRootDeleted, Terminate, Kill, Target, Window
    <2>4. \A t \in tasks : TaskFits(t, queue', given, bound')
      BY <2>1, <2>2 DEF Handing, TaskFits
    <2>5. QueueFits(queue', tasks, given, bound')
      BY <2>1 DEF QueueFits
    <2> QED BY <2>1, <2>3, <2>4, <2>5 DEF Handing, HandedOnce
  <1> QED BY <1>1, <1>2, <1>3, <1>4

LEMMA HandsStep ==
  ASSUME TypeOK, StaysUp, OneSeat, OneInv, Handing, HandedOnce, OneToOne, Quiet, [Next]_vars
  PROVE  Handing' /\ HandedOnce'
  <1>0. overdue = {}
    BY DEF OneInv
  <1>1. ASSUME NEW m \in Msg, Arrive(m) PROVE Handing' /\ HandedOnce'
    BY <1>0, <1>1, ArriveHands, QuietSteps DEF Arrive
  <1>2. CASE BridgeStep
    BY <1>0, <1>1, <1>2, StillSteps, StillHanded, QuietSteps, DoneHands, OtherHands DEF BridgeStep
  <1>3. CASE TaskStep
    BY <1>3, TaskHands DEF TaskStep
  <1>4. CASE AgentStep
    BY <1>0, <1>4, StillSteps, StillHanded, QuietSteps, OtherHands DEF AgentStep
  <1>5. CASE TimeStep
    BY <1>0, <1>5, StillSteps, StillHanded, QuietSteps DEF TimeStep
  <1>6. CASE UNCHANGED vars
    BY <1>6, StillSteps, StillHanded
  <1> QED BY <1>2, <1>3, <1>4, <1>5, <1>6 DEF Next

-----------------------------------------------------------------------------
(* OpenIsHeld.                                                             *)

\* What holds an unanswered id without proof of receipt
HeldBy(i) ==
    \/ \E m \in queue \cup resume : TsOf[m] = i
    \/ receipt[i] # "none"
    \/ \E w \in Window :
         \/ prompt[w] # NoMsg /\ TsOf[prompt[w]] = i /\ (Live(w) \/ w \in watch)
         \/ <<"user_prompt", w>> \in hooks

\* Steps after which nobody new needs holding, and who held still does
KeepsHeld ==
    \A i \in ledger' \ received' :
       /\ i \in ledger \ received
       /\ receipt[i] # "none" => receipt'[i] # "none"
       /\ UNCHANGED <<queue, resume, prompt>>
       /\ \A w \in Window :
            /\ Live(w) => Live(w)'
            /\ w \in watch => w \in watch' \/ Live(w)
            /\ <<"user_prompt", w>> \in hooks => <<"user_prompt", w>> \in hooks'

LEMMA KeptHeld ==
  ASSUME OpenIsHeld, KeepsHeld
  PROVE  OpenIsHeld'
  BY Zenon DEF OpenIsHeld, KeepsHeld

LEMMA KeepsSteps ==
  ASSUME TypeOK, OneSeat,
         \/ UserStop \/ ScanTranscripts \/ RetryPending \/ OnRootDeleted
         \/ \E m \in Msg : OnDeleted(m)
         \/ \E w \in Target : TroubleOver(w)
         \/ \E i \in Id : WarnUnreceived(i) \/ ReceiptDue(i)
         \/ \E S \in dispo : OnDisposition(S)
         \/ \E t \in tasks : NotDone(t) \/ TaskRefused(t) \/ TaskTypes(t) \/ TaskReturns(t)
         \/ \E w \in Window : \/ OnSessionStart(w) \/ OnSessionEnd(w) \/ OnUserPrompt(w)
                              \/ OnSpawnExited(w) \/ WatchOver(w) \/ AgentUp(w)
                              \/ \E m \in Msg : TakeIn(w, m) \/ Swallow(w, m) \/ Answer(w, m)
         \/ UNCHANGED vars
  PROVE  KeepsHeld
  <1>0. ledger \subseteq Id /\ receipt \in [Id -> {"none", "wait", "due"}]
    BY DEF TypeOK, MarksOK, QueueOK
  <1>1. CASE UserStop \/ ScanTranscripts \/ RetryPending \/ UNCHANGED vars
    BY <1>1 DEF KeepsHeld, UserStop, ScanTranscripts, RetryPending, Dispose, Live
  <1>2. CASE OnRootDeleted
    BY <1>0, <1>2 DEF KeepsHeld, OnRootDeleted, Terminate, Dispose
  <1>3. ASSUME NEW m \in Msg, OnDeleted(m) PROVE KeepsHeld
    BY <1>3 DEF KeepsHeld, OnDeleted, Dispose, Live
  <1>4. ASSUME NEW w \in Target, TroubleOver(w) PROVE KeepsHeld
    BY <1>4 DEF KeepsHeld, TroubleOver, Live
  <1>5. ASSUME NEW i \in Id, WarnUnreceived(i) PROVE KeepsHeld
    BY <1>0, <1>5 DEF KeepsHeld, WarnUnreceived, Dispose, Live
  <1>6. ASSUME NEW i \in Id, ReceiptDue(i) PROVE KeepsHeld
    BY <1>0, <1>6 DEF KeepsHeld, ReceiptDue, Live
  <1>7. ASSUME NEW S \in dispo, OnDisposition(S) PROVE KeepsHeld
    BY <1>7 DEF KeepsHeld, OnDisposition, Dispose, Live
  <1>8. ASSUME NEW t \in tasks, NotDone(t) \/ TaskRefused(t) \/ TaskTypes(t) \/ TaskReturns(t)
        PROVE  KeepsHeld
    BY <1>8 DEF KeepsHeld, NotDone, Reported, TaskRefused, TaskTypes, TaskReturns, Live
  <1>9. ASSUME NEW w \in Window, OnSessionStart(w) \/ OnSessionEnd(w) PROVE KeepsHeld
    BY <1>9 DEF KeepsHeld, OnSessionStart, OnSessionEnd, Take, Live
  <1>10. ASSUME NEW w \in Window, OnUserPrompt(w) PROVE KeepsHeld
    <2>1. ledger' \ received' = {}
      BY <1>10 DEF OnUserPrompt, OneSeat
    <2> QED BY <2>1 DEF KeepsHeld
  <1>11. ASSUME NEW w \in Window, OnSpawnExited(w) PROVE KeepsHeld
    <2>1. ledger = {}
      BY <1>11 DEF OnSpawnExited, OneSeat
    <2>2. ledger' = {}
      BY <1>11, <2>1 DEF OnSpawnExited, NeverStarted, Dispose
    <2> QED BY <2>2 DEF KeepsHeld
  <1>12. ASSUME NEW w \in Window, WatchOver(w) PROVE KeepsHeld
    BY <1>12 DEF KeepsHeld, WatchOver, Live
  <1>13. ASSUME NEW w \in Window, AgentUp(w) PROVE KeepsHeld
    <2>1. \A v \in Window : Live(v) => Live(v)'
      BY <1>13 DEF AgentUp, Live, TypeOK, AgentOK
    <2>2. hooks \subseteq hooks'
      BY <1>13 DEF AgentUp, Send
    <2> QED BY <1>13, <2>1, <2>2 DEF KeepsHeld, AgentUp
  <1>14. ASSUME NEW w \in Window, NEW m \in Msg, TakeIn(w, m) \/ Swallow(w, m) \/ Answer(w, m)
         PROVE  KeepsHeld
    <2>1. hooks \subseteq hooks'
      BY <1>14 DEF TakeIn, Swallow, Answer, Send
    <2> QED BY <1>14, <2>1 DEF KeepsHeld, TakeIn, Swallow, Answer, Live
  <1> HIDE DEF KeepsHeld
  <1> QED BY <1>1, <1>2, <1>3, <1>4, <1>5, <1>6, <1>7, <1>8, <1>9, <1>10, <1>11, <1>12, <1>13, <1>14

\* A request just taken on is queued or its process's prompt
LEMMA ArriveHeld ==
  ASSUME TypeOK, OneSeat, OpenIsHeld, NEW m \in Msg, Serve(m), ~NoAgentFiles(m),
         UNCHANGED <<resume>>
  PROVE  OpenIsHeld'
  <1>0. ledger \subseteq Id /\ TsOf[m] \in Id /\ m # NoMsg
    BY TsType DEF TypeOK, MarksOK
  <1>1. CASE MissingFolder(m) \/ SpawnFails(m)
    <2>1. ledger' = {}
      BY <1>0, <1>1 DEF MissingFolder, SpawnFails, NeverStarted, Dispose
    <2> QED BY <2>1 DEF OpenIsHeld
  <1>2. CASE Spawn(m)
    <2>1. PICK v \in Window : /\ proc' = [proc EXCEPT ![v] = "boot"]
                              /\ prompt' = [prompt EXCEPT ![v] = m]
      BY <1>2, SpawnIs
    <2>2. prompt'[v] = m /\ Live(v)'
      BY <2>1 DEF Live, TypeOK, AgentOK
    <2>3. ledger' = {TsOf[m]}
      BY <1>2, SpawnIs DEF Spawn, Track
    <2> QED BY <1>0, <2>2, <2>3 DEF OpenIsHeld
  <1>3. CASE Deliver(m) \/ Enqueue(m)
    <2>1. /\ queue' = queue \cup {m} /\ Track(TsOf[m])
          /\ UNCHANGED <<receipt, prompt, proc, watch, hooks>>
      BY <1>3 DEF Deliver, Enqueue
    <2> QED BY <2>1 DEF OpenIsHeld, Track, Live
  <1> QED BY <1>1, <1>2, <1>3 DEF Serve

\* What leaves the queue goes under the receipt watch
LEMMA DoneHeld ==
  ASSUME TypeOK, OpenIsHeld, NEW t \in tasks, Done(t)
  PROVE  OpenIsHeld'
  <1>0. t.msg \in Msg /\ TsOf[t.msg] \in Id /\ receipt \in [Id -> {"none", "wait", "due"}] /\ ledger \subseteq Id
    BY TsType DEF TypeOK, QueueOK, Task, MarksOK
  <1>1. /\ UNCHANGED <<ledger, received, resume, prompt, proc, watch, hooks>>
        /\ receipt' = [receipt EXCEPT ![TsOf[t.msg]] = "wait"]
        /\ queue' = {m \in queue : TsOf[m] # TsOf[t.msg]}
    BY DEF Done, Reported
  <1>2. SUFFICES ASSUME NEW i \in ledger \ received, i # TsOf[t.msg], HeldBy(i) PROVE HeldBy(i)'
    BY <1>0, <1>1 DEF OpenIsHeld, HeldBy
  <1>3. receipt'[i] = receipt[i]
    BY <1>0, <1>1, <1>2
  <1> QED BY <1>1, <1>2, <1>3 DEF HeldBy, Live

\* The prompt read becomes a hook on its way
LEMMA ReadHeld ==
  ASSUME TypeOK, StaysUp, OpenIsHeld, NEW w \in Window, ReadPrompt(w)
  PROVE  OpenIsHeld'
  <1>1. <<"user_prompt", w>> \in hooks'
    BY DEF ReadPrompt, Send, StaysUp
  <1> QED BY <1>1 DEF OpenIsHeld

LEMMA HeldStep ==
  ASSUME TypeOK, StaysUp, OneSeat, overdue = {}, OpenIsHeld, Quiet, [Next]_vars
  PROVE  OpenIsHeld'
  <1>1. ASSUME NEW m \in Msg, Arrive(m) PROVE OpenIsHeld'
    BY <1>1, ArriveHeld, QuietSteps DEF Arrive
  <1>2. CASE BridgeStep
    BY <1>1, <1>2, KeepsSteps, KeptHeld, QuietSteps, DoneHeld DEF BridgeStep, OnDeliveryDone
  <1>3. CASE TaskStep
    BY <1>3, KeepsSteps, KeptHeld DEF TaskStep
  <1>4. CASE AgentStep
    BY <1>4, KeepsSteps, KeptHeld, QuietSteps, ReadHeld DEF AgentStep
  <1>5. CASE TimeStep
    BY <1>5, KeepsSteps, KeptHeld, QuietSteps DEF TimeStep
  <1>6. CASE UNCHANGED vars
    BY <1>6, KeepsSteps, KeptHeld
  <1> QED BY <1>2, <1>3, <1>4, <1>5, <1>6 DEF Next

\* As long as an agent goes only with its thread, deliveries end in time and refuse
\* before they type, no turn fails, no request is edited and the Bridge stays up,
\* whatever is taken on stays in somebody's hands until it is answered or its author is
\* told, and no agent is given it twice, in the third window no more than in the first
\* two (Dispatch, start_delivery, on_delivery_done,
\* awaiting_receipt).
THEOREM HeldTillAnswered == OneToOne /\ Quiet => (Spec => [](HeldAndHandedOnce /\ HandedOnce))
  <1> SUFFICES ASSUME OneToOne, Quiet PROVE Spec => [](HeldAndHandedOnce /\ HandedOnce)
    OBVIOUS
  <1> DEFINE Inv == StaysUp /\ OneSeat /\ OneInv /\ Handing /\ HandedOnce /\ OpenIsHeld
  <1>1. Init => Inv
    BY DEF Init, StaysUp, OneSeat, OneInv, Alone, Handing, QueueFits, HandedOnce, OpenIsHeld, Live
  <1>2. TypeOK /\ Inv /\ [Next]_vars => Inv'
    <2> SUFFICES ASSUME TypeOK, Inv, [Next]_vars PROVE Inv'
      OBVIOUS
    <2>1. "slow" \notin Moves /\ overdue = {}
      BY DEF Quiet, OneInv
    <2>2. StaysUp' /\ OneSeat'
      BY <2>1, SeatStep
    <2>3. OneInv'
      BY <2>1, OneStep
    <2>4. Handing' /\ HandedOnce'
      BY HandsStep
    <2>5. OpenIsHeld'
      BY <2>1, HeldStep
    <2> QED BY <2>2, <2>3, <2>4, <2>5
  <1>3. Inv => HeldAndHandedOnce /\ HandedOnce
    BY DEF HeldAndHandedOnce
  <1> QED BY <1>1, <1>2, <1>3, TypeCorrect, PTL DEF Spec

=============================================================================
