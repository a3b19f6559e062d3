--------------------------- MODULE PromptsProofs ----------------------------
(***************************************************************************)
(* Theorems about Prompts, for any calls, tools, questions and modals, and *)
(* every set of moves.                                                     *)
(*                                                                         *)
(* One inductive invariant carries the first three: the five invariants the *)
(* runs check and Stages, which says how far a call has come for each place *)
(* its hook or its prompt can be in.  Awake, inductive relative to it, is   *)
(* why a form outlives a reading older than it.                             *)
(***************************************************************************)
EXTENDS Prompts, TLAPS

Waiting(c) == call[c] \in {"open", "gone"}

\* A hook in the loop's queue has no prompt yet; a pending prompt's hook is open or
\* was given up by the agent; without a Bridge nothing is queued or pending, and
\* what is to be folded was left without an answer.
Stages ==
    /\ \A c \in Call : c \in hookq => Waiting(c) /\ post[c] = "none"
    /\ \A c \in pend : Waiting(c)
    /\ \A c \in Call : call[c] = "none" => post[c] = "none"
    /\ ~up => /\ hookq = {} /\ pend = {}
              /\ \A c \in noted : call[c] \in {"aside", "gone"}

IInv == /\ TypeOK /\ PromptsAgree /\ ToldTheTruth /\ HookIsHeld
        /\ AskedOutlivesRestart /\ Stages

\* The part of it that is about permissions
Answers == PermOK /\ PromptsAgree /\ ToldTheTruth /\ HookIsHeld /\ Stages

-----------------------------------------------------------------------------
(* The silence watch keeps its type under each of its operations.          *)

WatchTyped(w) == w \in Watch /\ (w.awaiting => w.on)

LEMMA TouchedType == ASSUME NEW w, WatchTyped(w), NEW busy
                     PROVE  WatchTyped(Touched(w, busy))
BY DEF WatchTyped, Touched, Watch

LEMMA SuspendedType == ASSUME NEW w, WatchTyped(w) PROVE WatchTyped(Suspended(w))
BY DEF WatchTyped, Suspended, Watch

LEMMA ResumedType == ASSUME NEW w, WatchTyped(w), NEW rearm \in BOOLEAN
                     PROVE  WatchTyped(Resumed(w, rearm))
BY DEF WatchTyped, Resumed, Watch

LEMMA UnwatchedType == ASSUME NEW w, WatchTyped(w) PROVE WatchTyped(Unwatched(w))
BY DEF WatchTyped, Unwatched, Quiescent, Watch

LEMMA WatchStep == ASSUME WatchOK, Next PROVE WatchOK'
<1> USE DEF WatchOK
<1>0. WatchTyped(watch)
  BY DEF WatchTyped
<1>1. SUFFICES WatchTyped(watch')
  BY DEF WatchTyped
<1>2. /\ WatchTyped(Touched(watch, TRUE)) /\ WatchTyped(Touched(watch, FALSE))
      /\ WatchTyped(Suspended(watch)) /\ WatchTyped(Suspended(Touched(watch, FALSE)))
      /\ WatchTyped(Resumed(watch, TRUE)) /\ WatchTyped(Resumed(watch, FALSE))
      /\ WatchTyped(Resumed(Touched(watch, FALSE), FALSE))
      /\ WatchTyped(Unwatched(watch)) /\ WatchTyped(Quiescent)
      /\ WatchTyped([watch EXCEPT !.why = @ \cup {"turn"}])
      /\ WatchTyped([watch EXCEPT !.quiet = TRUE])
      /\ WatchTyped([Quiescent EXCEPT !.on = TRUE, !.why = {"turn"}])
  <2>1. WatchTyped(Touched(watch, TRUE)) /\ WatchTyped(Touched(watch, FALSE))
    BY <1>0, TouchedType
  <2>2. WatchTyped(Quiescent) /\ WatchTyped([Quiescent EXCEPT !.on = TRUE, !.why = {"turn"}])
    BY DEF WatchTyped, Watch, Quiescent
  <2>3. /\ WatchTyped([watch EXCEPT !.why = @ \cup {"turn"}])
        /\ WatchTyped([watch EXCEPT !.quiet = TRUE])
    BY <1>0 DEF WatchTyped, Watch
  <2> QED
    BY <1>0, <2>1, <2>2, <2>3, SuspendedType, ResumedType, UnwatchedType
<1>3. CASE PermStep
  BY <1>0, <1>2, <1>3 DEF PermStep, OnPerm, AnswerAtOnce, AskPerson, OnPermClick,
       Deadline, ExpirePerm
<1>4. CASE DialogStep
  BY <1>0, <1>2, <1>4 DEF DialogStep, OnQuestion, Kick, DecideDialogs, OfferOnRefusal,
       PressRow, RefuseRow, PressEscape, Done
<1>5. CASE TurnStep
  BY <1>0, <1>2, <1>5 DEF TurnStep, OnRequest, OnDelivered, OnActivity, OnDisposition,
       OnStop, OnTurnFailure, Settle, Quieten
<1>6. CASE AgentStep
  BY <1>0, <1>6 DEF AgentStep, CallHook, Draw, OpenModal, AnswerAtMachine, AgentEnds,
       AgentResumed
<1>7. CASE Restart \/ Boot
  BY <1>0, <1>2, <1>7 DEF Restart, Boot
<1> QED
  BY <1>3, <1>4, <1>5, <1>6, <1>7 DEF Next

-----------------------------------------------------------------------------
(* Dialogs and the agent.                                                  *)

Kept == DialogOK /\ AskedOutlivesRestart

LEMMA PutType ==
    ASSUME NEW d \in Dialog, NEW form \in BOOLEAN, NEW posted \in BOOLEAN,
           NEW kept, kept \subseteq record, Kept, PutDialog(d, form, posted, kept)
    PROVE  /\ dlg' \subseteq Prompt /\ \A p, q \in dlg' : p = q
           /\ record' \subseteq Prompt /\ \A p, q \in record' : p = q
           /\ dlg' \subseteq record'
<1>1. {[dialog |-> d, form |-> form]} \subseteq Prompt
  BY DEF Prompt
<1> QED
  BY <1>1 DEF PutDialog, Kept, DialogOK

\* One dialog prompt at most, and the one in memory is on disk: a step leaves dialogs
\* alone, puts one up, or takes one down from both
LEMMA KeptStep == ASSUME AgentOK, Kept, Next PROVE Kept'
<1>1. CASE UNCHANGED dialogs
  BY <1>1 DEF dialogs, Kept, DialogOK, AskedOutlivesRestart
<1>2. CASE \E q \in Question : OnQuestion(q)
  <2>1. PICK q \in Question : OnQuestion(q)
    BY <1>2
  <2>2. CASE UNCHANGED <<dlg, record>>
    BY <2>1, <2>2 DEF OnQuestion, Kept, DialogOK, AskedOutlivesRestart
  <2>3. CASE \E posted \in BOOLEAN : PutDialog(q, TRUE, posted, record)
    BY <2>1, <2>3, PutType DEF OnQuestion, Kept, DialogOK, AskedOutlivesRestart, Dialog
  <2> QED
    BY <2>1, <2>2, <2>3 DEF OnQuestion
<1>3. CASE Kick
  BY <1>3 DEF Kick, Kept, DialogOK, AskedOutlivesRestart, AgentOK
<1>4. ASSUME NEW posted \in BOOLEAN, DecideDialogs(posted) PROVE Kept'
  <2>1. scan' \in [at : BOOLEAN, saw : Dialog \cup {NoDialog}]
    BY <1>4 DEF DecideDialogs, NoScan
  <2>2. CASE UNCHANGED <<dlg, record>>
    BY <2>1, <2>2 DEF Kept, DialogOK, AskedOutlivesRestart
  <2>3. CASE dlg' = {} /\ record' = record \ dlg
    BY <2>1, <2>3 DEF Kept, DialogOK, AskedOutlivesRestart
  <2>4. CASE scan.saw # NoDialog /\ PutDialog(scan.saw, FALSE, posted, record \ dlg)
    <3>1. scan.saw \in Dialog
      BY <2>4 DEF Kept, DialogOK
    <3>2. /\ dlg' \subseteq Prompt /\ \A p, q \in dlg' : p = q
          /\ record' \subseteq Prompt /\ \A p, q \in record' : p = q
          /\ dlg' \subseteq record'
      BY <2>4, <3>1, PutType, record \ dlg \subseteq record
    <3> QED
      BY <2>1, <3>2 DEF Kept, DialogOK, AskedOutlivesRestart
  <2> QED
    BY <1>4, <2>2, <2>3, <2>4 DEF DecideDialogs
<1>5. ASSUME NEW posted \in BOOLEAN, OfferOnRefusal(posted) PROVE Kept'
  <2>1. screen \in Dialog /\ PutDialog(screen, FALSE, posted, record) /\ UNCHANGED scan
    BY <1>5 DEF OfferOnRefusal, AgentOK
  <2> QED
    BY <2>1, PutType DEF Kept, DialogOK, AskedOutlivesRestart
<1>6. ASSUME NEW p \in dlg, PressRow(p) \/ RefuseRow(p) \/ PressEscape(p) PROVE Kept'
  BY <1>6 DEF PressRow, RefuseRow, PressEscape, Done, Kept, DialogOK, AskedOutlivesRestart
<1>7. CASE Restart
  BY <1>7 DEF Restart, Kept, DialogOK, AskedOutlivesRestart, NoScan
<1>8. CASE Boot
  BY <1>8 DEF Boot, Kept, DialogOK, AskedOutlivesRestart
<1>9. CASE PermStep
  BY <1>1, <1>9 DEF PermStep, OnPerm, OnPermClick, Deadline, ExpirePerm
<1>10. CASE TurnStep
  BY <1>1, <1>10 DEF TurnStep, OnRequest, OnDelivered, OnActivity, OnDisposition,
       OnStop, OnTurnFailure, Settle, Quieten
<1>11. CASE AgentStep
  BY <1>1, <1>11 DEF AgentStep, CallHook, Draw, OpenModal, AnswerAtMachine, AgentEnds,
       AgentResumed
<1> QED
  BY <1>2, <1>3, <1>4, <1>5, <1>6, <1>7, <1>8, <1>9, <1>10, <1>11 DEF Next, DialogStep

LEMMA AgentStepType == ASSUME AgentOK, Next PROVE AgentOK'
<1> USE DEF AgentOK
<1>1. CASE PermStep
  BY <1>1 DEF PermStep, OnPerm, OnPermClick, Deadline, ExpirePerm, agent
<1>2. CASE DialogStep
  BY <1>2 DEF DialogStep, OnQuestion, Kick, DecideDialogs, OfferOnRefusal, PressRow,
       RefuseRow, PressEscape, agent
<1>3. CASE TurnStep
  BY <1>3 DEF TurnStep, OnRequest, OnDelivered, OnActivity, OnDisposition, OnStop,
       OnTurnFailure, Settle, Quieten, agent
<1>4. CASE AgentStep
  BY <1>4 DEF AgentStep, CallHook, Draw, OpenModal, AnswerAtMachine, AgentEnds,
       AgentResumed, agent, Dialog
<1>5. CASE Restart \/ Boot
  BY <1>5 DEF Restart, Boot, agent
<1> QED
  BY <1>1, <1>2, <1>3, <1>4, <1>5 DEF Next

-----------------------------------------------------------------------------
(* Permissions.                                                            *)

Place == <<up, hookq, pend, due, noted, granted, post, call>>

LEMMA AnswersKept == ASSUME Answers, UNCHANGED Place PROVE Answers'
BY DEF Answers, Place, PermOK, PromptsAgree, ToldTheTruth, HookIsHeld, Stages, Waiting

\* A turn that is cut gives up open hooks only, and questions
LEMMA CutKeepsAnswers ==
    ASSUME Answers, CutHooks, UNCHANGED perms, UNCHANGED up
    PROVE  Answers'
<1>1. call' \in [Hooked -> {"none", "open", "allow", "deny", "aside", "gone", "drawn"}]
  BY DEF CutHooks, Answers, PermOK
<1>2. \A h \in Hooked : call'[h] = call[h] \/ (call'[h] = "gone" /\ call[h] # "none")
  BY DEF CutHooks, Unfinished
<1>3. \A c \in Call : c \in Hooked /\ c \notin Question
  BY KindAssumption DEF Hooked
<1>4. \A c \in Call : call'[c] = call[c] \/ (call'[c] = "gone" /\ call[c] = "open")
  BY <1>3 DEF CutHooks, Unfinished
<1>5. UNCHANGED <<up, hookq, pend, due, noted, granted, post>>
  BY DEF perms
<1>6. PermOK' /\ PromptsAgree'
  BY <1>1, <1>5 DEF Answers, PermOK, PromptsAgree
<1>7. ToldTheTruth'
  BY <1>4, <1>5 DEF Answers, ToldTheTruth
<1>8. HookIsHeld'
  BY <1>2, <1>5 DEF Answers, HookIsHeld
<1>9. Stages'
  <2>1. pend \subseteq Call /\ noted \subseteq Call
    BY DEF Answers, PermOK
  <2> QED
    BY <1>3, <1>4, <1>5, <2>1 DEF Answers, Stages, Waiting
<1> QED
  BY <1>6, <1>7, <1>8, <1>9 DEF Answers

LEMMA OnPermAnswers == ASSUME Answers, NEW c \in Call, OnPerm(c) PROVE Answers'
<1>1. up /\ c \in hookq /\ hookq' = hookq \ {c} /\ UNCHANGED <<up, granted>>
      /\ post[c] = "none" /\ Waiting(c) /\ c \notin noted /\ pend = noted
  BY DEF OnPerm, Answers, Stages, PromptsAgree
<1>2. CASE AnswerAtOnce(c)
  <2>1. PICK out \in {"allow", "deny", "aside"} : Respond(c, out)
    BY <1>2 DEF AnswerAtOnce
  <2>2. UNCHANGED <<pend, due, noted, post>>
    BY <1>2 DEF AnswerAtOnce
  <2> QED
    BY <1>1, <2>1, <2>2 DEF Respond, Answers, PermOK, PromptsAgree, ToldTheTruth,
       HookIsHeld, Stages, Waiting, Hooked
<1>3. CASE AskPerson(c)
  BY <1>1, <1>3 DEF AskPerson, Answers, PermOK, PromptsAgree, ToldTheTruth, HookIsHeld,
     Stages, Waiting, Hooked
<1> QED
  BY <1>2, <1>3 DEF OnPerm

\* However a prompt ends: off the table and the record, the hook answered, and the
\* message rewritten to say so or left
LEMMA EndedAnswers ==
    ASSUME Answers, NEW c \in pend, up,
           NEW out, NEW text, \/ out = "allow" /\ text = "allowed"
                              \/ out = "deny" /\ text = "denied"
                              \/ out = "aside" /\ text = "deleted",
           Forget(c), Respond(c, out), Shows(c, text), UNCHANGED <<up, hookq>>,
           granted' \subseteq Tool
    PROVE  Answers'
<1>1. c \in Call /\ Waiting(c) /\ post[c] = "up" /\ c \in noted /\ pend = noted
      /\ c \notin hookq
  BY DEF Answers, PermOK, Stages, PromptsAgree
<1>2. post' = [post EXCEPT ![c] = text] \/ post' = [post EXCEPT ![c] = "left"]
  BY DEF Shows
<1>3. PermOK'
  BY <1>1, <1>2 DEF Forget, Respond, Answers, PermOK
<1>4. PromptsAgree' /\ HookIsHeld'
  BY <1>1, <1>2 DEF Forget, Respond, Answers, PermOK, PromptsAgree, HookIsHeld, Hooked
<1>5. ToldTheTruth'
  BY <1>1, <1>2 DEF Respond, Answers, PermOK, ToldTheTruth, Hooked, Waiting
<1>6. Stages'
  BY <1>1, <1>2 DEF Forget, Respond, Answers, PermOK, Stages, Waiting, Hooked
<1> QED
  BY <1>3, <1>4, <1>5, <1>6 DEF Answers

LEMMA HookAnswers ==
    ASSUME Answers, NEW h \in Hooked, CallHook(h) PROVE Answers'
<1>1. UNCHANGED <<up, pend, due, noted, granted, post>> /\ call[h] = "none"
  BY DEF CallHook
<1>2. CASE up
  BY <1>1, <1>2 DEF CallHook, Answers, PermOK, PromptsAgree, ToldTheTruth, HookIsHeld,
     Stages, Waiting, Hooked
<1>3. CASE ~up
  BY <1>1, <1>3 DEF CallHook, Answers, PermOK, PromptsAgree, ToldTheTruth, HookIsHeld,
     Stages, Waiting, Hooked
<1> QED
  BY <1>2, <1>3

LEMMA QuestionAnswers == ASSUME Answers, NEW q \in Question, OnQuestion(q) PROVE Answers'
<1>1. up /\ hookq' = hookq \ {q} /\ Respond(q, "allow")
      /\ UNCHANGED <<up, pend, due, noted, granted, post>> /\ q \notin Call
  BY KindAssumption DEF OnQuestion
<1> QED
  BY <1>1 DEF Respond, Answers, PermOK, PromptsAgree, ToldTheTruth, HookIsHeld, Stages,
     Waiting, Hooked

LEMMA DrawAnswers == ASSUME Answers, NEW q \in Question, Draw(q) PROVE Answers'
<1>1. UNCHANGED <<up, perms>> /\ call' = [call EXCEPT ![q] = "drawn"] /\ q \notin Call
      /\ call[q] \in {"allow", "aside"}
  BY KindAssumption DEF Draw
<1> QED
  BY <1>1 DEF perms, Answers, PermOK, PromptsAgree, ToldTheTruth, HookIsHeld, Stages,
     Waiting, Hooked

LEMMA RestartAnswers == ASSUME Answers, Restart \/ Boot PROVE Answers'
<1>1. CASE Restart
  BY <1>1 DEF Restart, Answers, PermOK, PromptsAgree, ToldTheTruth, HookIsHeld, Stages,
     Waiting, Hooked
<1>2. CASE Boot
  BY <1>2 DEF Boot, Answers, PermOK, PromptsAgree, ToldTheTruth, HookIsHeld, Stages,
     Waiting, Hooked
<1> QED
  BY <1>1, <1>2

LEMMA AnswersStep == ASSUME Answers, Next PROVE Answers'
<1>1. ASSUME NEW c \in Call, Deadline(c) PROVE Answers'
  BY <1>1 DEF Deadline, Answers, PermOK, PromptsAgree, ToldTheTruth, HookIsHeld, Stages,
     Waiting
<1>2. ASSUME NEW c \in Call, ExpirePerm(c) PROVE Answers'
  <2>1. /\ c \in pend /\ up /\ UNCHANGED <<up, hookq>> /\ granted' \subseteq Tool
        /\ Forget(c) /\ Respond(c, "aside") /\ Shows(c, "deleted")
    BY <1>2 DEF ExpirePerm, Answers, PermOK
  <2> QED
    BY <1>2, <2>1, EndedAnswers
<1>3. ASSUME NEW c \in Call, NEW action \in {"allow", "allow-for-good", "deny"},
             OnPermClick(c, action)
      PROVE  Answers'
  <2>1. c \in pend /\ up /\ UNCHANGED <<up, hookq>> /\ Forget(c)
    BY <1>3 DEF OnPermClick
  <2>2. granted' \subseteq Tool
    BY <1>3, ToolAssumption DEF OnPermClick, Answers, PermOK
  <2>3. CASE action = "deny"
    <3>1. Respond(c, "deny") /\ Shows(c, "denied")
      BY <1>3, <2>3 DEF OnPermClick
    <3> QED
      BY <2>1, <2>2, <3>1, EndedAnswers
  <2>4. CASE action # "deny"
    <3>1. Respond(c, "allow") /\ Shows(c, "allowed")
      BY <1>3, <2>4 DEF OnPermClick
    <3> QED
      BY <2>1, <2>2, <3>1, EndedAnswers
  <2> QED
    BY <2>3, <2>4
<1>4. CASE PermStep
  BY <1>1, <1>2, <1>3, <1>4, OnPermAnswers DEF PermStep
<1>5. CASE DialogStep
  <2>1. ASSUME NEW p \in dlg, PressEscape(p) PROVE Answers'
    <3>1. UNCHANGED perms /\ UNCHANGED up /\ (CutHooks \/ UNCHANGED call)
      BY <2>1 DEF PressEscape
    <3> QED
      BY <3>1, CutKeepsAnswers, AnswersKept DEF perms, Place
  <2>2. CASE \/ Kick \/ \E posted \in BOOLEAN : DecideDialogs(posted) \/ OfferOnRefusal(posted)
             \/ \E p \in dlg : PressRow(p) \/ RefuseRow(p)
    <3>1. UNCHANGED Place
      BY <2>2 DEF Kick, DecideDialogs, OfferOnRefusal, PressRow, RefuseRow, perms, Place
    <3> QED
      BY <3>1, AnswersKept
  <2> QED
    BY <1>5, <2>1, <2>2, QuestionAnswers DEF DialogStep
<1>6. CASE TurnStep
  <2>1. UNCHANGED Place
    BY <1>6 DEF TurnStep, OnRequest, OnDelivered, OnActivity, OnDisposition, OnStop,
       OnTurnFailure, Settle, Quieten, perms, Place
  <2> QED
    BY <2>1, AnswersKept
<1>7. CASE AgentStep
  <2>1. CASE AgentEnds
    BY <2>1, CutKeepsAnswers DEF AgentEnds
  <2>2. CASE \/ \E m \in Modal : OpenModal(m)
             \/ AnswerAtMachine \/ AgentResumed
    <3>1. UNCHANGED Place
      BY <2>2 DEF OpenModal, AnswerAtMachine, AgentResumed, perms, Place
    <3> QED
      BY <3>1, AnswersKept
  <2> QED
    BY <1>7, <2>1, <2>2, HookAnswers, DrawAnswers DEF AgentStep
<1> QED
  BY <1>4, <1>5, <1>6, <1>7, RestartAnswers DEF Next

-----------------------------------------------------------------------------
(* A form and the reading older than it.                                   *)

\* Each question's hook comes before its form, and the form before its drawing; a
\* question allowed and not drawn yet keeps the watch awake, and a watch that is off
\* is awake when it is opened.  So a form whose question was drawn behind the back
\* of a reading under way is found in a thread that is not quiet.
Awake ==
    /\ ~watch.on => ~watch.quiet
    /\ \A q \in Question :
         /\ q \in hookq => call[q] \in {"open", "gone"}
         /\ call[q] = "allow" => ~watch.quiet
         /\ screen = q => call[q] = "drawn"
    /\ \A p \in dlg \cup record :
         p.form => p.dialog \in Question /\ call[p.dialog] \in {"allow", "drawn", "gone"}
    /\ \A p \in dlg :
         p.form /\ scan.at /\ scan.saw = NoDialog /\ screen = p.dialog => ~watch.quiet
    /\ ~up => ~scan.at /\ hookq = {}

\* Of what a step makes of the watch: it does not fall asleep, and not while it is off
StaysAwake == watch'.quiet => watch.quiet /\ watch'.on

LEMMA WatchStaysAwake ==
    ASSUME WatchOK, ~watch.on => ~watch.quiet, Next, ~Quieten PROVE StaysAwake
<1> DEFINE Calm(w) == w.quiet => watch.quiet /\ w.on
<1>0. watch \in Watch
  BY DEF WatchOK
<1>1. SUFFICES Calm(watch')
  BY DEF StaysAwake
<1>2. Calm(watch)
  BY <1>0 DEF Watch
<1>3. ASSUME NEW busy PROVE Calm(Touched(watch, busy))
  BY <1>0, <1>2 DEF Touched, Watch
<1>4. Calm(Suspended(watch)) /\ Calm(Suspended(Touched(watch, FALSE)))
  <2>1. ASSUME NEW w \in Watch, Calm(w) PROVE Calm(Suspended(w))
    BY <2>1 DEF Suspended, Watch
  <2>2. Touched(watch, FALSE) \in Watch
    BY <1>0 DEF Touched, Watch
  <2> QED
    BY <1>0, <1>2, <1>3, <2>1, <2>2
<1>5. ASSUME NEW w \in Watch, Calm(w), NEW rearm \in BOOLEAN PROVE Calm(Resumed(w, rearm))
  BY <1>5 DEF Resumed, Watch
<1>6. Touched(watch, FALSE) \in Watch
  BY <1>0 DEF Touched, Watch
<1>7. /\ Calm(Resumed(watch, TRUE)) /\ Calm(Resumed(watch, FALSE))
      /\ Calm(Resumed(Touched(watch, FALSE), FALSE))
  BY <1>0, <1>2, <1>3, <1>5, <1>6
<1>8. /\ Calm(Unwatched(watch)) /\ Calm(Quiescent)
      /\ Calm([Quiescent EXCEPT !.on = TRUE, !.why = {"turn"}])
      /\ Calm([watch EXCEPT !.why = @ \cup {"turn"}])
  BY <1>0, <1>2 DEF Unwatched, Quiescent, Watch
<1> HIDE DEF Calm
<1>9. CASE PermStep
  BY <1>2, <1>3, <1>4, <1>7, <1>9 DEF PermStep, OnPerm, AnswerAtOnce, AskPerson,
     OnPermClick, Deadline, ExpirePerm
<1>10. CASE DialogStep
  BY <1>2, <1>3, <1>4, <1>7, <1>10 DEF DialogStep, OnQuestion, Kick, DecideDialogs,
     OfferOnRefusal, PressRow, RefuseRow, PressEscape, Done
<1>11. CASE TurnStep
  BY <1>2, <1>3, <1>7, <1>8, <1>11 DEF TurnStep, OnRequest, OnDelivered, OnActivity,
     OnDisposition, OnStop, OnTurnFailure, Settle
<1>12. CASE AgentStep
  BY <1>2, <1>12 DEF AgentStep, CallHook, Draw, OpenModal, AnswerAtMachine, AgentEnds,
     AgentResumed
<1>13. CASE Restart \/ Boot
  BY <1>2, <1>8, <1>13 DEF Restart, Boot
<1> QED
  BY <1>9, <1>10, <1>11, <1>12, <1>13 DEF Next

\* A step that asks nothing, draws nothing and reads no screen
LEMMA AwakeKept ==
    ASSUME Awake, StaysAwake,
           \A q \in Question :
             /\ q \in hookq' => q \in hookq
             /\ call'[q] = call[q] \/ (call'[q] = "gone" /\ call[q] # "drawn"),
           screen' \in {screen, NoDialog},
           \A p \in dlg' \cup record' : p.form => p \in dlg \cup record,
           \/ scan' = scan /\ \A p \in dlg' : p.form => p \in dlg
           \/ ~scan'.at,
           ~up' => ~scan'.at /\ hookq' = {}
    PROVE  Awake'
<1> USE DialogAssumption
<1>1. ASSUME NEW q \in Question
      PROVE  /\ q \in hookq' => call'[q] \in {"open", "gone"}
             /\ call'[q] = "allow" => ~watch'.quiet
             /\ screen' = q => call'[q] = "drawn"
  BY DEF Awake, StaysAwake, Dialog
<1>2. ASSUME NEW p \in dlg' \cup record', p.form
      PROVE  p.dialog \in Question /\ call'[p.dialog] \in {"allow", "drawn", "gone"}
  BY <1>2 DEF Awake
<1>3. ASSUME NEW p \in dlg', p.form, scan'.at, scan'.saw = NoDialog, screen' = p.dialog
      PROVE  ~watch'.quiet
  <2>1. p.dialog \in Question /\ p \in dlg /\ scan' = scan
    BY <1>2, <1>3
  <2>2. screen = p.dialog
    BY <1>3, <2>1 DEF Dialog
  <2> QED
    BY <1>3, <2>1, <2>2 DEF Awake, StaysAwake
<1> QED
  BY <1>1, <1>2, <1>3 DEF Awake, StaysAwake

LEMMA AwakeQuestion ==
    ASSUME Awake, StaysAwake, PermOK, WatchOK, NEW q \in Question, OnQuestion(q)
    PROVE  Awake'
<1> USE DialogAssumption, KindAssumption
<1>1. /\ q \in hookq /\ hookq' = hookq \ {q} /\ up' = up /\ up /\ screen' = screen
      /\ scan' = scan /\ call' = [call EXCEPT ![q] = IF @ = "open" THEN "allow" ELSE @]
      /\ call[q] \in {"open", "gone"} /\ q \in Hooked
  BY DEF OnQuestion, Respond, Awake, agent, Hooked
<1>2. call'[q] \in {"allow", "gone"} /\ \A r \in Question : r # q => call'[r] = call[r]
  BY <1>1 DEF PermOK, Hooked
<1>3. ~watch'.quiet
  <2>1. ~Touched(watch, FALSE).quiet
    BY DEF Touched, WatchOK, Watch, Awake
  <2>2. ~Suspended(Touched(watch, FALSE)).quiet
    BY <2>1 DEF Suspended, Touched, WatchOK, Watch
  <2> QED
    BY <2>1, <2>2 DEF OnQuestion
<1>4. ASSUME NEW p \in dlg' \cup record', p.form
      PROVE  p \in dlg \cup record \/ p.dialog = q
  <2>1. UNCHANGED <<dlg, record>> \/ \E posted \in BOOLEAN : PutDialog(q, TRUE, posted, record)
    BY DEF OnQuestion
  <2>2. ASSUME NEW posted \in BOOLEAN, PutDialog(q, TRUE, posted, record)
        PROVE  p \in dlg \cup record \/ p.dialog = q
    <3>1. p \in dlg \cup record \/ p = [dialog |-> q, form |-> TRUE]
      BY <1>4, <2>2 DEF PutDialog
    <3> QED
      BY <3>1
  <2>3. CASE UNCHANGED <<dlg, record>>
    BY <1>4, <2>3
  <2> QED
    BY <2>1, <2>2, <2>3
<1> QED
  BY <1>1, <1>2, <1>3, <1>4 DEF Awake

LEMMA AwakeDraw ==
    ASSUME Awake, StaysAwake, PermOK, NEW q \in Question, Draw(q) PROVE Awake'
<1>1. /\ UNCHANGED <<up, hookq, dlg, record, scan>> /\ screen' = q
      /\ call' = [call EXCEPT ![q] = "drawn"] /\ call[q] \in {"allow", "aside"} /\ q \in Hooked
  BY DEF Draw, perms, dialogs, Hooked
<1>2. call'[q] = "drawn" /\ \A r \in Question : r # q => call'[r] = call[r]
  BY <1>1 DEF PermOK, Hooked
<1>3. q \notin hookq
  BY <1>1 DEF Awake
<1>4. ASSUME NEW p \in dlg, p.form, p.dialog = q PROVE ~watch'.quiet
  BY <1>1, <1>4 DEF Awake, StaysAwake
<1> QED
  BY <1>1, <1>2, <1>3, <1>4 DEF Awake, StaysAwake

LEMMA AwakeStep == ASSUME Awake, PermOK, WatchOK, Next PROVE Awake'
<1> USE KindAssumption, DialogAssumption
<1>1. CASE Quieten
  BY <1>1 DEF Quieten, Awake, perms, dialogs, agent, WatchOK, Watch
<1>2. SUFFICES ASSUME ~Quieten, StaysAwake PROVE Awake'
  BY <1>1, WatchStaysAwake DEF Awake
<1>3. CASE PermStep
  <2>1. /\ hookq' \subseteq hookq /\ UNCHANGED <<dlg, record, scan, screen, up>>
        /\ \A q \in Question : call'[q] = call[q]
    BY <1>3, ZenonT(40) DEF PermStep, OnPerm, AnswerAtOnce, AskPerson, OnPermClick, Deadline, ExpirePerm,
                dialogs, agent, Respond, Hooked, PermOK
  <2> QED
    BY <1>2, <2>1, AwakeKept DEF Awake
<1>4. CASE Kick
  BY <1>2, <1>4 DEF Kick, perms, agent, Awake, StaysAwake, Dialog
<1>5. ASSUME NEW posted \in BOOLEAN, DecideDialogs(posted) \/ OfferOnRefusal(posted)
      PROVE  Awake'
  <2>1. /\ UNCHANGED <<up, hookq, call, screen>> /\ (scan' = scan \/ ~scan'.at)
        /\ \A p \in dlg' \cup record' : p.form => p \in dlg \cup record
        /\ \A p \in dlg' : p.form => p \in dlg
    BY <1>5 DEF DecideDialogs, OfferOnRefusal, PutDialog, perms, agent, NoScan
  <2>2. /\ \/ scan' = scan /\ \A p \in dlg' : p.form => p \in dlg
           \/ ~scan'.at
        /\ ~up' => ~scan'.at /\ hookq' = {}
    BY <2>1 DEF Awake
  <2> QED
    BY <1>2, <2>1, <2>2, AwakeKept
<1>6. ASSUME NEW p \in dlg, PressRow(p) \/ RefuseRow(p) \/ PressEscape(p) PROVE Awake'
  <2>1. /\ UNCHANGED <<up, hookq, scan>> /\ screen' \in {screen, NoDialog}
        /\ dlg' \subseteq dlg /\ record' \subseteq record
    BY <1>6 DEF PressRow, RefuseRow, PressEscape, Done, perms, agent
  <2>2. \A q \in Question : call'[q] = call[q] \/ (call'[q] = "gone" /\ call[q] # "drawn")
    BY <1>6 DEF PressRow, RefuseRow, PressEscape, CutHooks, Unfinished, Hooked
  <2> QED
    BY <1>2, <2>1, <2>2, AwakeKept DEF Awake
<1>7. CASE TurnStep
  <2>1. UNCHANGED <<up, hookq, call, screen, scan, dlg, record>>
    BY <1>2, <1>7 DEF TurnStep, OnRequest, OnDelivered, OnActivity, OnDisposition, OnStop,
       OnTurnFailure, Settle, perms, dialogs, agent
  <2> QED
    BY <1>2, <2>1, AwakeKept DEF Awake
<1>8. ASSUME NEW h \in Hooked, CallHook(h) PROVE Awake'
  <2>1. /\ UNCHANGED <<up, screen, dlg, record, scan>> /\ call[h] = "none"
        /\ call' = [call EXCEPT ![h] = IF up THEN "open" ELSE "aside"]
        /\ hookq' = IF up THEN hookq \cup {h} ELSE hookq
    BY <1>8 DEF CallHook, dialogs, agent
  <2>2. \A q \in Question : /\ q # h => call'[q] = call[q]
                            /\ q = h => call'[q] = IF up THEN "open" ELSE "aside"
    BY <2>1 DEF PermOK, Hooked
  <2> QED
    BY <1>2, <2>1, <2>2 DEF Awake, StaysAwake
<1>9. ASSUME NEW m \in Modal, OpenModal(m) PROVE Awake'
  <2>1. UNCHANGED <<up, hookq, call, dlg, record, scan>> /\ screen' = m /\ m \notin Question
    BY <1>9 DEF OpenModal, perms, dialogs
  <2> QED
    BY <1>2, <2>1 DEF Awake, StaysAwake
<1>10. CASE AnswerAtMachine \/ AgentResumed
  <2>1. UNCHANGED <<up, hookq, call, scan, dlg, record>> /\ screen' \in {screen, NoDialog}
    BY <1>10 DEF AnswerAtMachine, AgentResumed, perms, dialogs
  <2> QED
    BY <1>2, <2>1, AwakeKept DEF Awake
<1>11. CASE AgentEnds
  <2>1. UNCHANGED <<up, hookq, scan, dlg, record>> /\ screen' = NoDialog
    BY <1>11 DEF AgentEnds, perms, dialogs
  <2>2. \A q \in Question : call'[q] = call[q] \/ (call'[q] = "gone" /\ call[q] # "drawn")
    BY <1>11 DEF AgentEnds, CutHooks, Unfinished, Hooked
  <2> QED
    BY <1>2, <2>1, <2>2, AwakeKept DEF Awake
<1>12. CASE Restart
  <2>1. /\ hookq' = {} /\ dlg' = {} /\ record' = record /\ scan' = NoScan /\ ~up'
        /\ screen' = screen
        /\ \A q \in Question : call'[q] = IF call[q] = "open" THEN "aside" ELSE call[q]
    BY <1>12 DEF Restart, agent, Hooked
  <2> QED
    BY <1>2, <2>1 DEF Awake, StaysAwake, NoScan
<1>13. CASE Boot
  <2>1. /\ UNCHANGED <<hookq, call, scan, screen>> /\ ~up /\ up' /\ record' = dlg'
        /\ dlg' \subseteq record
    BY <1>13 DEF Boot, agent
  <2> QED
    BY <1>2, <2>1, AwakeKept DEF Awake
<1> QED
  BY <1>2, <1>3, <1>4, <1>5, <1>6, <1>7, <1>8, <1>9, <1>10, <1>11, <1>12, <1>13,
     AwakeQuestion, AwakeDraw DEF Next, DialogStep, AgentStep

-----------------------------------------------------------------------------
(* The inductive invariant, and what follows from it.                      *)

LEMMA InitIInv == Init => IInv
<1> SUFFICES ASSUME Init PROVE IInv
  OBVIOUS
<1>1. WatchOK /\ AgentOK
  BY DEF Init, WatchOK, AgentOK, Quiescent, Watch
<1>2. DialogOK /\ AskedOutlivesRestart
  BY DEF Init, DialogOK, AskedOutlivesRestart, NoScan
<1>3. PermOK
  BY DEF Init, PermOK
<1>4. PromptsAgree /\ ToldTheTruth /\ HookIsHeld /\ Stages
  BY DEF Init, PromptsAgree, ToldTheTruth, HookIsHeld, Stages, Hooked
<1> QED
  BY <1>1, <1>2, <1>3, <1>4 DEF IInv, TypeOK

LEMMA NextIInv == IInv /\ [Next]_vars => IInv'
<1> SUFFICES ASSUME IInv, [Next]_vars PROVE IInv'
  OBVIOUS
<1>1. Answers /\ Kept /\ WatchOK /\ AgentOK
  BY DEF IInv, TypeOK, Answers, Kept
<1>2. CASE Next
  <2>1. Answers' /\ Kept' /\ WatchOK' /\ AgentOK'
    BY <1>1, <1>2, AnswersStep, KeptStep, WatchStep, AgentStepType
  <2> QED
    BY <2>1 DEF IInv, TypeOK, Answers, Kept
<1>3. CASE UNCHANGED vars
  <2>1. Answers'
    BY <1>1, <1>3, AnswersKept DEF vars, Place
  <2>2. Kept' /\ WatchOK' /\ AgentOK'
    BY <1>1, <1>3 DEF vars, Kept, DialogOK, AskedOutlivesRestart, WatchOK, AgentOK
  <2> QED
    BY <2>1, <2>2 DEF IInv, TypeOK, Answers, Kept
<1> QED
  BY <1>2, <1>3

\* Stages and the five invariants hold together in every reachable state.
THEOREM Inductive == Spec => []IInv
BY InitIInv, NextIInv, PTL DEF Spec

\* The table of prompts, threads.json and the thread agree, whatever the order of
\* clicks, deadlines, agents that end, failing Slack calls and restarts: every
\* prompt is one the next process can take over, no thread has two dialog
\* prompts, and no deadline outlives its prompt.
THEOREM AlwaysRecorded == Spec => []PromptsRecorded
<1>1. IInv => PromptsRecorded
  BY DEF IInv, PromptsRecorded
<1> QED
  BY <1>1, Inductive, PTL

\* A prompt's message never says other than what the agent was told.
THEOREM AlwaysToldTheTruth == Spec => []ToldTheTruth
<1>1. IInv => ToldTheTruth
  BY DEF IInv
<1> QED
  BY <1>1, Inductive, PTL

\* No hook is open that neither the loop's queue nor a pending prompt will answer.
THEOREM HooksAlwaysHeld == Spec => []HookIsHeld
<1>1. IInv => HookIsHeld
  BY DEF IInv
<1> QED
  BY <1>1, Inductive, PTL

\* A form is not taken down by a reading older than its question's drawing: such a
\* thread is still awake, whatever the order of hooks, clicks, turns and restarts.
THEOREM FormsAlwaysStay == Spec => FormStays
<1>1. Init => Awake
  BY DialogAssumption DEF Init, Awake, Quiescent, Dialog
<1>2. IInv /\ Awake /\ [Next]_vars => Awake'
  <2> SUFFICES ASSUME IInv, Awake, [Next]_vars PROVE Awake'
    OBVIOUS
  <2>1. PermOK /\ WatchOK
    BY DEF IInv, TypeOK
  <2>2. CASE Next
    BY <2>1, <2>2, AwakeStep
  <2>3. CASE UNCHANGED vars
    BY <2>3 DEF vars, Awake
  <2> QED
    BY <2>2, <2>3
<1>3. Awake => [\A posted \in BOOLEAN : DecideDialogs(posted) /\ scan.saw = NoDialog =>
                  \A p \in dlg : p.form /\ watch.on /\ screen = p.dialog => p \in dlg']_vars
  <2> SUFFICES ASSUME Awake, NEW posted \in BOOLEAN, DecideDialogs(posted),
                      scan.saw = NoDialog,
                      NEW p \in dlg, p.form, watch.on, screen = p.dialog
               PROVE  p \in dlg'
    OBVIOUS
  <2>1. ~watch.quiet
    BY DEF Awake, DecideDialogs
  <2>2. Busy
    BY <2>1 DEF Busy
  <2> QED
    BY <2>2 DEF DecideDialogs
<1> QED
  BY <1>1, <1>2, <1>3, Inductive, PTL DEF Spec, FormStays

=============================================================================
