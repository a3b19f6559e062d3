------------------------------ MODULE Delivery ------------------------------
(***************************************************************************)
(* How one Slack thread's requests reach its agent, and what the Bridge    *)
(* remembers about them on the way: the waiting queue, the deliveries that *)
(* run off the main loop, the ledger of unanswered messages, the receipt   *)
(* watch, and what survives a restart.                                     *)
(*                                                                         *)
(* The Bridge is one tokio::select! loop: an arm runs to completion before *)
(* the next, so each arm (or step of the 500 ms tick) is one action.       *)
(* Delivery tasks, the agents' processes in tmux, hooks, tool calls and    *)
(* Slack run beside it.  Threads share none of the state below, so one     *)
(* thread is modelled.                                                     *)
(***************************************************************************)
EXTENDS Naturals, FiniteSets

CONSTANTS
    Msg,      \* the requests posted in the thread, numbered in posting order
    Id,       \* Slack timestamps
    TsOf,     \* the timestamp each request carries as its message_id
    NoMsg,    \* "no message" in a latch
    MaxSpawn, \* bound: agent windows opened over a behaviour
    TaskId,   \* bound: delivery tasks alive at once
    Moves     \* which of the environment's optional moves this instance makes

AllMoves == {"refuse", "midsend", "slow", "swallow", "fail", "end", "exit",
             "stop", "edit", "delete", "root", "noids", "blind", "nodir", "nofiles", "spawnerr",
             "dup", "restart", "shutdown", "crash"}

ASSUME MsgAssumption == Msg \subseteq Nat /\ NoMsg \notin Msg
ASSUME TsAssumption == TsOf \in [Msg -> Id]
ASSUME BoundAssumption == MaxSpawn \in Nat /\ Moves \subseteq AllMoves

Window == 1 .. MaxSpawn \* tmux windows, in the order they were opened
Target == 0 .. MaxSpawn \* 0: the window name while no window answers to it

VARIABLES
  \* the Bridge's memory
    up,       \* the process runs
    resume,   \* parked requests still to be served by start-up
    seen,     \* RecentDeliveries
    queue,    \* pending[root_ts]; served in the order of Msg
    latch,    \* delivering: window -> the message on its way
    overdue,  \* windows whose latch is older than DELIVERY_STUCK_MS
    trouble,  \* delivery_trouble: "wait" until retry_after, then "over"
    receipt,  \* awaiting_receipt: "due" once RECEIPT_GRACE_MS is over
    ledger,   \* unanswered ids, with the two marks below
    received, \* ... of which proof of receipt came
    spent,    \* ... of which the re-send budget is used
    starting, \* the session is in Workers::starting
    ended,    \* Hooked.ended
    bound,    \* Hooked.window_id; 0 = unknown, addressed by name
    watch,    \* windows whose start-up screen is watched
    drain,    \* a queued termination: "wait", then "due" at its deadline;
              \* "stale" once the thread has a new session
  \* threads.json
    session,  \* the entry has an agent_id
    parked,   \* requests saved by the last graceful exit
    saved,    \* the ledger as last flushed
  \* the world
    arrived,  \* requests Slack has handed over at least once
    proc,     \* agent processes by window
    prompt,   \* the request a window was opened with
    box,      \* bodies in a window's input box, not taken in yet
    given,    \* how often an agent was given each request, as prompt or typed in
              \* (2 = more than once)
    read,     \* requests the conversation has taken in
    hist,     \* the session has a transcript on disk
    hooks,    \* hook requests on their way to the loop
    dispo,    \* dispositions on their way to the loop
    tasks     \* delivery tasks, up to the loop taking their report

memory == <<up, resume, seen, queue, latch, overdue, trouble, receipt, ledger,
            received, spent, starting, ended, bound, watch, drain>>
disk   == <<session, parked, saved>>
agent  == <<proc, prompt, box, given, read, hist>>
world  == <<arrived, agent, hooks, dispo, tasks>>
vars   == <<memory, disk, world>>

\* Groups that most actions leave alone together
marks   == <<ledger, received, spent>>
seat    == <<starting, ended, bound, watch>>
latches == <<latch, overdue, trouble>>
boot    == <<up, resume, seen>>

Task == [id : TaskId, win : Target, msg : Msg,
         at : {"running", "typed", "ok", "err"}]
Hook == {"session_start", "session_end", "user_prompt", "error"} \X Window

QueueOK ==
    /\ queue \subseteq Msg
    /\ latch \in [Target -> Msg \cup {NoMsg}]
    /\ overdue \subseteq Target
    /\ trouble \in [Target -> {"none", "wait", "over"}]
    /\ receipt \in [Id -> {"none", "wait", "due"}]
    /\ tasks \subseteq Task
MarksOK == ledger \subseteq Id /\ received \subseteq ledger /\ spent \subseteq ledger
SeatOK ==
    /\ starting \in BOOLEAN /\ ended \in BOOLEAN /\ bound \in Target
    /\ watch \subseteq Window /\ session \in BOOLEAN
AgentOK ==
    /\ proc \in [Window -> {"none", "boot", "run", "gone"}]
    /\ prompt \in [Window -> Msg \cup {NoMsg}]
    /\ box \in [Window -> SUBSET Msg]
    /\ given \in [Msg -> 0 .. 2] /\ read \subseteq Msg /\ hist \in BOOLEAN
BootOK ==
    /\ up \in BOOLEAN /\ resume \subseteq Msg /\ seen \subseteq Msg
    /\ drain \in {"none", "wait", "due", "stale"} /\ parked \subseteq Msg
    /\ saved \in [ledger : SUBSET Id, received : SUBSET Id, spent : SUBSET Id]
    /\ saved.received \subseteq saved.ledger /\ saved.spent \subseteq saved.ledger
WireOK == arrived \subseteq Msg /\ hooks \subseteq Hook /\ dispo \subseteq SUBSET Id

\* The type invariant; its parts are the variables that change together, and
\* the marks belong to ledger entries only (Ledger::disposed).
TypeOK == QueueOK /\ MarksOK /\ SeatOK /\ AgentOK /\ BootOK /\ WireOK

Init ==
    /\ up = TRUE /\ resume = {} /\ seen = {} /\ queue = {}
    /\ latch = [w \in Target |-> NoMsg] /\ overdue = {}
    /\ trouble = [w \in Target |-> "none"] /\ receipt = [i \in Id |-> "none"]
    /\ ledger = {} /\ received = {} /\ spent = {}
    /\ starting = FALSE /\ ended = FALSE /\ bound = 0 /\ watch = {}
    /\ drain = "none" /\ session = FALSE /\ parked = {}
    /\ saved = [ledger |-> {}, received |-> {}, spent |-> {}]
    /\ arrived = {} /\ proc = [w \in Window |-> "none"]
    /\ prompt = [w \in Window |-> NoMsg] /\ box = [w \in Window |-> {}]
    /\ given = [m \in Msg |-> 0] /\ read = {} /\ hist = FALSE
    /\ hooks = {} /\ dispo = {} /\ tasks = {}

-----------------------------------------------------------------------------
(* What the handlers are built from.                                       *)

Live(w)  == proc[w] \in {"boot", "run"}
Alive    == \E w \in Window : Live(w)
TakesKeys(w) == w \in Window /\ proc[w] = "run"
Looping  == up /\ resume = {}     \* start-up is over, the select! loop runs
Optional(move) == move \in Moves

\* Workers::state_of: an ended session is gone even if a process remains
WorkerStateById == IF ~session \/ ended \/ bound = 0 \/ ~Live(bound) \* mutant: not by name
                   THEN "absent"
                   ELSE IF starting THEN "starting" ELSE "ready"
WorkerState == IF ~session \/ ended \/ ~Alive THEN "absent"
               ELSE IF starting THEN "starting" ELSE "ready"

\* tmux finds a name in the order the windows were opened
Oldest(w) == Live(w) /\ \A v \in Window : Live(v) => w <= v
Named == IF \E w \in Window : Oldest(w) THEN CHOOSE w \in Window : Oldest(w) ELSE 0
\* Workers::window_for: the remembered id, the name otherwise
Window_for == IF bound # 0 THEN bound ELSE Named
\* The process pid_of finds: the remembered window's, any of that name otherwise
Found == IF bound # 0 /\ bound \in Window /\ Live(bound) THEN bound ELSE Named

First(m, q) == m \in q /\ \A k \in q : m <= k

\* Ledger::track: a redelivery resets received, and only that
Track(i) ==
    /\ ledger' = ledger \cup {i}
    /\ received' = received \ {i}
    /\ UNCHANGED spent

\* Ledger::disposed / dispose_all: the marks go with the entry
DisposeKeepsMarks(S) ==           \* mutant
    /\ ledger' = ledger \ S
    /\ UNCHANGED <<received, spent>>
Dispose(S) ==
    /\ ledger' = ledger \ S
    /\ received' = received \ S
    /\ spent' = spent \ S

Free(T) == {i \in TaskId : \A t \in T : t.id # i}

\* start_delivery: nothing if the window is latched or in trouble, or the queue
\* is empty; else latch the window and hand the first message to a task.  With
\* every TaskId taken the start waits for a later tick (bound).
StartableUnlatched(w, q, l, tr, T) == \* mutant: the latch is not looked at
    q # {} /\ tr[w] # "wait" /\ Free(T) # {}
Startable(w, q, l, tr, T) ==
    q # {} /\ l[w] = NoMsg /\ tr[w] # "wait" /\ Free(T) # {}
StartDelivery(w, q, l, tr, T) ==
    \/ /\ Startable(w, q, l, tr, T)
       /\ \E m \in q :
            /\ First(m, q)
            /\ latch' = [l EXCEPT ![w] = m]
            /\ tasks' = T \cup {[id |-> CHOOSE i \in Free(T) : TRUE,
                                 win |-> w, msg |-> m, at |-> "running"]}
    \/ /\ ~Startable(w, q, l, tr, T)
       /\ latch' = l /\ tasks' = T

Give(M) ==
    given' = [m \in Msg |-> IF m \in M /\ given[m] < 2 THEN given[m] + 1 ELSE given[m]]

\* Puts bodies into agent window w
Type(M, w) ==
    /\ Give(M)
    /\ box' = [box EXCEPT ![w] = @ \cup M]

\* agent_never_started: a session without a transcript is forgotten, the queue
\* dropped and the thread settled
NeverStarted ==
    /\ starting' = FALSE
    /\ session' = (session /\ hist)
    /\ queue' = {}
    /\ Dispose(Id)

-----------------------------------------------------------------------------
(* Requests arriving: on_inbound past the gate, and its four dispatches.   *)

MissingFolder(m) ==               \* the project folder is gone: told, settled
    /\ Optional("nodir") /\ WorkerState = "absent"
    /\ Dispose(Id)
    /\ UNCHANGED <<queue, latches, receipt, seat, session, agent, hooks, tasks>>

\* Dispatch::SpawnNew takes a new session id.  Of the old one nothing is looked
\* at again: neither its processes ("gone" from here on) nor their hooks.
Of(known, fresh) == IF session THEN known ELSE fresh
Abandoned == [v \in Window |-> IF Live(v) THEN "gone" ELSE proc[v]]

NoAgentFiles(m) ==                \* write_agent_files fails: logged only
    /\ Optional("nofiles") /\ WorkerState = "absent"
    /\ Track(TsOf[m])
    /\ session' = TRUE
    /\ starting' = Of(starting, FALSE) /\ ended' = Of(ended, FALSE)
    /\ bound' = Of(bound, 0) /\ watch' = Of(watch, {})
    /\ proc' = Of(proc, Abandoned) /\ hist' = Of(hist, FALSE) /\ hooks' = Of(hooks, {})
    /\ UNCHANGED <<queue, latches, receipt, prompt, box, given, read, tasks>>

SpawnFails(m) ==
    /\ Optional("spawnerr") /\ WorkerState = "absent"
    /\ NeverStarted
    /\ UNCHANGED <<latches, receipt, ended, bound, watch, agent, hooks, tasks>>

\* SpawnNew and SpawnResume: the request is the new process's prompt
Spawn(m) ==
    /\ WorkerState = "absent"
    /\ \E w \in Window :
         /\ proc[w] = "none" /\ \A v \in Window : v < w => proc[v] # "none"
         /\ proc' = [Of(proc, Abandoned) EXCEPT ![w] = "boot"]
         /\ prompt' = [prompt EXCEPT ![w] = m]
         /\ bound' = w
         /\ watch' = Of(watch, {}) \cup {w}
    /\ Track(TsOf[m])
    /\ Give({m})
    /\ session' = TRUE /\ starting' = TRUE /\ ended' = Of(ended, FALSE)
    /\ hist' = Of(hist, FALSE) /\ hooks' = Of(hooks, {})
    /\ UNCHANGED <<queue, latches, receipt, box, read, tasks>>

Deliver(m) ==                     \* queue first, hand over second
    /\ WorkerState = "ready"
    /\ Track(TsOf[m])
    /\ queue' = queue \cup {m}
    /\ StartDelivery(Window_for, queue', latch, trouble, tasks)
    /\ UNCHANGED <<overdue, trouble, receipt, seat, session, agent, hooks>>

EnqueueForgets(m) ==              \* mutant: returns before the push
    /\ WorkerState = "starting"
    /\ Track(TsOf[m])
    /\ UNCHANGED <<queue, latches, receipt, seat, session, agent, hooks, tasks>>
Enqueue(m) ==                     \* the agent is still starting
    /\ WorkerState = "starting"
    /\ Track(TsOf[m])
    /\ queue' = queue \cup {m}
    /\ UNCHANGED <<latches, receipt, seat, session, agent, hooks, tasks>>

\* A termination queued for a session the thread no longer has
Outlived == IF drain # "none" /\ session' /\ ~session THEN "stale" ELSE drain

Serve(m) == \/ MissingFolder(m) \/ NoAgentFiles(m) \/ SpawnFails(m)
            \/ Spawn(m) \/ Deliver(m) \/ Enqueue(m)

\* Slack hands over the next request, or, once more, one it handed over before.
\* RecentDeliveries drops the second copy unless a restart emptied it.
Arrive(m) ==
    /\ Looping
    /\ \/ m \notin arrived /\ \A k \in Msg : k < m => k \in arrived
       \/ m \in arrived /\ Optional("dup")
    /\ m \notin seen
    /\ arrived' = arrived \cup {m}
    /\ seen' = seen \cup {m}
    /\ Serve(m)
    /\ drain' = Outlived
    /\ UNCHANGED <<up, resume, parked, saved, dispo>>

\* resume_pending_from_disk, one request at a time: serving the first one saves
\* threads.json without the parked list
ResumeNext(m) ==
    /\ up /\ First(m, resume)
    /\ resume' = resume \ {m}
    /\ parked' = {}
    /\ seen' = seen \cup {m}
    /\ Serve(m)
    /\ drain' = Outlived
    /\ UNCHANGED <<up, saved, arrived, dispo>>

\* user_stop: with an agent to stop, everything unanswered is dropped
Stoppable == session /\ ledger # {} /\ Alive

UserStop ==
    /\ Looping /\ Optional("stop") /\ Stoppable
    /\ Dispose(Id)
    /\ UNCHANGED <<boot, queue, latches, receipt, seat, drain, disk, world>>

\* on_message_edited: the newest unanswered request is cut short first; the
\* edited one is tracked again either way, its notice typed past the latch
OnEdited(m) ==
    LET i == TsOf[m]
        current == i \in ledger /\ \A k \in Msg : TsOf[k] \in ledger => k <= m
        kept == IF current /\ Alive THEN {} ELSE ledger
    IN /\ Looping /\ Optional("edit") /\ session /\ m \in arrived
       /\ ledger' = kept \cup {i}
       /\ received' = (received \cap kept) \ {i}
       /\ spent' = spent \cap kept
       /\ UNCHANGED <<boot, queue, latches, receipt, seat, drain, disk, world>>

\* on_message_deleted for a reply still unanswered: notice, stop, disposed
OnDeleted(m) ==
    /\ Looping /\ Optional("delete") /\ TsOf[m] \in ledger
    /\ Dispose(IF Stoppable THEN Id ELSE {TsOf[m]})
    /\ UNCHANGED <<boot, queue, latches, receipt, seat, drain, disk, world>>

-----------------------------------------------------------------------------
(* Deliveries off the loop.                                                *)

\* A task before it typed: the window is gone, not taking keys, or shows a modal
TaskRefused(t) ==
    /\ t.at = "running"
    /\ TakesKeys(t.win) => Optional("refuse")
    /\ tasks' = (tasks \ {t}) \cup {[t EXCEPT !.at = "err"]}
    /\ UNCHANGED <<memory, disk, arrived, agent, hooks, dispo>>

TaskTypes(t) ==
    /\ t.at = "running" /\ TakesKeys(t.win)
    /\ Type({t.msg}, t.win)
    /\ tasks' = (tasks \ {t}) \cup {[t EXCEPT !.at = "typed"]}
    /\ UNCHANGED <<memory, disk, arrived, proc, prompt, read, hist, hooks, dispo>>

\* After typing: the box emptied, or stayed full, or could not be read (Ok);
\* or a modal came up while Enter was being pressed (Err, though it was typed)
TaskReturns(t) ==
    /\ t.at = "typed"
    /\ \E r \in {"ok", "err"} :
         /\ r = "err" => Optional("midsend")
         /\ tasks' = (tasks \ {t}) \cup {[t EXCEPT !.at = r]}
    /\ UNCHANGED <<memory, disk, arrived, agent, hooks, dispo>>

\* on_delivery_done.  The latch goes, whoever set it.
Reported(t) ==
    /\ Looping
    /\ overdue' = overdue \ {t.win}
    /\ UNCHANGED <<boot, marks, seat, drain, disk, arrived, agent, hooks, dispo>>
Unlatched(w) == [latch EXCEPT ![w] = NoMsg]

\* Ok: out of trouble, the receipt watch is set, the message leaves the queue,
\* the next one starts in the same window
DoneKept(t) ==                    \* mutant: the message stays queued
    /\ t.at = "ok" /\ Reported(t)
    /\ trouble' = [trouble EXCEPT ![t.win] = "none"]
    /\ receipt' = [receipt EXCEPT ![TsOf[t.msg]] = "wait"]
    /\ queue' = queue
    /\ StartDelivery(t.win, queue', Unlatched(t.win), trouble', tasks \ {t})
Done(t) ==
    /\ t.at = "ok" /\ Reported(t)
    /\ trouble' = [trouble EXCEPT ![t.win] = "none"]
    /\ receipt' = [receipt EXCEPT ![TsOf[t.msg]] = "wait"]
    /\ queue' = {m \in queue : TsOf[m] # TsOf[t.msg]}
    /\ StartDelivery(t.win, queue', Unlatched(t.win), trouble', tasks \ {t})

\* Err: the window is left alone for DELIVERY_RETRY_WAIT_MS
NotDoneLatched(t) ==              \* mutant: returns before the latch is dropped
    /\ t.at = "err" /\ Reported(t)
    /\ trouble' = [trouble EXCEPT ![t.win] = "wait"]
    /\ tasks' = tasks \ {t}
    /\ UNCHANGED <<latch, queue, receipt>>
NotDoneDropped(t) ==              \* mutant: the message leaves either way
    /\ t.at = "err" /\ Reported(t)
    /\ trouble' = [trouble EXCEPT ![t.win] = "wait"]
    /\ latch' = Unlatched(t.win) /\ tasks' = tasks \ {t}
    /\ queue' = {m \in queue : TsOf[m] # TsOf[t.msg]}
    /\ UNCHANGED receipt
NotDone(t) ==
    /\ t.at = "err" /\ Reported(t)
    /\ trouble' = [trouble EXCEPT ![t.win] = "wait"]
    /\ latch' = Unlatched(t.win) /\ tasks' = tasks \ {t}
    /\ UNCHANGED <<queue, receipt>>

OnDeliveryDone(t) == Done(t) \/ NotDone(t)

\* DELIVERY_RETRY_WAIT_MS is over
TroubleOver(w) ==
    /\ up /\ trouble[w] = "wait"
    /\ trouble' = [trouble EXCEPT ![w] = "over"]
    /\ UNCHANGED <<boot, queue, latch, overdue, receipt, marks, seat, drain, disk, world>>

\* retry_pending: only an agent that can hear
RetryPending ==
    /\ Looping /\ queue # {} /\ WorkerState = "ready"
    /\ Startable(Window_for, queue, latch, trouble, tasks)
    /\ StartDelivery(Window_for, queue, latch, trouble, tasks)
    /\ UNCHANGED <<boot, queue, overdue, trouble, receipt, marks, seat, drain, disk,
                   arrived, agent, hooks, dispo>>

\* A delivery runs past DELIVERY_STUCK_MS ...
Stalls(w) ==
    /\ up /\ Optional("slow") /\ latch[w] # NoMsg /\ w \notin overdue
    /\ overdue' = overdue \cup {w}
    /\ UNCHANGED <<boot, queue, latch, trouble, receipt, marks, seat, drain, disk, world>>

\* ... and give_up_stuck_deliveries drops its latch.  The task is not stopped.
GiveUpStuck(w) ==
    /\ Looping /\ w \in overdue
    /\ latch' = [latch EXCEPT ![w] = NoMsg]
    /\ overdue' = overdue \ {w}
    /\ UNCHANGED <<boot, queue, trouble, receipt, marks, seat, drain, disk, world>>

\* RECEIPT_GRACE_MS is over
ReceiptDue(i) ==
    /\ up /\ receipt[i] = "wait"
    /\ receipt' = [receipt EXCEPT ![i] = "due"]
    /\ UNCHANGED <<boot, queue, latches, marks, seat, drain, disk, world>>

\* warn_unreceived: told, and the whole thread settled with it
WarnUnreceived(i) ==
    /\ Looping /\ receipt[i] = "due"
    /\ receipt' = [receipt EXCEPT ![i] = "none"]
    /\ Dispose(IF i \in ledger \ received THEN Id ELSE {})
    /\ UNCHANGED <<boot, queue, latches, seat, drain, disk, world>>

\* scan_transcripts: what the agent took in is found in its transcript
ScanTranscripts ==
    LET found == {TsOf[m] : m \in read} \cap (ledger \ received)
    IN /\ Looping /\ ~ended /\ found # {}
       /\ received' = received \cup found
       /\ UNCHANGED <<boot, queue, latches, receipt, ledger, spent, seat, drain, disk, world>>

\* stall_tick starts by saving the ledger.  Only a crash can tell when that was
\* done last, so other instances skip the step (bound).
SaveLedger ==
    /\ Looping /\ Optional("crash")
    /\ saved' = [ledger |-> ledger, received |-> received, spent |-> spent]
    /\ saved' # saved
    /\ UNCHANGED <<memory, session, parked, world>>

-----------------------------------------------------------------------------
(* The agent: its process, the hooks it sends, the tools it calls.  A hook *)
(* carries the session, not the window; one process sends its own in order.*)

\* A hook reaches the loop only if the Bridge is up to take it
Send(kind, w) == hooks' = IF up THEN hooks \cup {<<kind, w>>} ELSE hooks

AgentUp(w) ==                     \* the TUI is up: SessionStart
    /\ proc[w] = "boot"
    /\ proc' = [proc EXCEPT ![w] = "run"]
    /\ Send("session_start", w)
    /\ UNCHANGED <<memory, disk, arrived, prompt, box, given, read, hist, dispo, tasks>>

\* The first turn: the prompt is read, the transcript begins, UserPromptSubmit
ReadPrompt(w) ==
    /\ proc[w] = "run" /\ prompt[w] # NoMsg
    /\ read' = read \cup {prompt[w]}
    /\ prompt' = [prompt EXCEPT ![w] = NoMsg]
    /\ hist' = TRUE
    /\ Send("user_prompt", w)
    /\ UNCHANGED <<memory, disk, arrived, proc, box, given, dispo, tasks>>

\* A typed body is taken in: as a turn of its own, or mid-turn without a hook
TakeIn(w, m) ==
    /\ proc[w] = "run" /\ prompt[w] = NoMsg /\ m \in box[w]
    /\ box' = [box EXCEPT ![w] = @ \ {m}]
    /\ read' = read \cup {m}
    /\ hist' = TRUE
    /\ \/ Send("user_prompt", w)
       \/ UNCHANGED hooks
    /\ UNCHANGED <<memory, disk, arrived, proc, prompt, given, dispo, tasks>>

Swallow(w, m) ==                  \* a body that never gets in
    /\ Optional("swallow") /\ m \in box[w]
    /\ box' = [box EXCEPT ![w] = @ \ {m}]
    /\ UNCHANGED <<memory, disk, arrived, proc, prompt, given, read, hist, hooks,
                   dispo, tasks>>

AgentEnds(w) ==                   \* on its own, with SessionEnd or (kill -9) without
    /\ Optional("end") /\ Live(w)
    /\ proc' = [proc EXCEPT ![w] = "gone"]
    /\ box' = [box EXCEPT ![w] = {}]
    /\ \/ Send("session_end", w)
       \/ UNCHANGED hooks
    /\ UNCHANGED <<memory, disk, arrived, prompt, given, read, hist, dispo, tasks>>

TurnFails(w) ==                   \* StopFailure
    /\ Optional("fail") /\ proc[w] = "run" /\ prompt[w] = NoMsg
    /\ Send("error", w)
    /\ UNCHANGED <<memory, disk, arrived, agent, dispo, tasks>>

\* reply, react or no_reply: for one message read, for one the Stop hook named
\* (it names all that is unanswered, read or not), or with no ids at all (not
\* no_reply).  Bound: one disposition on its way at a time.
Answer(w, m) ==
    /\ up /\ proc[w] = "run" /\ dispo = {}
    /\ TsOf[m] \in ledger
    /\ m \in read \/ (Optional("blind") /\ read # {})
    /\ \E S \in {{TsOf[m]}, {}} :
         /\ S = {} => Optional("noids")
         /\ dispo' = {S}
    /\ UNCHANGED <<memory, disk, arrived, agent, hooks, tasks>>

\* on_disposition: no ids = the whole thread is done
OnDisposition(S) ==
    /\ Looping /\ S \in dispo
    /\ dispo' = dispo \ {S}
    /\ Dispose(IF S = {} THEN Id ELSE S)
    /\ UNCHANGED <<boot, queue, latches, receipt, seat, drain, disk, arrived, agent,
                   hooks, tasks>>

\* The loop takes a hook of window w, after those w sent before it
Order == <<"session_start", "user_prompt", "error", "session_end">>
Take(kind, w) ==
    /\ Looping /\ <<kind, w>> \in hooks
    /\ \A k \in 1 .. 4 : <<Order[k], w>> \in hooks =>
         \E n \in 1 .. 4 : Order[n] = kind /\ n <= k
    /\ hooks' = hooks \ {<<kind, w>>}

OnSessionStart(w) ==
    /\ Take("session_start", w)
    /\ ended' = FALSE
    /\ UNCHANGED <<boot, queue, latches, receipt, marks, starting, bound, watch, drain,
                   disk, arrived, agent, dispo, tasks>>

OnSessionEnd(w) ==
    /\ Take("session_end", w)
    /\ ended' = TRUE
    /\ UNCHANGED <<boot, queue, latches, receipt, marks, starting, bound, watch, drain,
                   disk, arrived, agent, dispo, tasks>>

\* The first turn opened the seat: everything tracked counts as received, and
\* the queue is flushed whatever state the agent is in
OnUserPrompt(w) ==
    /\ Take("user_prompt", w)
    /\ starting' = FALSE
    /\ received' = IF session THEN ledger ELSE received
    /\ IF session THEN StartDelivery(Window_for, queue, latch, trouble, tasks)
                  ELSE UNCHANGED <<latch, tasks>>
    /\ UNCHANGED <<boot, queue, overdue, trouble, receipt, ledger, spent, ended, bound,
                   watch, drain, disk, arrived, agent, dispo>>

\* on_turn_failure.  Not a retry class (or the usage limit): told and settled.
TurnFailureTold ==
    /\ Dispose(Id)
    /\ UNCHANGED <<given, box>>
\* Retry class, but nothing to re-send or nobody to hear it: told, ledger kept
TurnFailureKept ==
    /\ ledger = {} \/ WorkerState # "ready"
    /\ UNCHANGED <<marks, given, box>>
\* Retry class, budget gone: told and settled
TurnFailureSpent ==
    /\ WorkerState = "ready" /\ spent # {}
    /\ Dispose(Id)
    /\ UNCHANGED <<given, box>>
\* Retry class: re-sent on the loop, past the window's latch.  The first body
\* refused ends it, so any part of the ledger (its order is not kept) got in.
TurnFailureResent ==
    /\ WorkerState = "ready" /\ ledger # {} /\ spent = {}
    /\ spent' = ledger
    /\ \E M \in SUBSET {m \in arrived : TsOf[m] \in ledger} :
         /\ {TsOf[m] : m \in M} # ledger => Optional("refuse") \/ M = {}
         /\ M = {} => Optional("refuse") \/ ~TakesKeys(Window_for)
         /\ M # {} => TakesKeys(Window_for)
         /\ IF M = {} THEN UNCHANGED <<given, box>> ELSE Type(M, Window_for)
         /\ received' = received \ {TsOf[m] : m \in M}
    /\ UNCHANGED ledger

OnTurnFailure(w) ==
    /\ Take("error", w)
    /\ IF session
       THEN TurnFailureTold \/ TurnFailureKept \/ TurnFailureSpent \/ TurnFailureResent
       ELSE UNCHANGED <<marks, given, box>>
    /\ UNCHANGED <<boot, queue, latches, receipt, seat, drain, disk, arrived, proc,
                   prompt, read, hist, dispo, tasks>>

\* The start-up screen watch reports its process gone.  News only while the
\* session has not reached its first turn and no process of its name is left.
OnSpawnExited(w) ==
    /\ Looping /\ w \in watch /\ ~Live(w)
    /\ watch' = watch \ {w}
    /\ IF starting /\ ~Alive
       THEN NeverStarted
       ELSE UNCHANGED <<starting, session, queue, marks>>
    /\ UNCHANGED <<boot, latches, receipt, ended, bound, drain, parked, saved, world>>

WatchOver(w) ==                   \* 150 s without an exit
    /\ w \in watch /\ Live(w)
    /\ watch' = watch \ {w}
    /\ UNCHANGED <<boot, queue, latches, receipt, marks, starting, ended, bound, drain,
                   disk, world>>

-----------------------------------------------------------------------------
(* Ending the agent, and the Bridge going down and coming back.            *)

DrainDeadline ==
    /\ up /\ drain = "wait"
    /\ drain' = "due"
    /\ UNCHANGED <<boot, queue, latches, receipt, marks, seat, disk, world>>

\* terminate kills the process pid_of finds; with SIGTERM it may still say so
Kill(W) ==
    /\ proc' = [w \in Window |-> IF w \in W THEN "gone" ELSE proc[w]]
    /\ box' = [w \in Window |-> IF w \in W THEN {} ELSE box[w]]

\* terminate: the ledger first, then the process and the session's memory (if a
\* session is named), the queue last.  The latches and the receipt watch stay.
Terminate(named) ==
    /\ Dispose(Id)
    /\ IF named
       THEN /\ starting' = FALSE /\ ended' = FALSE /\ bound' = 0
            /\ Kill({Found} \ {0})
            /\ \/ Found # 0 /\ Send("session_end", Found)
               \/ UNCHANGED hooks
       ELSE UNCHANGED <<starting, ended, bound, proc, box, hooks>>
    /\ queue' = {}

\* exit: queued behind what is unanswered, for DRAIN_TIMEOUT_MS at most; with no
\* agent to wait for, done on the spot
RequestExit ==
    LET live == session /\ Found # 0
    IN /\ Looping /\ Optional("exit")
       /\ \/ /\ live /\ drain = "none"
             /\ drain' = "wait"
             /\ UNCHANGED <<queue, marks, starting, ended, bound, proc, box, hooks>>
          \/ ~live /\ Terminate(FALSE) /\ UNCHANGED drain
       /\ UNCHANGED <<boot, latches, receipt, watch, disk, arrived, prompt, given, read,
                      hist, dispo, tasks>>

\* run_drains: settled, or its deadline is over (a stale one's may be at any time)
RunDrain ==
    /\ Looping
    /\ drain \in {"due", "stale"} \/ (drain = "wait" /\ ledger = {})
    /\ drain' = "none"
    /\ Terminate(drain # "stale")
    /\ UNCHANGED <<boot, latches, receipt, watch, disk, arrived, prompt, given, read,
                   hist, dispo, tasks>>

\* on_message_deleted for the thread's root: the entry goes, then the agent, and
\* nothing is posted there again
OnRootDeleted ==
    /\ Looping /\ Optional("root") /\ arrived # {}
    /\ session' = FALSE /\ parked' = {}
    /\ Terminate(session)
    /\ receipt' = [i \in Id |-> "none"]
    /\ UNCHANGED <<boot, latches, watch, drain, saved, arrived, prompt, given, read,
                   hist, dispo, tasks>>

\* The process is gone with all it held: tasks, watches and undelivered events
GoDown ==
    /\ up' = FALSE
    /\ resume' = {} /\ seen' = {} /\ queue' = {}
    /\ latch' = [w \in Target |-> NoMsg] /\ overdue' = {}
    /\ trouble' = [w \in Target |-> "none"] /\ receipt' = [i \in Id |-> "none"]
    /\ ledger' = {} /\ received' = {} /\ spent' = {}
    /\ starting' = FALSE /\ ended' = FALSE /\ bound' = 0 /\ watch' = {}
    /\ drain' = "none" /\ hooks' = {} /\ dispo' = {} /\ tasks' = {}
    /\ UNCHANGED <<session, arrived, prompt, given, read, hist>>

\* save_ledger and flush_pending_to_disk, in either order
SaveAll ==
    /\ saved' = [ledger |-> ledger, received |-> received, spent |-> spent]
    /\ parked' = parked \cup queue

Restart ==                        \* maintenance_restart: the agents keep running
    /\ Looping /\ Optional("restart")
    /\ SaveAll /\ GoDown
    /\ UNCHANGED <<proc, box>>

Shutdown ==                       \* SIGTERM: saved first, then every agent goes
    /\ Looping /\ Optional("shutdown")
    /\ SaveAll /\ GoDown
    /\ Kill({w \in Window : Live(w)})

Crash ==                          \* nothing is saved
    /\ up /\ Optional("crash")
    /\ GoDown
    /\ UNCHANGED <<parked, saved, proc, box>>

\* forget_unresumable_threads drops the entry of a session with neither history
\* nor window; restore_pending keeps the ledger of a live agent only; what was
\* parked is served next
Boot ==
    LET forgotten == session /\ ~hist /\ ~Alive
        kept == ~forgotten /\ session /\ Alive
    IN /\ ~up
       /\ up' = TRUE
       /\ session' = (session /\ ~forgotten)
       /\ parked' = IF forgotten THEN {} ELSE parked
       /\ resume' = parked'
       /\ ledger' = IF kept THEN saved.ledger ELSE {}
       /\ received' = IF kept THEN saved.received ELSE {}
       /\ spent' = IF kept THEN saved.spent ELSE {}
       /\ UNCHANGED <<seen, queue, latches, receipt, seat, drain, saved, world>>

-----------------------------------------------------------------------------

BridgeStep ==
    \/ \E m \in Msg : Arrive(m) \/ ResumeNext(m) \/ OnEdited(m) \/ OnDeleted(m)
    \/ UserStop \/ RetryPending \/ ScanTranscripts \/ SaveLedger
    \/ \E t \in tasks : OnDeliveryDone(t)
    \/ \E w \in Target : GiveUpStuck(w)
    \/ \E i \in Id : WarnUnreceived(i)
    \/ \E S \in dispo : OnDisposition(S)
    \/ \E w \in Window : OnSessionStart(w) \/ OnSessionEnd(w) \/ OnUserPrompt(w)
                         \/ OnTurnFailure(w) \/ OnSpawnExited(w)
    \/ RequestExit \/ RunDrain \/ OnRootDeleted \/ Restart \/ Shutdown \/ Boot

TaskStep == \E t \in tasks : TaskRefused(t) \/ TaskTypes(t) \/ TaskReturns(t)

AgentStep ==
    \E w \in Window : \/ AgentUp(w) \/ ReadPrompt(w) \/ AgentEnds(w)
                      \/ TurnFails(w)
                      \/ \E m \in Msg : TakeIn(w, m) \/ Swallow(w, m) \/ Answer(w, m)

TimeStep ==
    \/ \E w \in Target : TroubleOver(w) \/ Stalls(w)
    \/ \E i \in Id : ReceiptDue(i)
    \/ \E w \in Window : WatchOver(w)
    \/ DrainDeadline \/ Crash

Next == BridgeStep \/ TaskStep \/ AgentStep \/ TimeStep

Spec == Init /\ [][Next]_vars

-----------------------------------------------------------------------------
(* Safety.                                                                 *)

\* A window is latched only while a task holding that very message is still to
\* report, so the report that clears the latch always comes: a latch nobody is
\* left to clear would silence the window for good (start_delivery,
\* on_delivery_done, give_up_stuck_deliveries, terminate, a restart).
NoOrphanLatch ==
    \A w \in Target : latch[w] # NoMsg =>
        \E t \in tasks : t.win = w /\ t.msg = latch[w]

\* At most one delivery task works on a window: two would interleave in the
\* agent's input box (Bridge::delivering).  Not so once a stuck delivery is
\* given up, see GiveUpStuck.
OneTaskPerWindow ==
    \A t, u \in tasks : t.win = u.win => t = u

\* No request is given to an agent a second time, neither typed twice nor typed
\* after it was the prompt (start_delivery's latch, the queue emptied by the
\* report, dedup, Dispatch), as long as deliveries end in time and refuse before
\* they type.
HandedOnce == \A m \in Msg : given[m] < 2

\* A request taken from Slack is not lost before an agent was given it: it waits
\* in the queue, in threads.json or in start-up's list (flush_pending_to_disk,
\* resume_pending_from_disk; on_delivery_done, retry_pending).
NothingLost ==
    \A m \in arrived : given[m] > 0 \/ m \in queue \cup resume \cup parked

\* An unanswered id without proof of receipt is in somebody's hands: queued, in
\* start-up's list, the prompt of a watched or answering process, or under the
\* receipt watch that will tell the person.  Otherwise it could disappear
\* without a word.
OpenIsHeld ==
    \A i \in ledger \ received :
        \/ \E m \in queue \cup resume : TsOf[m] = i
        \/ receipt[i] # "none"
        \/ \E w \in Window :
             \/ prompt[w] # NoMsg /\ TsOf[prompt[w]] = i /\ (Live(w) \/ w \in watch)
             \/ <<"user_prompt", w>> \in hooks

\* One conversation is worked on by one process (Claude::spawn refuses a seat
\* that is taken).
OneAgent == \A v, w \in Window : Live(v) /\ Live(w) => v = w

\* A third window was opened in the thread.  By then the SessionEnd of a terminated
\* agent, read after the session came back, may have marked the new one as ended; a
\* further request opens another process beside it, and a request still queued can
\* be typed into both (on_session_end, Workers::state_of).
ThirdWindow == \E w \in Window : w > 2 /\ proc[w] # "none"

\* What becomes of a request that was taken in: it is in somebody's hands until
\* it is answered or its author is told, and an agent is given it once, or else the
\* thread is in its third window.
HeldAndHandedOnce == OpenIsHeld /\ (HandedOnce \/ ThirdWindow)

\* A maintenance restart at any moment costs no request, and starts no second
\* process for a conversation that lived through it.
SurvivesRestart == OneAgent /\ NothingLost

\* A report takes exactly the message it is about off the queue: what leaves
\* had been typed (DeliveryDone.msg_ts).
LeavesTyped ==
    [][\A t \in tasks : OnDeliveryDone(t) =>
         \A m \in queue \ queue' : given[m] > 0]_vars

-----------------------------------------------------------------------------
(* Liveness.  The loop takes everything that is waiting; a delivery task    *)
(* ends; timers elapse; a live agent reads what it holds and answers what   *)
(* it read (the Stop hook sends it back until it has).  A window that keeps *)
(* refusing for a while takes keys again (strong fairness of TaskTypes).    *)

LoopFairness ==
    /\ \A m \in Msg : WF_vars(Arrive(m)) /\ WF_vars(ResumeNext(m))
    /\ WF_vars(RetryPending) /\ WF_vars(ScanTranscripts) /\ WF_vars(Boot)
    /\ WF_vars(\E t \in tasks : OnDeliveryDone(t))
    /\ WF_vars(RunDrain)
    /\ \A w \in Target : WF_vars(GiveUpStuck(w)) /\ WF_vars(TroubleOver(w))
    /\ \A i \in Id : WF_vars(WarnUnreceived(i)) /\ WF_vars(ReceiptDue(i))
    /\ WF_vars(\E S \in dispo : OnDisposition(S))
    /\ \A w \in Window : /\ WF_vars(OnSessionStart(w)) /\ WF_vars(OnSessionEnd(w))
                         /\ WF_vars(OnUserPrompt(w)) /\ WF_vars(OnTurnFailure(w))
                         /\ WF_vars(OnSpawnExited(w))
TaskFairness ==
    /\ WF_vars(TaskStep)
    /\ \A m \in Msg : SF_vars(\E t \in tasks : t.msg = m /\ TaskTypes(t))
AgentFairness ==
    \A w \in Window :
      /\ WF_vars(AgentUp(w)) /\ WF_vars(ReadPrompt(w))
      /\ \A m \in Msg : WF_vars(TakeIn(w, m)) /\ SF_vars(m \in read /\ Answer(w, m))

FairSpec == Spec /\ LoopFairness /\ TaskFairness /\ AgentFairness

\* Every request handed over is settled in the end: answered, or its author told
\* why not, so no thread stays "working" on it for ever.
EveryRequestSettles ==
    \A m \in Msg : m \in arrived ~> TsOf[m] \notin ledger

\* What was queued leaves the queue: no refusal, no given-up delivery and no
\* message of the person's makes it sit there for ever (flush_queued, retry_pending).
QueueDrains == \A m \in Msg : m \in queue ~> m \notin queue

\* Nothing waits for ever: requests settle and the queue drains.
RequestsSettle == EveryRequestSettles /\ QueueDrains

=============================================================================
