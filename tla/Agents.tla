------------------------------- MODULE Agents -------------------------------
(***************************************************************************)
(* Which agents live on one machine: the agents of Slack threads, the warm *)
(* pool kept ready for new threads, and the rules that end agents          *)
(* (worker.rs, and the callers of it in inbound.rs, turn.rs, bridge.rs and *)
(* command/agent.rs).                                                      *)
(*                                                                         *)
(* The Bridge is one loop, so every handler is one step.  The agents run   *)
(* beside it: they bring up MCP, take their first turn, fall silent, exit. *)
(* `win' is what tmux knows of a session, `mem' what the Bridge remembers, *)
(* `bound' and `reserved' what threads.json and access.json hold.          *)
(*                                                                         *)
(* What is delivered to an agent and how is module Delivery's subject;     *)
(* here a request only makes the thread owed an answer.                    *)
(***************************************************************************)
EXTENDS Naturals, FiniteSets

CONSTANTS
    Thread,      \* threads in Slack, by the time they started
    Cwd,         \* working folders
    CwdOf,       \* the folder a thread's agent works in
    Missing,     \* folders that are not on this machine
    Sid,         \* session ids
    None,        \* no session, no agent
    Unknown,     \* a thread threads.json has no row for
    IdleSlots,   \* how many agents may stay cold
    MaxLive,     \* how many may live at once
    MaxFaults,   \* bound on what goes wrong
    MaxWindows,  \* bound on the windows of one session
    Prompts,     \* what agents ask for: see AllPrompts
    Moves        \* what may go wrong: see AllMoves

AllMoves ==
    {"exit", "kill", "husk", "restart", "shutdown", "corrupt", "settings", "limit", "logout", "delete"}

\* perm_pending; dialog_pending, with questions
AllPrompts == {"permission", "dialog"}

ASSUME NamesAssumption == None \notin Sid /\ Unknown \notin Sid /\ None # Unknown
ASSUME ThreadAssumption == Thread \subseteq Nat
ASSUME FolderAssumption == CwdOf \in [Thread -> Cwd] /\ Missing \subseteq Cwd
ASSUME PolicyAssumption == IdleSlots \in Nat /\ MaxLive \in Nat /\ MaxFaults \in Nat /\ MaxWindows \in Nat
ASSUME MovesAssumption == Moves \subseteq AllMoves
ASSUME PromptsAssumption == Prompts \subseteq AllPrompts

VARIABLES
    bound,       \* threads.json: the session each thread's agent runs
    reserved,    \* access.json "pools": the session reserved for each folder
    targets,     \* the folders to keep an agent warm for
    revived,     \* sessions whose folder was wanted again while they still ran
    owner,       \* somebody is signed in
    limited,     \* the usage limit is reached
    win,         \* tmux and the processes in it, by session
    history,     \* sessions with a transcript to resume
    mem,         \* the Bridge's memory
    owed,        \* threads with a request nobody answered yet
    asked,       \* the clicks threads wait for, and for what: Thread \X Prompts
    up,          \* the Bridge runs
    faults       \* how much went wrong so far

settings == <<targets, revived>>
disk == <<bound, reserved, settings, owner>>
talk == <<owed, asked>>
vars == <<bound, reserved, targets, revived, owner, limited, win, history, mem, owed, asked, up, faults>>

\* How far the newest process of a session is; a husk is a window whose agent is gone
Stages == {"off", "boot", "begun", "turned", "husk"}
\* How long since a session's transcript moved: within the cold limit, past it, past the absolute one
Idle == 0 .. 2

NoWindow == [n |-> 0, stage |-> "off", mcp |-> FALSE, idle |-> 0]

Memory ==
    [ pool : [Cwd -> Sid \cup {None}], resumed : SUBSET Cwd, gaveUp : SUBSET Cwd,
      starting : SUBSET Sid, mcp : SUBSET Sid, ended : SUBSET Sid,
      watch : [Sid -> Thread \cup {None, Unknown}], drain : [Thread -> Sid \cup {None}] ]

\* A Bridge that just started knows nothing of the agents it finds
Blank ==
    [ pool |-> [c \in Cwd |-> None], resumed |-> {}, gaveUp |-> {}, starting |-> {}, mcp |-> {},
      ended |-> {}, watch |-> [s \in Sid |-> Unknown], drain |-> [t \in Thread |-> None] ]

TypeOK ==
    /\ bound \in [Thread -> Sid \cup {None, Unknown}]
    /\ reserved \in [Cwd -> Sid \cup {None}]
    /\ targets \subseteq Cwd /\ revived \subseteq Sid /\ owner \in BOOLEAN /\ limited \in BOOLEAN
    /\ win \in [Sid -> [n : Nat, stage : Stages, mcp : BOOLEAN, idle : Idle]]
    /\ history \subseteq Sid
    /\ mem \in Memory
    /\ owed \subseteq Thread /\ asked \subseteq Thread \X Prompts
    /\ up \in BOOLEAN /\ faults \in 0 .. MaxFaults
    /\ \A s \in Sid : win[s].stage = "off" <=> win[s].n = 0

-----------------------------------------------------------------------------
(* What the Bridge sees                                                    *)

\* pid_of finds a window, whatever runs in it; live_windows drops husks
HasWindow(s) == win[s].n > 0
Live(s) == win[s].n > 0 /\ win[s].stage # "husk"

\* WorkerState of the agent a thread is bound to
Absent(s) == s \in mem.ended \/ ~HasWindow(s)
Starting(s) == ~Absent(s) /\ s \in mem.starting
Ready(s) == ~Absent(s) /\ s \notin mem.starting

Bound(b) == {b[t] : t \in Thread} \ {None, Unknown}
Held(f) == {f[c] : c \in Cwd} \ {None}
\* Every session somebody holds: the windows of all others are strays
Owned == Bound(bound) \cup Held(mem.pool) \cup Held(reserved)

\* pool_targets: nothing while nobody is signed in
Wanted(own, tgs) == IF own THEN tgs ELSE {}

\* A pool agent is given away once MCP is up and its idle prompt went through
PushReady(s) == s \notin mem.starting /\ s \in mem.mcp /\ s \notin mem.ended

-----------------------------------------------------------------------------
(* What happens to a session                                               *)

\* agent.spawn and what spawn_worker and start_missing_pool_workers remember
\* of it; `about' is the thread the start-up watch reports to, None for the pool
Opened(w, s) == [w EXCEPT ![s] = [n |-> @.n + 1, stage |-> "boot", mcp |-> FALSE, idle |-> 0]]
Watched(m, s, about) ==
    [m EXCEPT !.starting = @ \cup {s}, !.watch = [@ EXCEPT ![s] = about]]

\* Kill by pid, then close the window: of two windows of one session, one goes
Closed(w, s) == IF w[s].n > 1 THEN [w EXCEPT ![s].n = @ - 1] ELSE [w EXCEPT ![s] = NoWindow]
ClosedAll(w, ss) == [s \in Sid |-> IF s \in ss THEN Closed(w, s)[s] ELSE w[s]]

\* Workers::forget
Forgot(m, ss) ==
    [m EXCEPT !.starting = @ \ ss, !.mcp = @ \ ss, !.ended = @ \ ss]

\* Session ids that name nothing any more may be cut again
Spare(w, b, r, m) ==
    {s \in Sid : w[s].n = 0 /\ s \notin Bound(b) \cup Held(r) \cup Held(m.pool)
                 /\ \A t \in Thread : m.drain[t] # s}

\* start_missing_pool_workers: lets go of the agents of folders no longer
\* wanted, then starts what is missing, resuming the reserved session when it
\* has a conversation.  w, m and r are the state the caller leaves.
Refill(m, w, r) ==
    LET want == Wanted(owner', targets')
        kept == [c \in Cwd |-> IF c \in want THEN m.pool[c] ELSE None]
        need == IF limited THEN {}
                ELSE {c \in want \ (Missing \cup m.gaveUp) : kept[c] = None}
        resume == {c \in need : r[c] # None /\ r[c] \in history}
        spare == Spare(w, bound', r, [m EXCEPT !.pool = kept])
        cuts == {f \in [need \ resume -> spare] :
                   \A c, d \in need \ resume : f[c] = f[d] => c = d}
        cut == CHOOSE f \in cuts : TRUE
        sid == [c \in need |-> IF c \in resume THEN r[c] ELSE cut[c]]
        new == {sid[c] : c \in need}
    IN  /\ cuts # {}
        /\ reserved' = [c \in Cwd |-> IF c \in need THEN sid[c] ELSE r[c]]
        /\ win' = [s \in Sid |-> IF s \in new THEN Opened(w, s)[s] ELSE w[s]]
        /\ mem' = [m EXCEPT !.pool = [c \in Cwd |-> IF c \in need THEN sid[c] ELSE kept[c]],
                            !.resumed = (@ \ need) \cup resume,
                            !.starting = @ \cup new,
                            !.watch = [s \in Sid |-> IF s \in new THEN None ELSE @[s]],
                            !.ended = @ \ {sid[c] : c \in need \ resume},
                            !.mcp = @ \ {sid[c] : c \in need \ resume}]
        /\ history' = history \ {sid[c] : c \in need \ resume}

Init ==
    /\ bound = [t \in Thread |-> Unknown]
    /\ reserved = [c \in Cwd |-> None]
    /\ targets = Cwd /\ revived = {} /\ owner = TRUE /\ limited = FALSE
    /\ win = [s \in Sid |-> NoWindow] /\ history = {}
    /\ mem = Blank
    /\ owed = {} /\ asked = {} /\ up = FALSE /\ faults = 0

-----------------------------------------------------------------------------
(* A request arrives (the end of on_inbound)                               *)

Takes(t) == up /\ owner /\ ~limited

\* The pool agent for a thread nobody knows yet, None if there is none to give
Offered(t) ==
    IF bound[t] = Unknown /\ mem.pool[CwdOf[t]] # None /\ PushReady(mem.pool[CwdOf[t]])
    THEN mem.pool[CwdOf[t]] ELSE None

Released(m, c) == [m EXCEPT !.pool = [@ EXCEPT ![c] = None], !.resumed = @ \ {c}]

\* mutant: the agent goes to the thread and its reservation stays
Claim_KeepsReservation(t) ==
    /\ Takes(t)
    /\ UNCHANGED <<settings, owner, limited, asked, up, faults>>
    /\ LET c == CwdOf[t] s == Offered(t) IN
       /\ s # None /\ HasWindow(s)
       /\ bound' = [bound EXCEPT ![t] = s]
       /\ Refill(Released(mem, c), [win EXCEPT ![s] = [@ EXCEPT !.idle = 0]],
                 reserved)
    /\ owed' = owed \cup {t}

\* claim_pool_worker and assign_pool_worker: the reservation goes with the
\* agent, and its place is refilled at once
Claim(t) ==
    /\ Takes(t)
    /\ UNCHANGED <<settings, owner, limited, asked, up, faults>>
    /\ LET c == CwdOf[t] s == Offered(t) IN
       /\ s # None /\ HasWindow(s)
       /\ bound' = [bound EXCEPT ![t] = s]
       /\ Refill(Released(mem, c), [win EXCEPT ![s] = [@ EXCEPT !.idle = 0]],
                 [reserved EXCEPT ![c] = None])
    /\ owed' = owed \cup {t}

\* A pool agent found dead when it is wanted leaves the pool, and the thread
\* gets an agent of its own
SpawnNew(t) ==
    /\ Takes(t) /\ bound[t] \in {None, Unknown} /\ CwdOf[t] \notin Missing
    /\ Offered(t) # None => ~HasWindow(Offered(t))
    /\ LET m == IF Offered(t) # None THEN Released(mem, CwdOf[t]) ELSE mem
           spare == Spare(win, bound, reserved, m)
           s == CHOOSE x \in spare : TRUE
       IN  /\ spare # {}
           /\ bound' = [bound EXCEPT ![t] = s]
           /\ win' = Opened(win, s)
           /\ mem' = Watched(Forgot(m, {s}), s, t)
           /\ history' = history \ {s}
    /\ owed' = owed \cup {t}
    /\ UNCHANGED <<reserved, settings, owner, limited, asked, up, faults>>

\* The thread's agent is gone: its session is opened again with --resume.
\* What was remembered of its last life stays.
SpawnResume(t) ==
    /\ Takes(t) /\ bound[t] \in Sid /\ Absent(bound[t]) /\ CwdOf[t] \notin Missing
    /\ win[bound[t]].n < MaxWindows
    /\ win' = Opened(win, bound[t])
    /\ mem' = Watched(mem, bound[t], t)
    /\ owed' = owed \cup {t}
    /\ UNCHANGED <<disk, history, limited, asked, up, faults>>

\* Deliver to an agent that takes keys, queue for one that is starting
Hand(t) ==
    /\ Takes(t) /\ bound[t] \in Sid /\ ~Absent(bound[t])
    /\ owed' = owed \cup {t}
    /\ win' = IF Ready(bound[t]) THEN [win EXCEPT ![bound[t]] = [@ EXCEPT !.idle = 0]] ELSE win
    /\ UNCHANGED <<disk, history, limited, mem, asked, up, faults>>

Message(t) == Claim(t) \/ SpawnNew(t) \/ SpawnResume(t) \/ Hand(t)

\* mark_thread_seen: a command was answered in a thread nobody knew
Command(t) ==
    /\ up /\ owner /\ bound[t] = Unknown
    /\ bound' = [bound EXCEPT ![t] = None]
    /\ UNCHANGED <<reserved, settings, owner, limited, win, history, mem, talk, up, faults>>

-----------------------------------------------------------------------------
(* The agents, and the hooks that report them (on_hook)                    *)

AgentOnly == UNCHANGED <<disk, limited, talk, up, faults>>

\* A hook reaches the Bridge only while it runs
Told(m) == mem' = IF up THEN m ELSE mem

SessionStart(s) ==
    /\ win[s].stage = "boot"
    /\ win' = [win EXCEPT ![s] = [@ EXCEPT !.stage = "begun"]]
    /\ Told([mem EXCEPT !.ended = @ \ {s}])
    /\ UNCHANGED history /\ AgentOnly

\* Only for a pool agent does anything here depend on its MCP
McpUp(s) ==
    /\ Live(s) /\ ~win[s].mcp /\ s \in Held(reserved)
    /\ win' = [win EXCEPT ![s] = [@ EXCEPT !.mcp = TRUE]]
    /\ Told([mem EXCEPT !.mcp = @ \cup {s}])
    /\ UNCHANGED history /\ AgentOnly

\* The first prompt goes through: from now on there is a transcript, the latch
\* is released, and what the start-up watch may still say counts for nothing
FirstTurn(s) ==
    /\ win[s].stage = "begun"
    /\ win' = [win EXCEPT ![s] = [@ EXCEPT !.stage = "turned"]]
    /\ history' = history \cup {s}
    /\ Told([mem EXCEPT !.starting = @ \ {s}, !.watch = [@ EXCEPT ![s] = Unknown]])
    /\ AgentOnly

Works(t) == bound[t] \in Sid /\ win[bound[t]].stage = "turned"

Answer(t) ==
    /\ up /\ Works(t) /\ t \in owed
    /\ owed' = owed \ {t}
    /\ win' = [win EXCEPT ![bound[t]] = [@ EXCEPT !.idle = 0]]
    /\ UNCHANGED <<disk, limited, history, mem, asked, up, faults>>

\* A person is asked whether a tool may run, or what the agent wants to know,
\* which its transcript shows; the click, or the end of the wait for it
Ask(t, prompt) ==
    /\ up /\ Works(t) /\ <<t, prompt>> \notin asked
    /\ asked' = asked \cup {<<t, prompt>>}
    /\ win' = [win EXCEPT ![bound[t]] = [@ EXCEPT !.idle = 0]]
    /\ UNCHANGED <<disk, limited, history, mem, owed, up, faults>>

Click(t, prompt) ==
    /\ up /\ <<t, prompt>> \in asked
    /\ asked' = asked \ {<<t, prompt>>}
    /\ UNCHANGED <<disk, limited, win, history, mem, owed, up, faults>>

\* Its transcript stands still; only the agents of threads are judged by it
Silent(s) ==
    /\ win[s].stage = "turned" /\ win[s].idle < 2 /\ s \in Bound(bound)
    /\ win' = [win EXCEPT ![s].idle = @ + 1]
    /\ UNCHANGED <<history, mem>> /\ AgentOnly

Fault(name) == name \in Moves /\ faults < MaxFaults /\ faults' = faults + 1
EndOnly == UNCHANGED <<disk, limited, talk, history, up>>

\* It exits and says so: a pool agent leaves the pool, its reservation stays
Exit(s) ==
    /\ Fault("exit") /\ Live(s)
    /\ win' = Closed(win, s)
    /\ Told([mem EXCEPT !.ended = @ \cup {s},
                        !.pool = [c \in Cwd |-> IF @[c] = s THEN None ELSE @[c]]])
    /\ EndOnly

\* It is killed, or dies in the middle of its start: nothing says so
Kill(s) ==
    /\ Fault("kill") /\ Live(s)
    /\ win' = Closed(win, s)
    /\ UNCHANGED mem /\ EndOnly

\* It ends and its window stays, with the shell in it
Husk(s) ==
    /\ Fault("husk") /\ Live(s) /\ win[s].n = 1
    /\ win' = [win EXCEPT ![s] = [@ EXCEPT !.stage = "husk", !.idle = 0, !.mcp = FALSE]]
    /\ UNCHANGED mem /\ EndOnly


-----------------------------------------------------------------------------
(* The Bridge ends agents                                                  *)

\* terminate: what is unanswered is dropped first, then the process and its
\* window, then what was remembered; the row in threads.json stays
Terminate(t, s) ==
    /\ owed' = owed \ {t}
    /\ win' = Closed(win, s)
    /\ mem' = [Forgot(mem, {s}) EXCEPT !.drain = [@ EXCEPT ![t] = None]]

\* mutant: a failed start takes the session from the thread whatever it holds
SpawnExited_Always(s) ==
    /\ up /\ mem.watch[s] # Unknown /\ ~HasWindow(s)
    /\ LET t == mem.watch[s] late == s \in mem.starting IN
       /\ mem' = [mem EXCEPT !.starting = @ \ {s}, !.watch = [@ EXCEPT ![s] = Unknown]]
       /\ bound' = IF late /\ t # None /\ bound[t] = s
                   THEN [bound EXCEPT ![t] = None] ELSE bound
       /\ owed' = IF late /\ t # None THEN owed \ {t} ELSE owed
    /\ UNCHANGED <<reserved, settings, owner, limited, win, history, asked, up, faults>>

\* The start-up watch lost its window (SpawnScreen, Exited).  An agent that
\* never began is taken from its thread, and the thread is told.
SpawnExited(s) ==
    /\ up /\ mem.watch[s] # Unknown /\ ~HasWindow(s)
    /\ LET t == mem.watch[s] late == s \in mem.starting IN
       /\ mem' = [mem EXCEPT !.starting = @ \ {s}, !.watch = [@ EXCEPT ![s] = Unknown]]
       /\ bound' = IF late /\ t # None /\ s \notin history /\ bound[t] = s
                   THEN [bound EXCEPT ![t] = None] ELSE bound
       /\ owed' = IF late /\ t # None THEN owed \ {t} ELSE owed
    /\ UNCHANGED <<reserved, settings, owner, limited, win, history, asked, up, faults>>

\* exit and resume: an agent that runs ends after its last answer or after
\* half a minute; with none running there is nothing to wait for
UserExit(t) ==
    /\ up /\ owner /\ bound[t] \in Sid /\ mem.drain[t] = None
    /\ IF HasWindow(bound[t])
       THEN mem' = [mem EXCEPT !.drain = [@ EXCEPT ![t] = bound[t]]] /\ UNCHANGED owed
       ELSE owed' = owed \ {t} /\ UNCHANGED mem
    /\ UNCHANGED <<disk, limited, win, history, asked, up, faults>>

RunDrain(t) ==
    /\ up /\ mem.drain[t] # None
    /\ Terminate(t, mem.drain[t])
    /\ UNCHANGED <<disk, limited, history, asked, up, faults>>

\* The thread's first message was deleted: the record goes, then the agent
Delete(t) ==
    /\ Fault("delete") /\ up /\ bound[t] # Unknown
    /\ bound' = [bound EXCEPT ![t] = Unknown]
    /\ IF bound[t] # None THEN Terminate(t, bound[t])
       ELSE owed' = owed \ {t} /\ UNCHANGED <<win, mem>>
    /\ UNCHANGED <<reserved, settings, owner, limited, history, asked, up>>

-----------------------------------------------------------------------------
(* What the clock does                                                     *)

\* give_up_stale_pools: 50 seconds and no MCP.  A resumed session loses its
\* reservation and the folder one more try; otherwise the folder is given up.
GiveUp(cs) ==
    /\ up /\ cs # {}
    /\ \A c \in cs : mem.pool[c] # None /\ mem.pool[c] \notin mem.mcp
    /\ LET gone == {mem.pool[c] : c \in cs} IN
       /\ mem' = [Forgot(mem, gone) EXCEPT
                     !.pool = [c \in Cwd |-> IF c \in cs THEN None ELSE @[c]],
                     !.gaveUp = @ \cup (cs \ mem.resumed),
                     !.resumed = @ \ cs]
       /\ win' = ClosedAll(win, gone)
    /\ reserved' = [c \in Cwd |-> IF c \in cs \cap mem.resumed THEN None ELSE reserved[c]]
    /\ UNCHANGED <<bound, settings, owner, limited, history, talk, up, faults>>

\* sweep_pools, every five seconds
Sweep ==
    /\ up
    /\ UNCHANGED <<bound, settings, owner, limited, talk, up, faults>>
    /\ Refill(mem, win, reserved)

\* Windows that reap_stray_windows closes, one a round: husks and windows
\* nobody owns, unless nobody owns anything
SafeToReap == Owned # {} \/ \A s \in Sid : ~HasWindow(s)
\* mutant: only empty windows are closed
Strays_HusksOnly == {s \in Sid : s \notin mem.starting /\ win[s].stage = "husk"}

Strays ==
    {s \in Sid : HasWindow(s) /\ s \notin mem.starting
                 /\ (win[s].stage = "husk" \/ s \notin Owned)}

\* evict_idle_worker looks at the agents of threads that have a live window
Snaps == {t \in Thread : bound[t] \in Sid /\ Live(bound[t])}
IdleOf(t) == win[bound[t]].idle

\* Of what a thread waits for only permissions are looked up (`waiting')
Permitting(t) == <<t, "permission">> \in asked
Eligible(t) ==
    /\ bound[t] \in history /\ bound[t] \notin mem.starting
    /\ mem.drain[t] = None /\ t \notin owed /\ ~Permitting(t)

\* The first thread of select_cleanup_keys: beyond the absolute limit; else a
\* cold one when too many are cold; else any when too many live.  Always the
\* coldest.
Coldest(ts) == {t \in ts : \A x \in ts : IdleOf(x) <= IdleOf(t)}
Select ==
    LET can == {t \in Snaps : Eligible(t)}
        cold == {t \in Snaps : IdleOf(t) > 0}
    IN  IF \E t \in can : IdleOf(t) = 2 THEN Coldest(can)
        ELSE IF Cardinality(cold) > IdleSlots /\ can \cap cold # {} THEN Coldest(can \cap cold)
        ELSE IF Cardinality(Snaps) > MaxLive THEN Coldest(can)
        ELSE {}

\* cleanup_workers, every minute: one stray, then one cold agent
Reapable == IF SafeToReap /\ Strays # {} THEN Strays ELSE {None}
Evictable == IF Select # {} THEN Select ELSE {None}

Cleanup(stray, t) ==
    /\ up /\ <<stray, t>> # <<None, None>>
    /\ LET ended == {stray} \cup (IF t = None THEN {} ELSE {bound[t]}) IN
       /\ win' = ClosedAll(win, ended \ {None})
       /\ mem' = Forgot(mem, ended)
    /\ owed' = owed \ {t}
    /\ UNCHANGED <<disk, limited, history, asked, up, faults>>

Tidy == \E stray \in Reapable, t \in Evictable : Cleanup(stray, t)
Reap(s) == s \in Reapable /\ \E t \in Evictable : Cleanup(s, t)
Evict(t) == t \in Evictable /\ \E s \in Reapable : Cleanup(s, t)

-----------------------------------------------------------------------------
(* Settings, signing in and out, stopping and starting                     *)

\* adopt_access: the pool follows the settings at once
SetTargets(tgs) ==
    /\ Fault("settings") /\ up /\ tgs # targets
    /\ targets' = tgs
    /\ revived' = revived \cup {s \in Sid : HasWindow(s) /\ \E c \in tgs \ targets : reserved[c] = s}
    /\ UNCHANGED <<bound, owner, limited, talk, up>>
    /\ Refill(mem, win, reserved)

Limit ==
    /\ Fault("limit") /\ up /\ ~limited /\ limited' = TRUE
    /\ UNCHANGED <<disk, win, history, mem, talk, up>>

LimitEnds ==
    /\ limited /\ limited' = FALSE
    /\ UNCHANGED <<disk, win, history, mem, talk, up, faults>>

\* teardown_all_workers: every thread's agent that has a window, then the pool
Ended == {bound[t] : t \in {x \in Thread : bound[x] \in Sid /\ HasWindow(bound[x])}}
Unpooled(m) == [m EXCEPT !.pool = [c \in Cwd |-> None], !.resumed = {}]
LeftOwed == {t \in owed : bound[t] \notin Ended}

Logout ==
    /\ Fault("logout") /\ up /\ owner /\ owner' = FALSE
    /\ owed' = LeftOwed
    /\ UNCHANGED <<bound, settings, limited, asked, up>>
    /\ LET gone == Ended \cup Held(mem.pool) IN
       Refill(Forgot(Unpooled(mem), gone), ClosedAll(win, gone), reserved)

\* LoginFinished: folders given up are tried again
Login ==
    /\ up /\ ~owner /\ owner' = TRUE
    /\ UNCHANGED <<bound, settings, limited, talk, up, faults>>
    /\ Refill([mem EXCEPT !.gaveUp = {}], win, reserved)

\* SIGTERM ends every agent; a maintenance restart ends none
Shutdown ==
    /\ Fault("shutdown") /\ up /\ up' = FALSE
    /\ owed' = owed
    /\ win' = ClosedAll(win, Ended \cup Held(mem.pool))
    /\ mem' = Blank
    /\ UNCHANGED <<disk, limited, history, asked>>

Restart ==
    /\ Fault("restart") /\ up /\ up' = FALSE
    /\ mem' = Blank
    /\ UNCHANGED <<disk, limited, win, history, talk>>

\* threads.json cannot be read when the next process starts (Threads::load)
Corrupt ==
    /\ "corrupt" \in Moves /\ ~up /\ bound # [t \in Thread |-> Unknown]
    /\ bound' = [t \in Thread |-> Unknown]
    /\ UNCHANGED <<reserved, settings, owner, limited, win, history, mem, talk, up, faults>>

\* restore_pools: of the reserved sessions, those alive are the pool again,
\* those of folders no longer wanted are ended.  MCP is taken to be up.
Restored(c) == reserved[c] # None /\ c \in targets /\ HasWindow(reserved[c])
Discarded == {reserved[c] : c \in {d \in Cwd \ targets : reserved[d] # None}}

\* forget_unresumable_threads
Resumable(b, w) ==
    [t \in Thread |-> IF b[t] \in Sid /\ b[t] \notin history
                          /\ (w[b[t]].n = 0 \/ w[b[t]].stage = "husk")
                      THEN Unknown ELSE b[t]]

\* The next process: the pool, the threads, and what is still owed where an
\* agent lives to answer it (restore_pending)
Boot ==
    /\ ~up /\ up' = TRUE
    /\ bound' = Resumable(bound, win)
    /\ UNCHANGED <<settings, owner, limited, faults>>
    /\ IF owner
       THEN Refill([Blank EXCEPT !.pool = [c \in Cwd |-> IF Restored(c) THEN reserved[c] ELSE None],
                                 !.mcp = {reserved[c] : c \in {d \in Cwd : Restored(d)}}],
                   ClosedAll(win, Discarded),
                   [c \in Cwd |-> IF c \in targets THEN reserved[c] ELSE None])
       ELSE mem' = Blank /\ UNCHANGED <<win, history, reserved>>
    /\ owed' = {t \in owed : bound'[t] \in Sid /\ HasWindow(bound'[t])}
    /\ asked' = {}

-----------------------------------------------------------------------------
Agent(s) ==
    SessionStart(s) \/ McpUp(s) \/ FirstTurn(s) \/ Silent(s) \/ Exit(s) \/ Kill(s) \/ Husk(s)

Person(t) ==
    \/ Message(t) \/ Command(t) \/ Answer(t)
    \/ \E prompt \in Prompts : Ask(t, prompt) \/ Click(t, prompt)
    \/ UserExit(t) \/ RunDrain(t) \/ Delete(t)

Clock ==
    \/ \E cs \in SUBSET Cwd : GiveUp(cs)
    \/ Sweep
    \/ Tidy
    \/ LimitEnds

Next ==
    \/ \E s \in Sid : Agent(s) \/ SpawnExited(s)
    \/ \E t \in Thread : Person(t)
    \/ Clock
    \/ \E tgs \in SUBSET Cwd : SetTargets(tgs)
    \/ Limit \/ Logout \/ Login \/ Shutdown \/ Restart \/ Corrupt \/ Boot

Spec == Init /\ [][Next]_vars

\* The clock runs, start-up watches report, the next process comes; and of
\* two agents equally cold the one that has waited longer goes first, so none
\* is passed over for ever
Fairness ==
    /\ WF_vars(Boot) /\ WF_vars(Sweep) /\ WF_vars(LimitEnds)
    /\ \A c \in Cwd : WF_vars(GiveUp({c}))
    /\ \A s \in Sid : WF_vars(SpawnExited(s)) /\ WF_vars(Reap(s))
    /\ \A t \in Thread : WF_vars(RunDrain(t)) /\ SF_vars(Evict(t))

FairSpec == Spec /\ Fairness

-----------------------------------------------------------------------------
(* What it must keep                                                       *)

\* An agent has one owner: no session belongs to two threads, to two folders
\* of the pool, or to a thread and the pool (assign_pool_worker's release,
\* Threads::should_claim_pool).
OneOwner ==
    /\ \A t, u \in Thread : bound[t] \in Sid /\ bound[t] = bound[u] => t = u
    /\ \A c, d \in Cwd : reserved[c] # None /\ reserved[c] = reserved[d] => c = d
    /\ Bound(bound) \cap (Held(reserved) \cup Held(mem.pool)) = {}

\* The pool never runs a session twice, whatever was given up, restarted or
\* discarded in between (PoolStatus::needs_launch, teardown_pool); a folder that
\* is wanted again while its former agent runs has it resumed beside that one.
PoolAgentAlone == \A s \in (Held(reserved) \cup Held(mem.pool)) \ revived : win[s].n < 2

\* A thread with a conversation keeps it: neither a failed start, nor the
\* sweep at start-up, nor a new request cuts it off from its session
\* (agent_never_started, forget_unresumable_threads).
ConversationKept ==
    [][\A t \in Thread :
          bound[t] \in history /\ bound'[t] # bound[t] => Delete(t) \/ Corrupt]_vars

\* A window of a thread's live agent is closed
Ends(t) == bound[t] \in Sid /\ Live(bound[t]) /\ win'[bound[t]].n < win[bound[t]].n

\* Tidying up never ends an agent whose thread waits for its answer or has a
\* tool to permit (evict_idle_worker, reap_stray_windows). A question or another
\* dialog does not spare it: dialog_pending is not looked at.
TidyingSpares == [][\A t \in Thread : (t \in owed \/ Permitting(t)) /\ Ends(t) => ~Tidy]_vars

\* Both: what no step may take from a thread.
KeptAndSpared == ConversationKept /\ TidyingSpares

\* Where agents never come up, the Bridge stops starting them: in the end
\* every wanted folder has its agent or was given up
\* (give_up_stale_pools, gave_up).
PoolSettles ==
    \A c \in Cwd \ Missing :
       <>[](~owner \/ c \notin targets \/ mem.pool[c] # None \/ c \in mem.gaveUp)

\* A window nobody owns does not stay (reap_stray_windows), unless nobody
\* owns anything.
StraysGo ==
    \A s \in Sid : HasWindow(s) /\ s \notin Owned ~> ~HasWindow(s) \/ s \in Owned \/ Owned = {}

\* An agent silent beyond the absolute limit is ended, or something wants it
\* again (select_cleanup_keys).
ColdGo ==
    \A t \in Thread : t \in Snaps /\ IdleOf(t) = 2 ~> t \notin Snaps \/ IdleOf(t) < 2 \/ ~Eligible(t)

\* Agents are counted right: the pool, the threads and the windows never
\* disagree about whose an agent is and how often it runs.
OwnedOnce == TypeOK /\ OneOwner /\ PoolAgentAlone

\* Nothing is kept running for nobody, and nothing is started for ever.
TidiesUp == PoolSettles /\ StraysGo /\ ColdGo
=============================================================================
