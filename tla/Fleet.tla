------------------------------- MODULE Fleet --------------------------------
(***************************************************************************)
(* What the gateway does to its machines: an `update` rolled out over the  *)
(* fleet one machine at a time, the gateway itself first, and a machine    *)
(* given a new name.                                                       *)
(*                                                                         *)
(* The plan of an update lives in access.json and is carried on by a task  *)
(* that looks every two seconds (`drive_updates`), in whichever process    *)
(* the gateway has become.  Everything else here is in memory.  The tasks  *)
(* of the gateway run on several threads: only what one of them does       *)
(* inside `edit_access`, or holding a lock, is one step.                   *)
(*                                                                         *)
(* A machine is a box; the name it is called by can change.                *)
(***************************************************************************)
EXTENDS Naturals, Sequences, FiniteSets

CONSTANTS
    Box,       \* the physical machines; a box's first name is itself
    Me,        \* the box the gateway runs on
    Fresh,     \* names no box has yet
    Rank,      \* where a name comes in a plan: the gateway first, then by name
    Version,   \* what a binary says it is (its build, or its version)
    Target,    \* what an update may go to
    Old,       \* boxes too old to say what they run
    Strangers, \* boxes that have never been linked
    None,      \* no plan, no rename, no box, nothing said
    MaxUpdates, MaxRenames, MaxFaults,  \* bounds
    Faults     \* which faults this instance makes

Name == Box \cup Fresh
StepStates == {"pending", "updating", "done", "failed", "offline", "tooOld"}
Plan == [target : Version, local : BOOLEAN,
         steps : UNION {[ids -> StepStates] : ids \in SUBSET Name}]
AllFaults == {"cut", "boxdown", "gatewaydown", "refuse", "slow"}

ASSUME NameAssumption ==
    /\ Me \in Box \ Old
    /\ None \notin Name \cup Version
    /\ None \notin Plan \cup [from : Name, to : Name]
    /\ Target \subseteq Version
    /\ Box \cap Fresh = {}
    /\ Rank \in [Name -> Nat]
    /\ \A n, m \in Name : n # m => Rank[n] # Rank[m]
    /\ \A n \in Name : Rank[Me] <= Rank[n]
ASSUME FleetBoundAssumption ==
    {MaxUpdates, MaxRenames, MaxFaults} \subseteq Nat

VARIABLES
  \* access.json
    plan,     \* the update under way: what it goes to and how far each machine is
    said,     \* what each known name last said it runs (None: no row, no word)
    known,    \* the names with a row
    route,    \* the name that serves the channel
  \* files/ of the gateway
    builds,   \* the builds uploaded for an `update local`
    aged,     \* those that have lain there for an hour
  \* threads.json
    row,      \* the name that serves the thread
  \* the gateway's memory
    thread,   \* thread_routes: the same, as the running gateway has it
    notes,    \* RouteNotes on their way to threads.json
    grown,    \* thirty seconds have passed since it started
    overdue,  \* five minutes have passed since the machine on its way was told
    linked,   \* the box whose link is registered under a name
    drafts,   \* begin_rollout tasks that have looked and not yet written
    drive,    \* drive_updates: where its tick is, with the copy it works on
    renaming, \* the rename told to a machine
    asking,   \* rename_machine, while it holds the lock of `renaming`
    undo,     \* rename_failed's rename_records, which runs without the lock
  \* the boxes
    runs,     \* the binary it runs
    disk,     \* the binary a restart would run
    called,   \* the name it goes by
    dotenv,   \* the name a restart would go by
    jobs,     \* downloads under way
    down,     \* frames on the way to it
    up,       \* frames on the way from it
  \* bounds
    updates, renames, faults

accessVars == <<plan, said, known, route>>
fileVars == <<builds, aged>>
driverVars == <<drafts, drive, overdue>>
renameVars == <<row, thread, notes, renaming, asking, undo>>
boxVars == <<runs, disk, called, dotenv, jobs>>
netVars == <<linked, down, up>>
boundVars == <<updates, renames, faults>>
vars == <<accessVars, fileVars, driverVars, renameVars, boxVars, netVars, grown, boundVars>>

Rest == [at |-> "rest"]

Update(v, local) == [kind |-> "update", version |-> v, local |-> local]
Rename(to) == [kind |-> "rename", to |-> to]
Says(v) == [kind |-> "version", version |-> v]
UpdateFailed == [kind |-> "updateFailed"]
RenameFailed == [kind |-> "renameFailed"]

Connected == {n \in Name \ {Me} : linked[n] # None}
Up(b) == linked[called[b]] = b
Open(state) == state \in {"pending", "updating"}

Init ==
    /\ runs \in [Box -> Version]
    /\ plan = None
    /\ known = Box \ ({Me} \cup Strangers)
    /\ said = [n \in Name |-> IF n \in known \ Old THEN runs[n] ELSE None]
    /\ route \in Box
    /\ row = route
    /\ thread = route
    /\ notes = <<>>
    /\ builds = {} /\ aged = {}
    /\ grown = FALSE
    /\ overdue = FALSE
    /\ linked = [n \in Name |-> IF n = Me THEN Me ELSE None]
    /\ drafts = {}
    /\ drive = Rest
    /\ renaming = None
    /\ asking = Rest
    /\ undo = {}
    /\ disk = runs
    /\ called = [b \in Box |-> b]
    /\ dotenv = called
    /\ jobs = [b \in Box |-> {}]
    /\ down = [b \in Box |-> <<>>]
    /\ up = [b \in Box |-> <<>>]
    /\ updates = 0 /\ renames = 0 /\ faults = 0

-----------------------------------------------------------------------------
\* Frames

(* Fleet::send_frame: into the link registered under the name, the         *)
(* gateway's own queue for itself.  FALSE when nobody is registered.       *)
Reachable(n) == linked[n] # None
Send(n, frame) == down' = [down EXCEPT ![linked[n]] = Append(@, frame)]

(* A machine's frame reaches the gateway only while its link is up; the    *)
(* gateway's own go through memory.                                        *)
Answer(b, frames) ==
    up' = IF Up(b) THEN [up EXCEPT ![b] = @ \o frames] ELSE up

-----------------------------------------------------------------------------
\* The plan (Rollout, RolloutStep)


(* What is known of a machine: whether it is there, and what it runs.      *)
Here(id) == id = Me \/ linked[id] # None
Runs(id) == IF id = Me THEN runs[Me] ELSE said[id]

Verdict_Back(p, id, late) ==  \* mutant: a machine that is back counts as done
    LET state == p.steps[id] IN
    CASE Here(id) /\ (Runs(id) = p.target \/ state = "updating") -> "done"
      [] state = "pending" /\ ~Here(id) -> "offline"
      [] state = "pending" /\ Here(id) /\ Runs(id) = None -> "tooOld"
      [] state = "updating" /\ late /\ ~Here(id) -> "failed"
      [] OTHER -> state

Verdict_NoTimeout(p, id, late) ==  \* mutant: a machine on its way has no deadline
    LET state == p.steps[id] IN
    CASE Here(id) /\ Runs(id) = p.target -> "done"
      [] state = "pending" /\ ~Here(id) -> "offline"
      [] state = "pending" /\ Here(id) /\ Runs(id) = None -> "tooOld"
      [] OTHER -> state

(* Where an open step ends, or its own state when it stays open.           *)
Verdict(p, id, late) ==
    LET state == p.steps[id]
        there == Here(id) /\ Runs(id) = p.target
    IN CASE there -> "done"
         [] ~there /\ state = "pending" /\ ~Here(id) -> "offline"
         [] ~there /\ state = "pending" /\ Here(id) /\ Runs(id) = None -> "tooOld"
         [] ~there /\ state = "updating" /\ late -> "failed"
         [] OTHER -> state

Stops_Pending(p, late) ==  \* mutant: the machine on its way is passed over
    {id \in DOMAIN p.steps : p.steps[id] = "pending" /\ Verdict(p, id, late) = "pending"}

(* The steps that stay open; the first of them, where the plan stops.      *)
Stops(p, late) ==
    {id \in DOMAIN p.steps : Open(p.steps[id]) /\ Verdict(p, id, late) = p.steps[id]}
First(ids) == {id \in ids : \A other \in ids : Rank[id] <= Rank[other]}

(* Rollout::advance: the plan moved on, the machine to tell (None: nobody) *)
(* and whether every machine has ended.                                    *)
Advance(p, late) ==
    LET stop == Stops(p, late)
        next == {id \in First(stop) : p.steps[id] = "pending"}
        passed == {id \in DOMAIN p.steps : \A other \in stop : Rank[id] < Rank[other]}
    IN [plan |-> [p EXCEPT !.steps = [id \in DOMAIN p.steps |->
                    IF id \in next THEN "updating"
                    ELSE IF id \in passed /\ Open(p.steps[id]) THEN Verdict(p, id, late)
                    ELSE p.steps[id]]],
        tell |-> IF next = {} THEN None ELSE CHOOSE id \in next : TRUE,
        finished |-> stop = {}]

(* Rollout::failed: only the machine on its way can fail.                  *)
Failed(p, id) ==
    IF p = None THEN None
    ELSE [p EXCEPT !.steps = [n \in DOMAIN p.steps |->
              IF n = id /\ p.steps[n] = "updating" THEN "failed" ELSE p.steps[n]]]


(* begin_rollout looks: the gateway, then every name known or connected.   *)
(* It then waits for Slack to take the progress message.  The builds of an *)
(* `update local` have just been uploaded.                                 *)
BeginRollout(v, local) ==
    LET ids == {Me} \cup known \cup Connected
    IN /\ updates < MaxUpdates
       /\ plan = None
       /\ updates' = updates + 1
       /\ drafts' = drafts \cup
              {[target |-> v, local |-> local, steps |-> [id \in ids |-> "pending"]]}
       /\ builds' = IF local THEN builds \cup {v} ELSE builds
       /\ aged' = IF local THEN aged \ {v} ELSE aged
       /\ UNCHANGED <<accessVars, drive, overdue, renameVars, boxVars, netVars, grown,
                      renames, faults>>

(* ... and writes it, whatever is there by now.                            *)
WriteRollout(p) ==
    /\ p \in drafts
    /\ plan' = p
    /\ drafts' = drafts \ {p}
    /\ UNCHANGED <<said, known, route, fileVars, drive, overdue, renameVars, boxVars, netVars, grown,
                   boundVars>>

(* drive_updates, every two seconds: reads the plan and works on the copy. *)
(* A gateway that has just started waits for its machines to come back.    *)
Tick ==
    LET missing == \E id \in DOMAIN plan.steps : Open(plan.steps[id]) /\ ~Here(id)
        next == Advance(plan, overdue)
    IN /\ drive = Rest
       /\ plan # None
       /\ missing => grown
       /\ next.plan # plan \/ next.finished
       /\ drive' = [at |-> "write", plan |-> next.plan, tell |-> next.tell,
                    finished |-> next.finished]
       /\ overdue' = IF next.tell # None THEN FALSE ELSE overdue
       /\ UNCHANGED <<accessVars, fileVars, drafts, renameVars, boxVars, netVars, grown, boundVars>>


(* Store::remove, for the builds of a plan that is through.                *)
Discard(gone) == builds' = builds \ gone /\ aged' = aged \ gone

(* Written down before the machine is told; a plan that is through goes.   *)
DriveWrite ==
    /\ drive.at = "write"
    /\ plan' = IF drive.finished THEN None ELSE drive.plan
    /\ drive' = IF drive.tell # None THEN [drive EXCEPT !.at = "tell"] ELSE Rest
    /\ IF drive.finished THEN Discard({drive.plan.target}) ELSE UNCHANGED fileVars
    /\ UNCHANGED <<said, known, route, drafts, overdue, renameVars, boxVars, netVars, grown,
                   boundVars>>

(* The machine is told: to fetch the release, or the build held for it.    *)
DriveTell ==
    /\ drive.at = "tell"
    /\ drive' = Rest
    /\ \/ /\ Reachable(drive.tell)
          /\ drive.plan.local => drive.plan.target \in builds
          /\ Send(drive.tell, Update(drive.plan.target, drive.plan.local))
          /\ plan' = plan
       \/ /\ ~Reachable(drive.tell) \/ drive.plan.local     \* no build for its kind
          /\ plan' = Failed(drive.plan, drive.tell)
          /\ down' = down
    /\ UNCHANGED <<said, known, route, fileVars, drafts, overdue, renameVars, boxVars, linked, up,
                   grown, boundVars>>

(* A build that was uploaded an hour ago.                                  *)
Age(v) ==
    /\ v \in builds \ aged
    /\ \A p \in drafts : p.target # v
    /\ aged' = aged \cup {v}
    /\ UNCHANGED <<accessVars, builds, driverVars, renameVars, boxVars, netVars, grown, boundVars>>

(* sweep_files, at the start and every ten minutes: what a rollout hands   *)
(* out is kept however old it is.                                          *)
Sweep ==
    LET kept == IF plan = None THEN {} ELSE {plan.target}
    IN /\ aged \ kept # {}
       /\ Discard(aged \ kept)
       /\ UNCHANGED <<accessVars, driverVars, renameVars, boxVars, netVars, grown, boundVars>>

HalfAMinute ==
    /\ ~grown
    /\ grown' = TRUE
    /\ UNCHANGED <<accessVars, fileVars, driverVars, renameVars, boxVars, netVars, boundVars>>

FiveMinutes ==
    /\ plan # None
    /\ \E id \in DOMAIN plan.steps : plan.steps[id] = "updating"
    /\ ~overdue
    /\ overdue' = TRUE
    /\ UNCHANGED <<accessVars, fileVars, drafts, drive, renameVars, boxVars, netVars, grown, boundVars>>

-----------------------------------------------------------------------------
\* A new name (rename_machine)


Named(n) == n \in known \cup {route, thread} \cup Connected

(* Fleet::may_rename.                                                      *)
MayRename(from, to) ==
    /\ from # Me /\ Named(from) /\ from \in Connected
    /\ to # Me /\ ~Named(to)
    /\ plan = None

(* Fleet::rename_records, in its two parts: access.json, and what the      *)
(* gateway remembers of threads (threads.json follows by a note).          *)
MoveRoute(from, to) ==
    /\ route' = IF route = from THEN to ELSE route
    /\ known' = IF from \in known THEN (known \ {from}) \cup {to} ELSE known
    /\ said' = IF from \in known THEN [said EXCEPT ![to] = said[from], ![from] = None] ELSE said

MoveThread_NoNote(from, to) ==  \* mutant: threads.json is not asked to follow
    /\ thread' = IF thread = from THEN to ELSE thread
    /\ notes' = notes

MoveThread(from, to) ==
    /\ thread' = IF thread = from THEN to ELSE thread
    /\ notes' = Append(notes, [from |-> from, to |-> to])

(* Fleet::rename_machine holds the lock of `renaming` from here on.        *)
RenameAsk(from, to) ==
    /\ renames < MaxRenames
    /\ asking = Rest
    /\ renaming = None
    /\ MayRename(from, to)
    /\ renames' = renames + 1
    /\ asking' = [at |-> "route", from |-> from, to |-> to, back |-> FALSE]
    /\ UNCHANGED <<accessVars, fileVars, driverVars, row, thread, notes, renaming, undo, boxVars, netVars,
                   grown, updates, faults>>

RenameRoute ==
    /\ asking.at = "route"
    /\ MoveRoute(asking.from, asking.to)
    /\ asking' = [asking EXCEPT !.at = "thread"]
    /\ UNCHANGED <<plan, fileVars, driverVars, row, thread, notes, renaming, undo, boxVars, netVars, grown,
                   boundVars>>

RenameThread ==
    /\ asking.at = "thread"
    /\ MoveThread(asking.from, asking.to)
    /\ asking' = IF asking.back THEN Rest ELSE [asking EXCEPT !.at = "tell"]
    /\ UNCHANGED <<accessVars, fileVars, driverVars, row, renaming, undo, boxVars, netVars, grown,
                   boundVars>>


RenameTell_NoWait ==  \* mutant: the rename is not remembered, so a refusal finds none
    /\ asking.at = "tell"
    /\ IF Reachable(asking.from)
       THEN /\ Send(asking.from, Rename(asking.to))
            /\ renaming' = None
            /\ asking' = Rest
       ELSE /\ asking' = [at |-> "route", from |-> asking.to, to |-> asking.from, back |-> TRUE]
            /\ UNCHANGED <<down, renaming>>
    /\ UNCHANGED <<accessVars, fileVars, driverVars, row, thread, notes, undo, boxVars, linked, up, grown,
                   boundVars>>
(* The machine is told; if it went offline just now everything goes back.  *)
RenameTell ==
    /\ asking.at = "tell"
    /\ IF Reachable(asking.from)
       THEN /\ Send(asking.from, Rename(asking.to))
            /\ renaming' = [from |-> asking.from, to |-> asking.to]
            /\ asking' = Rest
       ELSE /\ asking' = [at |-> "route", from |-> asking.to, to |-> asking.from, back |-> TRUE]
            /\ UNCHANGED <<down, renaming>>
    /\ UNCHANGED <<accessVars, fileVars, driverVars, row, thread, notes, undo, boxVars, linked, up, grown,
                   boundVars>>

(* The task that waits for the new name to connect.                        *)
RenameWaited ==
    /\ renaming # None
    /\ asking = Rest
    /\ linked[renaming.to] # None
    /\ renaming' = None
    /\ UNCHANGED <<accessVars, fileVars, driverVars, row, thread, notes, asking, undo, boxVars, netVars,
                   grown, boundVars>>

(* Fleet::rename_failed puts the records back, the lock already let go.    *)
UndoRoute(u) ==
    /\ u \in undo
    /\ u.at = "route"
    /\ MoveRoute(u.from, u.to)
    /\ undo' = (undo \ {u}) \cup {[u EXCEPT !.at = "thread"]}
    /\ UNCHANGED <<plan, fileVars, driverVars, row, thread, notes, renaming, asking, boxVars, netVars,
                   grown, boundVars>>

UndoThread(u) ==
    /\ u \in undo
    /\ u.at = "thread"
    /\ MoveThread(u.from, u.to)
    /\ undo' = undo \ {u}
    /\ UNCHANGED <<accessVars, fileVars, driverVars, row, renaming, asking, boxVars, netVars, grown,
                   boundVars>>

(* The Bridge's loop writes threads.json.                                  *)
TakeNote ==
    /\ notes # <<>>
    /\ notes' = Tail(notes)
    /\ row' = IF row = Head(notes).from THEN Head(notes).to ELSE row
    /\ UNCHANGED <<accessVars, fileVars, driverVars, thread, renaming, asking, undo, boxVars, netVars,
                   grown, boundVars>>

-----------------------------------------------------------------------------
\* Frames from a machine (on_machine_frame)

(* MachineVersion: what it runs is written in its row.                     *)
GatewayHears(b) ==
    /\ up[b] # <<>>
    /\ up' = [up EXCEPT ![b] = Tail(@)]
    /\ \/ /\ Head(up[b]).kind = "version"
          /\ said' = [said EXCEPT ![called[b]] = Head(up[b]).version]
          /\ known' = known \cup {called[b]}
          /\ UNCHANGED <<plan, renaming, undo>>
       \/ /\ Head(up[b]) = UpdateFailed
          /\ plan' = Failed(plan, called[b])
          /\ UNCHANGED <<said, known, renaming, undo>>
       \/ /\ Head(up[b]) = RenameFailed
          /\ asking = Rest
          /\ IF renaming # None /\ renaming.from = called[b]
             THEN /\ renaming' = None
                  /\ undo' = undo \cup
                         {[at |-> "route", from |-> renaming.to, to |-> renaming.from]}
             ELSE UNCHANGED <<renaming, undo>>
          /\ UNCHANGED <<plan, said, known>>
    /\ UNCHANGED <<route, fileVars, driverVars, row, thread, notes, asking, boxVars, linked, down, grown,
                   boundVars>>

-----------------------------------------------------------------------------
\* A machine

(* Update, FileReady: a download off the loop, unless it is there already. *)
(* Rename: the new name is written down, and the box restarts into it.     *)
BoxHears(b) ==
    /\ down[b] # <<>>
    /\ down' = [down EXCEPT ![b] = Tail(@)]
    /\ LET frame == Head(down[b]) IN
       \/ /\ frame.kind = "update" /\ frame.version = runs[b]
          /\ Answer(b, <<Says(runs[b])>>)
          /\ UNCHANGED <<jobs, dotenv>>
       \/ /\ frame.kind = "update" /\ frame.version # runs[b]
          /\ jobs' = [jobs EXCEPT ![b] = @ \cup {frame}]
          /\ UNCHANGED <<dotenv, up>>
       \/ /\ frame.kind = "rename"
          /\ dotenv' = [dotenv EXCEPT ![b] = frame.to]
          /\ UNCHANGED <<jobs, up>>
       \/ /\ frame.kind = "rename" /\ "refuse" \in Faults
          /\ Answer(b, <<RenameFailed>>)
          /\ UNCHANGED <<jobs, dotenv>>
    /\ UNCHANGED <<accessVars, fileVars, driverVars, renameVars, runs, disk, called, linked, grown,
                   boundVars>>

(* self_replace, take_build: everything that can fail comes before the     *)
(* rename that puts the new binary in place.                               *)
JobEnds(b, job) ==
    /\ job \in jobs[b]
    /\ jobs' = [jobs EXCEPT ![b] = @ \ {job}]
    /\ LET there == ~job.local \/ job.version \in builds IN
       \/ there /\ disk' = [disk EXCEPT ![b] = job.version] /\ up' = up
       \/ ("refuse" \in Faults \/ ~there) /\ Answer(b, <<UpdateFailed>>) /\ disk' = disk
    /\ UNCHANGED <<accessVars, fileVars, driverVars, renameVars, runs, called, dotenv, linked, down, grown,
                   boundVars>>

Reborn(b) ==
    /\ runs' = [runs EXCEPT ![b] = disk[b]]
    /\ called' = [called EXCEPT ![b] = dotenv[b]]
    /\ jobs' = [jobs EXCEPT ![b] = {}]
    /\ UNCHANGED <<disk, dotenv>>

Unlink(b) ==
    /\ linked' = [n \in Name |-> IF linked[n] = b THEN None ELSE linked[n]]
    /\ down' = [down EXCEPT ![b] = <<>>]
    /\ up' = [up EXCEPT ![b] = <<>>]

RestartBox(b) ==
    /\ b # Me
    /\ Reborn(b)
    /\ Unlink(b)
    /\ UNCHANGED <<accessVars, fileVars, driverVars, renameVars, grown>>

(* The gateway goes down: what is in memory is gone with every link.       *)
RestartGateway ==
    /\ Reborn(Me)
    /\ linked' = [n \in Name |-> IF n = Me THEN Me ELSE None]
    /\ down' = [b \in Box |-> <<>>]
    /\ up' = [b \in Box |-> <<>>]
    /\ drafts' = {} /\ drive' = Rest /\ grown' = FALSE
    /\ renaming' = None /\ asking' = Rest /\ undo' = {}
    /\ notes' = <<>> /\ thread' = row
    /\ UNCHANGED <<accessVars, fileVars, row, overdue>>

Changed(b) == disk[b] # runs[b] \/ dotenv[b] # called[b]
Restart(b) == Changed(b) /\ (RestartBox(b) \/ (b = Me /\ RestartGateway)) /\ UNCHANGED boundVars

(* A machine dials under its name: it is known from now on, and the first  *)
(* thing it says is what it runs.                                          *)
Dial(b) ==
    /\ b # Me
    /\ ~Up(b)
    /\ linked' = [linked EXCEPT ![called[b]] = b]
    /\ down' = [x \in Box |-> IF x = linked[called[b]] THEN <<>> ELSE down[x]]
    /\ up' = [x \in Box |-> IF x = b THEN (IF b \in Old THEN <<>> ELSE <<Says(runs[b])>>)
                            ELSE IF x = linked[called[b]] THEN <<>> ELSE up[x]]
    /\ known' = known \cup {called[b]}
    /\ UNCHANGED <<plan, said, route, fileVars, driverVars, renameVars, boxVars, grown, boundVars>>

-----------------------------------------------------------------------------
\* Faults

Fault(kind) == kind \in Faults /\ faults < MaxFaults /\ faults' = faults + 1
               /\ UNCHANGED <<updates, renames>>

Cut(b) ==
    /\ Fault("cut")
    /\ b # Me /\ Up(b)
    /\ Unlink(b)
    /\ UNCHANGED <<accessVars, fileVars, driverVars, renameVars, boxVars, grown>>

(* wait_for gives up after a minute: the box is slower than that to answer *)
(* or to come back, or it was never told.                                  *)
RenameTimesOut ==
    /\ Fault("slow")
    /\ renaming # None
    /\ asking = Rest
    /\ renaming' = None
    /\ UNCHANGED <<accessVars, fileVars, driverVars, row, thread, notes, asking, undo, boxVars, netVars,
                   grown>>

BoxDown(b) == Fault("boxdown") /\ RestartBox(b)
GatewayDown == Fault("gatewaydown") /\ RestartGateway

-----------------------------------------------------------------------------

Driver == Tick \/ DriveWrite \/ DriveTell
Clock == HalfAMinute \/ FiveMinutes
Renamer == RenameRoute \/ RenameThread \/ RenameTell \/ RenameWaited
Undoing == \E u \in undo : UndoRoute(u) \/ UndoThread(u)
Machine(b) == BoxHears(b) \/ GatewayHears(b) \/ Restart(b) \/ Dial(b)
              \/ \E job \in jobs[b] : JobEnds(b, job)

Next ==
    \/ \E v \in Target, local \in BOOLEAN : BeginRollout(v, local)
    \/ \E p \in drafts : WriteRollout(p)
    \/ Driver \/ Clock \/ Sweep \/ (\E v \in builds : Age(v))
    \/ \E from, to \in Name : RenameAsk(from, to)
    \/ Renamer \/ Undoing \/ TakeNote
    \/ \E b \in Box : Machine(b)
    \/ \E b \in Box : Cut(b) \/ BoxDown(b)
    \/ GatewayDown \/ RenameTimesOut

Spec == Init /\ [][Next]_vars

(* Every task of the gateway and of a machine goes on; the clock runs.     *)
Fairness ==
    /\ WF_vars(\E p \in drafts : WriteRollout(p))
    /\ WF_vars(Driver)
    /\ WF_vars(HalfAMinute) /\ WF_vars(FiveMinutes)
    /\ WF_vars(Renamer) /\ WF_vars(Undoing) /\ WF_vars(TakeNote)
    /\ \A b \in Box : /\ WF_vars(BoxHears(b)) /\ WF_vars(GatewayHears(b))
                      /\ WF_vars(Restart(b)) /\ WF_vars(Dial(b))
                      /\ WF_vars(\E job \in jobs[b] : JobEnds(b, job))
FairSpec == Spec /\ Fairness
-----------------------------------------------------------------------------
\* Properties

TypeOK ==
    /\ plan = None \/ plan \in Plan
    /\ known \subseteq Name
    /\ said \in [Name -> Version \cup {None}]
    /\ {route, row, thread} \subseteq Name
    /\ {grown, overdue} \subseteq BOOLEAN
    /\ linked \in [Name -> Box \cup {None}]
    /\ drafts \subseteq Plan
    /\ drive.at \in {"rest", "write", "tell"}
    /\ drive # Rest => drive.plan \in Plan /\ drive.tell \in Name \cup {None}
    /\ renaming = None \/ renaming \in [from : Name, to : Name]
    /\ asking.at \in {"rest", "route", "thread", "tell"}
    /\ undo \subseteq [at : {"route", "thread"}, from : Name, to : Name]
    /\ {runs, disk} \subseteq [Box -> Version]
    /\ {called, dotenv} \subseteq [Box -> Name]
    /\ jobs \in [Box -> SUBSET [kind : {"update"}, version : Version, local : BOOLEAN]]
    /\ aged \subseteq builds /\ builds \subseteq Version

Stands(id, state) == plan # None /\ id \in DOMAIN plan.steps /\ plan.steps[id] = state
Told(b) == \E v \in Version, l \in BOOLEAN : down'[b] = Append(down[b], Update(v, l))
OnItsWay(b) ==
    \/ jobs[b] # {}
    \/ disk[b] # runs[b]
    \/ \E i \in DOMAIN down[b] : down[b][i].kind = "update"

(* Machines go one at a time: when one is told to update, every other that *)
(* was told and is still fetching, replacing or restarting has been given  *)
(* up after its five minutes.                                              *)
OneAtATime ==
    [][\A b \in Box : Told(b) =>
          \A o \in Box \ {b} : OnItsWay(o) => Stands(called[o], "failed")]_vars

(* A machine is told once in a rollout, whatever process the gateway is by *)
(* then: it is told only when access.json already says it was, and a plan  *)
(* never takes a machine back to where it has not been told.               *)
ToldOnce ==
    [][/\ \A b \in Box : Told(b) => Stands(called[b], "updating")
       /\ plan # None /\ plan' # None =>
              \A id \in DOMAIN plan.steps :
                  \/ plan'.steps[id] = plan.steps[id]
                  \/ plan.steps[id] = "pending"
                  \/ plan.steps[id] = "updating" /\ ~Open(plan'.steps[id])]_vars

(* A machine the rollout calls done has the new binary, over any breakdown.*)
DoneIsThere ==
    \A b \in Box : Stands(called[b], "done") => disk[b] = plan.target

(* However it is interrupted, a rollout goes over the machines one by one, *)
(* each of them once.                                                      *)
GoesOneByOne == OneAtATime /\ ToldOnce

(* The builds an `update local` hands out stay at the gateway until every  *)
(* machine has ended, however long that takes and however often the        *)
(* gateway starts again and sweeps.                                        *)
BuildsKept == plan # None /\ plan.local => plan.target \in builds

(* What a rollout says of a machine is true, and what it still has to hand *)
(* out is there.                                                           *)
RolloutIsTrue == TypeOK /\ DoneIsThere /\ BuildsKept

(* A rollout ends: no answer that is lost and no restart of the gateway in *)
(* the middle of it leaves `update` refused for ever.                      *)
RolloutEnds == plan # None ~> plan = None

Quiet == asking = Rest /\ undo = {} /\ notes = <<>>

(* A channel and a thread of one machine are renamed together, and put     *)
(* back together.                                                          *)
RecordsTogether == Quiet => route = thread /\ thread = row

(* Two machines never go by one name.                                      *)
NoNameTwice ==
    \A b, o \in Box : b # o => called[b] # called[o] /\ dotenv[b] # dotenv[o]

(* A rename, refused half way or not, leaves every record under one name,  *)
(* and no machine under another's.                                         *)
OneName == TypeOK /\ RecordsTogether /\ NoNameTwice

(* After a rename, taken or refused, the channel is served by a machine    *)
(* that is there under the name on record, unless something breaks down.   *)
ServedAgain ==
    asking.at = "tell" ~> (\E b \in Box : called[b] = route /\ Up(b)) \/ faults > 0
=============================================================================
