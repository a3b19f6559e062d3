------------------------------ MODULE Settings ------------------------------
(***************************************************************************)
(* access.json on a gateway's machine, and everybody who rewrites it: the  *)
(* Bridge's loop from the copy it holds, the gateway's tasks under one     *)
(* lock, the Bridge's link pump, and a command line in a process of its    *)
(* own (bridge.rs, gateway.rs, state.rs, state_dir.rs, add_machine.rs).    *)
(*                                                                         *)
(* A save reads the file and lays its own keys over it, a patch replaces   *)
(* one key; the write itself is a rename, so nobody reads half a file.     *)
(* The value of a key is the number of the change that set it; 0 is unset. *)
(***************************************************************************)
EXTENDS Naturals

CONSTANTS
    Keys,        \* keys that hold settings
    Skipped,     \* those a save leaves out when they are unset
    Editors,     \* tasks of the gateway
    Nobody,
    MaxChanges,  \* bound on changes
    MaxFails     \* bound on writes that fail

\* The Bridge's own key is none of these, and its tasks are not the gateway's
Apart ==
    /\ Skipped \subseteq Keys /\ "pools" \notin Keys
    /\ Nobody \notin Editors /\ Editors \cap {"loop", "pump", "cli"} = {}

VARIABLES
    file,        \* access.json
    mem,         \* Bridge.access
    latest,      \* the last change of each key that was written
    task,        \* who is in the middle of a rewrite
    lock,        \* EDITING
    reload,      \* a note to the loop to reread the file
    changes,     \* changes, failed writes
    behind,      \* the loop knows of a change no note will tell it of, or the reverse
    overlap      \* two rewrites crossed that nothing keeps apart

settingsVars == <<file, mem, latest, task, lock, reload, changes, behind, overlap>>

Pools == "pools"   \* the Bridge's own key: endpoints and pools
Task == {"loop", "pump", "cli"} \cup Editors
Value == 0 .. MaxChanges
Settled(v) == [k \in Keys |-> v]
NoRewrite == [pc |-> "idle", key |-> Pools, val |-> 0, patch |-> FALSE, here |-> FALSE,
         copy |-> Settled(0), root |-> [k \in Keys \cup {Pools} |-> 0]]

SettingsTypeOK ==
    /\ file \in [Keys \cup {Pools} -> Value] /\ latest \in [Keys \cup {Pools} -> Value]
    /\ mem \in [Keys -> Value]
    /\ \A t \in Task : task[t].pc \in {"idle", "waiting", "loaded", "read"}
    /\ lock \in Editors \cup {Nobody}
    /\ reload \in BOOLEAN /\ behind \in BOOLEAN /\ overlap \in BOOLEAN

SettingsInit ==
    /\ file = [k \in Keys \cup {Pools} |-> 0] /\ mem = Settled(0)
    /\ latest = [k \in Keys \cup {Pools} |-> 0]
    /\ task = [t \in Task |-> NoRewrite] /\ lock = Nobody /\ reload = FALSE
    /\ changes = [changes |-> 0, fails |-> 0] /\ behind = FALSE /\ overlap = FALSE

OnDisk == [k \in Keys |-> file[k]]
Quiet(t) == task[t].pc = "idle"
Changes == changes.changes < MaxChanges /\ changes' = [changes EXCEPT !.changes = @ + 1]
Fresh == changes.changes + 1

\* Load, change one key, about to save the whole
Loads(t, from, k, v) ==
    task' = [task EXCEPT ![t] = [NoRewrite EXCEPT !.pc = "loaded", !.key = k, !.val = v, !.copy = [from EXCEPT ![k] = v]]]
Patches(t, k, v) ==
    task' = [task EXCEPT ![t] = [NoRewrite EXCEPT !.pc = "loaded", !.key = k, !.val = v, !.patch = TRUE]]

\* adopt_access, grant_tool: the loop saves the copy it holds.  If that copy is
\* older than the file - a note to reread is still on its way - it puts the
\* older settings back
OwnerCommand ==
    /\ Changes /\ Quiet("loop")
    /\ \E k \in Keys : Loads("loop", mem, k, Fresh)
    /\ overlap' = (overlap \/ mem # OnDisk)
    /\ UNCHANGED <<file, mem, latest, lock, reload, behind>>

\* Pools::save, put_endpoint
SavePools ==
    /\ Changes /\ Quiet("loop") /\ Patches("loop", Pools, Fresh)
    /\ UNCHANGED <<file, mem, latest, lock, reload, behind, overlap>>

\* The link's pump: the home, the owner or a folder, as the gateway says
PumpChanges ==
    /\ Changes /\ Quiet("pump")
    /\ \E k \in Keys \ Skipped : Loads("pump", OnDisk, k, Fresh)
    /\ UNCHANGED <<file, mem, latest, lock, reload, behind, overlap>>

\* remember_link, and restore_link when no route worked: a save leaves an unset
\* key out, so taking back the first machine's record leaves it where it is
CliChanges ==
    /\ Changes /\ Quiet("cli")
    /\ \E k \in Skipped, v \in {0, Fresh} :
          /\ Loads("cli", OnDisk, k, v)
          /\ overlap' = (overlap \/ (v = 0 /\ file[k] # 0))
    /\ UNCHANGED <<file, mem, latest, lock, reload, behind>>

\* mutant: the tasks of the links do not wait for each other
Locked_Not(e) == UNCHANGED lock

Locked(e) == lock = Nobody /\ lock' = e

\* edit_access: read, change and write under one lock
EditAccess(e) ==
    /\ Changes /\ Quiet(e) /\ Locked(e)
    /\ \E k \in Keys : Loads(e, OnDisk, k, Fresh)
    /\ UNCHANGED <<file, mem, latest, reload, behind, overlap>>

ClearKey(e, k) == Patches(e, k, 0)

\* end_update: one key, set to nothing
EndUpdate(e) ==
    /\ Changes /\ Quiet(e) /\ Locked(e)
    /\ \E k \in Skipped : ClearKey(e, k)
    /\ UNCHANGED <<file, mem, latest, reload, behind, overlap>>

\* set_project_here: read before the lock, and laid over whatever is there then
SetProjectHere(e) ==
    /\ Changes /\ Quiet(e)
    /\ \E k \in Keys \ Skipped :
          task' = [task EXCEPT ![e] = [NoRewrite EXCEPT !.pc = "waiting", !.key = k, !.val = Fresh, !.here = TRUE,
                                                   !.copy = [OnDisk EXCEPT ![k] = Fresh]]]
    /\ UNCHANGED <<file, mem, latest, lock, reload, behind, overlap>>

TakesLock(e) ==
    /\ task[e].pc = "waiting" /\ Locked(e) /\ task' = [task EXCEPT ![e].pc = "loaded"]
    /\ UNCHANGED <<file, mem, latest, reload, changes, behind, overlap>>

-----------------------------------------------------------------------------
\* A save and a patch both begin with what is in the file now
Read(t) ==
    /\ task[t].pc = "loaded"
    /\ task' = [task EXCEPT ![t].pc = "read", ![t].root = file]
    /\ UNCHANGED <<file, mem, latest, lock, reload, changes, behind, overlap>>

\* Access::save: the keys of others stay as they are in the file
Laid(x, k) == IF k = Pools \/ (k \in Skipped /\ x.copy[k] = 0) THEN x.root[k] ELSE x.copy[k]

Written(x) ==
    IF x.patch THEN [x.root EXCEPT ![x.key] = x.val]
               ELSE [k \in Keys \cup {Pools} |-> Laid(x, k)]

\* What another rewrite holds is older than what is written now.  The lock is
\* there to keep the gateway's own tasks from this
Crosses(t) ==
    \E u \in Task \ {t} :
        /\ task[u].pc = "read" \/ (task[u].pc \in {"waiting", "loaded"} /\ ~task[u].patch /\ task[t].key # Pools)
        /\ {t, u} \subseteq Editors => task[u].here

Adopts(t) == mem' = IF t = "loop" /\ ~task[t].patch THEN task[t].copy ELSE mem
Unlocks(t) == lock' = IF lock = t THEN Nobody ELSE lock

Tells(t) == reload \/ t \notin {"loop", "cli"}

\* The rename.  The loop uses what it wrote, the command line restarts the
\* Bridge, the others send it a note
Write(t) ==
    /\ task[t].pc = "read"
    /\ file' = Written(task[t]) /\ latest' = [latest EXCEPT ![task[t].key] = task[t].val]
    /\ overlap' = (overlap \/ Crosses(t))
    /\ Adopts(t) /\ Unlocks(t) /\ reload' = Tells(t) /\ behind' = (behind \/ t = "cli")
    /\ task' = [task EXCEPT ![t] = NoRewrite]
    /\ UNCHANGED changes

\* A write that fails is reported; the loop goes by what it would have written
WriteFails(t) ==
    /\ task[t].pc = "read" /\ changes.fails < MaxFails /\ changes' = [changes EXCEPT !.fails = @ + 1]
    /\ Adopts(t) /\ Unlocks(t) /\ behind' = (behind \/ (t = "loop" /\ ~task[t].patch))
    /\ task' = [task EXCEPT ![t] = NoRewrite]
    /\ UNCHANGED <<file, latest, reload, overlap>>

\* reload_from_disk, on a note or a SIGHUP: reads only
Reload ==
    /\ reload /\ Quiet("loop") /\ mem' = OnDisk /\ reload' = FALSE
    /\ UNCHANGED <<file, latest, task, lock, changes, behind, overlap>>

\* The Bridge and its gateway are one process; the command line is not
SettingsRestart ==
    /\ mem' = OnDisk /\ task' = [t \in Task |-> IF t = "cli" THEN task[t] ELSE NoRewrite]
    /\ lock' = Nobody /\ reload' = FALSE /\ behind' = FALSE
    /\ UNCHANGED <<file, latest, changes, overlap>>

Edit(e) == EditAccess(e) \/ EndUpdate(e) \/ SetProjectHere(e) \/ TakesLock(e)
SettingsNext ==
    \/ OwnerCommand \/ SavePools \/ PumpChanges \/ CliChanges \/ Reload \/ SettingsRestart
    \/ \E e \in Editors : Edit(e)
    \/ \E t \in Task : Read(t) \/ Write(t) \/ WriteFails(t)

SettingsSpec == SettingsInit /\ [][SettingsNext]_settingsVars

\* A setting that was written stays what it was set to until somebody sets it
\* again, unless two rewrites crossed that neither the lock nor the Bridge's own
\* keys keep apart. (Access::save, edit_access, end_update, patch_json)
SettingsKept == ~overlap => file = latest

\* Once every note is read the Bridge goes by what the file says, whoever wrote
\* last and whatever crossed. (edit_access, reload_from_disk, adopt_access)
LoopGoesByTheFile ==
    ~reload /\ Quiet("loop") /\ ~behind => mem = OnDisk

SettingsHold == SettingsKept /\ LoopGoesByTheFile
=============================================================================
