------------------------------- MODULE Usage --------------------------------
(***************************************************************************)
(* How much of the account's usage is gone, and whether requests are taken *)
(* (turn.rs, command.rs).  The tick asks the agent's command line beside   *)
(* the loop; the answer warns the threads as thresholds are crossed and    *)
(* closes the gate when a window is used up.  A turn that fails on the     *)
(* limit closes the gate by itself.                                        *)
(*                                                                         *)
(* Usage is a level of the current five-hour window; the weekly wall is    *)
(* one that outlasts every window of an instance.  The gate is the window  *)
(* in which requests are taken again.  There is an owner: without one      *)
(* nothing is asked.                                                       *)
(***************************************************************************)
EXTENDS Naturals, FiniteSets, FiniteSetsExt

CONSTANTS
    MaxWindow,  \* bound on the windows
    MaxProbes,  \* bound on the answers asked for
    MaxFailures \* bound on answers that fail, and on restarts

\* The bounds are numbers, and there is a window
Bounds == MaxWindow \in Nat \ {0} /\ MaxProbes \in Nat /\ MaxFailures \in Nat

VARIABLES
    window, used, week,  \* the account: the window, its level, the weekly wall
    polled,              \* usage_polled_at_ms: see Poll
    probes,              \* answers on their way
    warned,              \* usage_warned_pct
    gate,                \* limited_until_ms
    warnings,            \* how often the threads were warned of a window's level
    asked, answered,     \* probes asked for, and the one answered last
    failures,            \* answers that failed, and restarts
    disturbed            \* how often an answer came after a newer one, or the Bridge was restarted

account == <<window, used, week>>
usageVars == <<account, polled, probes, warned, gate, warnings, asked, answered, failures, disturbed>>

Window == 1 .. MaxWindow
Level == 0 .. 3        \* below 80%, from 80%, from 90%, at the limit
Warn == {1, 2}         \* WARN_THRESHOLDS
Limit == 3
Never == 0             \* limited_until_ms at the start
AfterWeek == MaxWindow + 1
Poll == {"never", "fresh", "due"}

UsageTypeOK ==
    /\ window \in Window /\ used \in Level /\ week \in BOOLEAN
    /\ polled \in Poll
    /\ \A r \in probes : r.no \in 1 .. asked /\ r.window <= window
    /\ warned \in {0} \cup Warn /\ gate \in {Never} \cup (2 .. AfterWeek)
    /\ warnings \in [Window \X Warn -> 0 .. MaxProbes]
    /\ asked \in 0 .. MaxProbes /\ answered \in 0 .. asked
    /\ failures \in 0 .. MaxFailures /\ disturbed \in Nat
    /\ polled = "never" => probes = {}

UsageInit ==
    /\ window = 1 /\ used = 0 /\ week = FALSE
    /\ polled = "never" /\ probes = {} /\ warned = 0 /\ gate = Never
    /\ warnings = [x \in Window \X Warn |-> 0]
    /\ asked = 0 /\ answered = 0
    /\ failures = 0 /\ disturbed = 0

-----------------------------------------------------------------------------
(* The account                                                             *)

Use ==
    /\ used < Limit /\ used' = used + 1
    /\ week' \in {week} \cup (IF used' = Limit THEN {TRUE} ELSE {})
    /\ UNCHANGED <<window, polled, probes, warned, gate, warnings, asked, answered, failures, disturbed>>

\* The windows in which the walls that are up come down
Walls == (IF used = Limit THEN {window + 1} ELSE {}) \cup (IF week THEN {AfterWeek} ELSE {})

NewWindow ==
    /\ window < MaxWindow /\ window' = window + 1 /\ used' = 0
    /\ UNCHANGED <<week, polled, probes, warned, gate, warnings, asked, answered, failures, disturbed>>

-----------------------------------------------------------------------------
(* Asking                                                                  *)

\* The next poll is due: after an hour, sooner near the limit
TimePasses ==
    /\ polled = "fresh" /\ polled' = "due"
    /\ UNCHANGED <<account, probes, warned, gate, warnings, asked, answered, failures, disturbed>>

\* A start screen that reads like the limit makes a poll due at once
\* (SpawnOutcome::UsageLimited)
UsageSuspected ==
    /\ Walls # {} /\ polled # "due" /\ polled' = "due"
    /\ UNCHANGED <<account, probes, warned, gate, warnings, asked, answered, failures, disturbed>>

\* usage_kick: not right after the start; the question is asked off the loop
UsageKick ==
    /\ \/ polled = "never" /\ UNCHANGED <<probes, asked>>
       \/ /\ polled = "due" /\ asked < MaxProbes /\ asked' = asked + 1
          /\ probes' = probes \cup {[no |-> asked', window |-> window, used |-> used, week |-> week]}
    /\ polled' = "fresh"
    /\ UNCHANGED <<account, warned, gate, warnings, answered, failures, disturbed>>

-----------------------------------------------------------------------------
(* Acting on the answer                                                    *)

\* binding_limit_reset: the resets ahead of the windows that are at the limit
BindingReset(r) ==
    (IF r.used = Limit /\ r.window = window THEN {window + 1} ELSE {})
       \cup (IF r.week THEN {AfterWeek} ELSE {})

\* mutant: the latch is not moved by a warning
Latch_Stays(latch, crossedNow) == latch

\* usage_warned_pct after a reading
Latch(latch, crossedNow) == IF crossedNow = {} THEN latch ELSE Max(crossedNow)


\* limited_until_ms after a reading: the later wall, or what it was
GateAt(resets) == IF resets = {} THEN gate ELSE Max(resets)

\* on_usage_probe: less than was warned of is another window; thresholds newly
\* crossed are told to every live thread once
OnUsageProbe(r) ==
    LET latch == IF r.used < warned THEN 0 ELSE warned
        crossedNow == {l \in Warn : r.used >= l /\ l > latch}
    IN  /\ warned' = Latch(latch, crossedNow)
        /\ gate' = GateAt(BindingReset(r))
        /\ warnings' = IF crossedNow = {} THEN warnings
                       ELSE [warnings EXCEPT ![<<r.window, Max(crossedNow)>>] = @ + 1]

UsageAnswered ==
    /\ \E r \in probes :
          /\ probes' = probes \ {r}
          /\ \/ /\ OnUsageProbe(r)
                /\ answered' = r.no
                /\ disturbed' = (IF r.no < answered THEN disturbed + 1 ELSE disturbed) /\ UNCHANGED failures
             \/ /\ failures < MaxFailures /\ failures' = failures + 1
                /\ UNCHANGED <<warned, gate, warnings, answered, disturbed>>
    /\ UNCHANGED <<account, polled, asked>>

\* turn_hit_usage_limit: the record of a failed turn, which names one wall, sets
\* the gate by itself
TurnHitLimit ==
    /\ gate' \in Walls
    /\ UNCHANGED <<account, polled, probes, warned, warnings, asked, answered, failures, disturbed>>

\* All of it is memory: the gate, the latch and when the last poll was
UsageRestart ==
    /\ failures < MaxFailures /\ failures' = failures + 1 /\ disturbed' = disturbed + 1
    /\ polled' = "never" /\ probes' = {} /\ warned' = 0 /\ gate' = Never
    /\ UNCHANGED <<account, warnings, asked, answered>>

UsageNext ==
    \/ Use \/ NewWindow
    \/ TimePasses \/ UsageSuspected \/ UsageKick \/ UsageAnswered \/ TurnHitLimit
    \/ UsageRestart

UsageSpec == UsageInit /\ [][UsageNext]_usageVars

\* Time passes, the tick kicks, and every probe answers or fails
UsageFairness == WF_usageVars(TimePasses) /\ WF_usageVars(UsageKick) /\ WF_usageVars(UsageAnswered)

UsageFairSpec == UsageSpec /\ UsageFairness

-----------------------------------------------------------------------------
(* What it must keep                                                       *)

\* The threads are warned of a level once in a window, and once more for every
\* answer that came after a newer one and every restart (usage_warned_pct).
WarnedOnce == \A w \in Window, l \in Warn : warnings[<<w, l>>] <= 1 + disturbed

\* Requests are turned away only while a wall is up (binding_limit_reset).
GateIsReal == gate > window => Walls # {}

\* A reading that finds the weekly wall closes the gate beyond it, newer or older
\* than the one before: the end of the shorter window does not open it again
\* (binding_limit_reset).
GateOutlastsWindow ==
    [][(\E r \in probes : r.week /\ answered' = r.no) => gate' = AfterWeek]_usageVars

\* A wall that stays up is noticed and gated, however many answers fail, while
\* there is one left to ask for (usage_kick, on_usage_probe).
WallIsGated == []<>(gate > window \/ Walls = {} \/ asked = MaxProbes)

\* The gate and the warnings follow the account: an answer that is overtaken may
\* have one warning told again, and never gates without a wall.
GateFollowsTheWalls == UsageTypeOK /\ WarnedOnce /\ GateIsReal
=============================================================================
