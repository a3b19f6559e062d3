----------------------------- MODULE MCKeeping ------------------------------
(***************************************************************************)
(* Seven small components in one run.  They share no state, so only one of *)
(* them - chosen at the start - moves in a behaviour: the sum of their     *)
(* state spaces, never the product.                                        *)
(***************************************************************************)
EXTENDS Presence, SignIn, Usage, Terminal, Settings, Gate, Front

VARIABLE part

\* What the components' theorems assume of their constants
ASSUME KeepingAssumption == Given /\ Bounds /\ Apart /\ GateGiven /\ FrontGiven /\ TerminalGiven

all == <<part, vars, signInVars, usageVars, terminalVars, settingsVars, gateVars, frontVars>>

SumInit ==
    /\ part \in {"presence", "signIn", "usage", "terminal", "settings", "gate", "front"}
    /\ Init /\ SignInInit /\ UsageInit /\ TerminalInit /\ SettingsInit
    /\ GateInit /\ FrontInit

SumNext ==
    /\ UNCHANGED part
    /\ \/ part = "presence" /\ Next
          /\ UNCHANGED <<signInVars, usageVars, terminalVars, settingsVars, gateVars, frontVars>>
       \/ part = "signIn" /\ SignInNext
          /\ UNCHANGED <<vars, usageVars, terminalVars, settingsVars, gateVars, frontVars>>
       \/ part = "usage" /\ UsageNext
          /\ UNCHANGED <<vars, signInVars, terminalVars, settingsVars, gateVars, frontVars>>
       \/ part = "terminal" /\ TerminalNext
          /\ UNCHANGED <<vars, signInVars, usageVars, settingsVars, gateVars, frontVars>>
       \/ part = "settings" /\ SettingsNext
          /\ UNCHANGED <<vars, signInVars, usageVars, terminalVars, gateVars, frontVars>>
       \/ part = "gate" /\ GateNext
          /\ UNCHANGED <<vars, signInVars, usageVars, terminalVars, settingsVars, frontVars>>
       \/ part = "front" /\ FrontNext
          /\ UNCHANGED <<vars, signInVars, usageVars, terminalVars, settingsVars, gateVars>>

\* Each component's own fairness, in the behaviours it moves in
SumSpec ==
    /\ SumInit /\ [][SumNext]_all
    /\ Fairness
    /\ SignInFairness
    /\ WF_usageVars(part = "usage" /\ TimePasses)
    /\ WF_usageVars(part = "usage" /\ UsageKick)
    /\ WF_usageVars(part = "usage" /\ UsageAnswered)

\* A question, and a form of two of which one takes several answers
Forms == {<<"one">>, <<"one", "many">>}

\* Two threads of a channel, and one in the direct messages of each person
Topics == (Channel \X {1, 2}) \cup (Writer \X {1})

-----------------------------------------------------------------------------
=============================================================================
