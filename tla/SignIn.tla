------------------------------- MODULE SignIn -------------------------------
(***************************************************************************)
(* Signing this machine's agent in and out from Slack (command/agent.rs,   *)
(* command.rs).  `login` runs the agent's own sign-in in one terminal that *)
(* everybody shares, posts the link it prints and takes the person's next  *)
(* message as the code; the first who succeeds becomes the owner.          *)
(*                                                                         *)
(* The terminal and the polling belong to tasks beside the loop, the seat  *)
(* and the owner to the loop: a task's end comes back as a note in a       *)
(* queue.  A place to sign in is a person's direct messages.               *)
(***************************************************************************)
EXTENDS Naturals, Sequences, FiniteSets

CONSTANTS
    Person,      \* who may write to the bot
    None,        \* nobody
    MaxLogins,   \* bound on sign-ins started
    MaxCodes,    \* bound on messages taken as a code
    MaxLogouts,  \* bound on sign-outs
    MaxRestarts  \* bound on restarts

\* Nobody is not a person, and the bounds are numbers
Given == None \notin Person /\ {MaxLogins, MaxCodes, MaxLogouts, MaxRestarts} \subseteq Nat

VARIABLES
    owner,       \* Access.owner, on disk
    pending,     \* SignIn.pending: who is waited for with a code
    signingOut,  \* SignIn.signing_out
    signedIn,    \* what the agent itself says of its credentials
    terminal,    \* the shared login session
    told,        \* the sign-in whose link each person was given
    logins,      \* tasks that wait for a link
    codes,       \* tasks that type a code and wait for the verdict
    fx,          \* CmdFx notes on their way to the loop
    n,           \* how many sign-ins, codes, sign-outs and restarts there were
    check,       \* the answer of the sign-in watch on its way
    lastKnown,   \* SignIn.last_known
    notices,     \* how often the owner was told of the credentials as they are now
    crossed,     \* what came in each other's way: see Crossings
    ousted       \* sign-ins begun before the last sign-out

seat == <<owner, pending, signingOut>>
watch == <<check, lastKnown, notices>>
signInVars == <<owner, pending, signingOut, signedIn, terminal, told, logins, codes, fx, n, watch, crossed, ousted>>

Login == 1 .. MaxLogins
NoTerminal == [id |-> 0, stage |-> "gone", by |-> None]
Stage == {"gone", "starting", "asking", "success", "error"}
\* early: a message came before the link; twice: a second one while a code was
\* checked; both: a sign-out while a link was waited for or a code
\* was checked
Crossings == {"early", "twice", "both"}

SignInTypeOK ==
    /\ owner \in Person \cup {None}
    /\ pending \subseteq Person /\ signingOut \in BOOLEAN /\ signedIn \in BOOLEAN
    /\ terminal \in [id : {0} \cup Login, stage : Stage, by : Person \cup {None}]
    /\ told \in [Person -> {0} \cup Login]
    /\ \A t \in logins : t.who \in Person /\ t.id \in Login
    /\ \A t \in codes : t.who \in Person /\ t.typed \in BOOLEAN
    /\ n.logins \in 0 .. MaxLogins /\ n.codes \in 0 .. MaxCodes
    /\ n.logouts \in 0 .. MaxLogouts /\ n.restarts \in 0 .. MaxRestarts
    /\ check \in {"none", "in", "out"} /\ lastKnown \in {"unknown", "in", "out"}
    /\ notices \in Nat
    /\ crossed \subseteq Crossings
    /\ \A i \in DOMAIN fx : fx[i].what = "logout" => signingOut

-----------------------------------------------------------------------------
SignInInit ==
    /\ owner = None /\ pending = {} /\ signingOut = FALSE /\ signedIn = FALSE
    /\ terminal = NoTerminal /\ told = [p \in Person |-> 0]
    /\ logins = {} /\ codes = {} /\ fx = <<>>
    /\ n = [logins |-> 0, codes |-> 0, logouts |-> 0, restarts |-> 0]
    /\ check = "none" /\ lastKnown = "unknown" /\ notices = 0
    /\ crossed = {} /\ ousted = {}

Of(tasks, p) == {t \in tasks : t.who = p}
Checking(p) == Of(codes, p) # {} \/ \E i \in DOMAIN fx : fx[i].who = p
Note(what, p, bound, by, id) == [what |-> what, who |-> p, bound |-> bound, by |-> by, id |-> id]

\* mutant: the seat is only looked at, and taken when the link shows up
SeatFree_Always(p) == p \notin pending

SeatFree(p) == pending \subseteq {p}

\* start_login: one shared terminal, so one sign-in; the seat is taken at once.
\* With an owner only he may ask, and only if the agent is signed out
StartLogin(p) ==
    /\ p \notin pending /\ SeatFree(p)
    /\ owner = None \/ (owner = p /\ ~signedIn)
    /\ n.logins < MaxLogins /\ n' = [n EXCEPT !.logins = @ + 1]
    /\ pending' = pending \cup {p}
    /\ logins' = logins \cup {[who |-> p, id |-> n.logins + 1, begun |-> FALSE]}
    /\ told' = [told EXCEPT ![p] = 0]
    /\ UNCHANGED <<owner, signingOut, signedIn, terminal, codes, fx, watch, crossed, ousted>>

\* login_begin: whatever is in the terminal goes
LoginBegin ==
    /\ \E t \in logins :
          /\ ~t.begun
          /\ logins' = (logins \ {t}) \cup {[t EXCEPT !.begun = TRUE]}
          /\ terminal' = [id |-> t.id, stage |-> "starting", by |-> None]
    /\ UNCHANGED <<seat, signedIn, told, codes, fx, n, watch, crossed, ousted>>

\* The agent's own sign-in prints its link
LinkShows ==
    /\ terminal.stage = "starting" /\ terminal' = [terminal EXCEPT !.stage = "asking"]
    /\ UNCHANGED <<seat, signedIn, told, logins, codes, fx, n, watch, crossed, ousted>>

\* The task posts whatever link the terminal shows
LinkPosted ==
    /\ terminal.stage \notin {"gone", "starting"}
    /\ \E t \in logins :
          t.begun /\ logins' = logins \ {t} /\ told' = [told EXCEPT ![t.who] = terminal.id]
    /\ UNCHANGED <<seat, signedIn, terminal, codes, fx, n, watch, crossed, ousted>>

\* mutant: a sign-in that never showed its link keeps its seat
NoLink_Silent(t) == <<>>

NoLink(t) == <<Note("login", t.who, None, None, t.id)>>

\* The terminal could not be started, or no link showed up in time
LoginGivesUp ==
    /\ \E t \in logins :
          /\ ~t.begun \/ terminal.stage \in {"gone", "starting"}
          /\ logins' = logins \ {t} /\ fx' = fx \o NoLink(t)
    /\ UNCHANGED <<seat, signedIn, terminal, told, codes, n, watch, crossed, ousted>>

\* login_carve_out, submit_code: the next message of who is waited for is the code
SubmitCode(p) ==
    /\ p \in pending /\ n.codes < MaxCodes /\ n' = [n EXCEPT !.codes = @ + 1]
    /\ codes' = codes \cup {[who |-> p, id |-> n.codes + 1, typed |-> FALSE, login |-> told[p]]}
    /\ crossed' = crossed \cup (IF told[p] = 0 THEN {"early"} ELSE {})
                          \cup (IF Checking(p) THEN {"twice"} ELSE {})
    /\ UNCHANGED <<seat, signedIn, terminal, told, logins, fx, watch, ousted>>

\* The code is typed: right for the link it came from, or not.  Only a
\* terminal that asks takes it
CodeTyped ==
    /\ \E t \in codes :
          /\ ~t.typed /\ terminal.stage # "gone"
          /\ codes' = (codes \ {t}) \cup {[t EXCEPT !.typed = TRUE]}
          /\ \/ terminal.stage # "asking" /\ UNCHANGED <<terminal, signedIn>>
             \/ /\ terminal.stage = "asking" /\ terminal' = [terminal EXCEPT !.stage = "error"]
                /\ UNCHANGED signedIn
             \/ /\ terminal.stage = "asking" /\ t.login = terminal.id
                /\ terminal' = [terminal EXCEPT !.stage = "success", !.by = t.who]
                /\ signedIn' = TRUE
    /\ UNCHANGED <<seat, told, logins, fx, n, watch, crossed, ousted>>

\* login_outcome: an explicit success, or anything else, a timeout included
Verdict(t) ==
    IF t.typed /\ terminal.stage = "success"
    THEN Note("login", t.who, t.who, terminal.by, terminal.id)
    ELSE Note("login", t.who, None, None, t.login)

\* The verdict comes back to the loop
CodeChecked ==
    /\ \E t \in codes :
          /\ t.typed \/ terminal.stage = "gone"
          /\ codes' = codes \ {t} /\ fx' = Append(fx, Verdict(t))
    /\ UNCHANGED <<seat, signedIn, terminal, told, logins, n, watch, crossed, ousted>>

\* LoginFinished: the terminal and the seat are cleared, and who signed in on
\* a bot without an owner owns it
LoginFinished ==
    /\ fx # <<>> /\ Head(fx).what = "login" /\ fx' = Tail(fx)
    /\ terminal' = NoTerminal
    /\ pending' = pending \ {Head(fx).who}
    /\ owner' = IF Head(fx).bound # None /\ owner = None THEN Head(fx).bound ELSE owner
    /\ UNCHANGED <<signingOut, signedIn, told, logins, codes, n, watch, crossed, ousted>>

\* user_logout: the owner, once at a time
UserLogout ==
    /\ owner # None /\ ~signingOut /\ n.logouts < MaxLogouts
    /\ n' = [n EXCEPT !.logouts = @ + 1]
    /\ signingOut' = TRUE
    /\ UNCHANGED <<owner, pending, signedIn, terminal, told, logins, codes, fx, watch, crossed, ousted>>

\* The credentials go bad, or may stay as they are; what the owner was told was
\* about the ones before
SignedOutOr(others) ==
    /\ signedIn' \in {FALSE} \cup others
    /\ notices' = IF signedIn /\ ~signedIn' THEN 0 ELSE notices

\* The agent's own sign-out ends, well or not
LogoutRuns ==
    /\ signingOut /\ \A i \in DOMAIN fx : fx[i].what # "logout"
    /\ SignedOutOr({signedIn})
    /\ fx' = Append(fx, Note("logout", None, None, None, 0))
    /\ UNCHANGED <<seat, terminal, told, logins, codes, n, check, lastKnown, crossed, ousted>>

Cleared == {}

\* LogoutFinished: no owner, and nobody is waited for
LogoutFinished ==
    /\ fx # <<>> /\ Head(fx).what = "logout" /\ fx' = Tail(fx)
    /\ owner' = None /\ pending' = Cleared /\ signingOut' = FALSE
    /\ ousted' = 1 .. n.logins
    /\ crossed' = IF logins \cup codes # {} \/ Len(fx) > 1 THEN crossed \cup {"both"} ELSE crossed
    /\ UNCHANGED <<signedIn, terminal, told, logins, codes, n, watch>>

\* The Bridge goes down: tasks and notes are lost, the terminal is swept
SignInRestart ==
    /\ n.restarts < MaxRestarts /\ n' = [n EXCEPT !.restarts = @ + 1]
    /\ pending' = {} /\ signingOut' = FALSE /\ terminal' = NoTerminal
    /\ logins' = {} /\ codes' = {} /\ fx' = <<>>
    /\ check' = "none" /\ lastKnown' = "unknown" /\ notices' = 0
    /\ UNCHANGED <<owner, signedIn, told, crossed, ousted>>

\* The credentials run out
Expires ==
    /\ signedIn /\ SignedOutOr({})
    /\ UNCHANGED <<seat, terminal, told, logins, codes, fx, n, check, lastKnown, crossed, ousted>>

-----------------------------------------------------------------------------
(* The sign-in watch                                                       *)

\* sign_in_kick, every twelve hours: asked beside the loop, if there is an owner
SignInKick ==
    /\ owner # None /\ check = "none" /\ check' = IF signedIn THEN "in" ELSE "out"
    /\ UNCHANGED <<seat, signedIn, terminal, told, logins, codes, fx, n, lastKnown, notices, crossed, ousted>>

FoundOut == check = "out" /\ lastKnown # "out"

\* on_sign_in_probe: told at the moment it is found out; no answer changes nothing
SignInAnswered ==
    /\ check # "none" /\ check' = "none"
    /\ \/ lastKnown' = check /\ notices' = notices + (IF FoundOut THEN 1 ELSE 0)
       \/ UNCHANGED <<lastKnown, notices>>
    /\ UNCHANGED <<seat, signedIn, terminal, told, logins, codes, fx, n, crossed, ousted>>

People == (\E p \in Person : StartLogin(p) \/ SubmitCode(p)) \/ UserLogout
Tasks ==
    \/ LoginBegin \/ LinkPosted \/ LoginGivesUp \/ CodeTyped \/ CodeChecked \/ LogoutRuns
Notes == LoginFinished \/ LogoutFinished

SignInNext == People \/ Tasks \/ Notes \/ LinkShows \/ SignInRestart \/ Expires \/ SignInKick \/ SignInAnswered

SignInSpec == SignInInit /\ [][SignInNext]_signInVars

\* Every task ends within its timeout, and the loop takes every note
SignInFairness == WF_signInVars(Tasks) /\ WF_signInVars(Notes)

SignInFairSpec == SignInSpec /\ SignInFairness

-----------------------------------------------------------------------------
(* What it must keep                                                       *)

\* One sign-in at a time: there is one terminal (SignIn.pending).
OneSeat == Cardinality(pending) < 2

\* Who becomes the owner signed in himself: nobody is bound by another
\* person's code.  Not promised once a message came too early or twice, or a
\* sign-out ended while a code was checked (start_login, LoginFinished).
BoundIsWhoSignedIn ==
    crossed = {} =>
       \A i \in DOMAIN fx : fx[i].bound # None => fx[i].bound = fx[i].by

\* A sign-out holds against the sign-ins that were under way: none of them
\* brings the owner back.  Not promised for one whose link or verdict is awaited
\* when the sign-out ends (LogoutFinished).
SignOutHolds ==
    crossed = {} => \A i \in DOMAIN fx : fx[i].bound # None => fx[i].id \notin ousted

\* The owner is told once of credentials that went bad, however often they are
\* checked and however old an answer is (on_sign_in_probe).
ToldOnce == notices < 2

\* The owner is who signed in, alone, until he signs out; and he hears of it when
\* his credentials go bad.
OwnerIsWhoSignedIn == SignInTypeOK /\ OneSeat /\ BoundIsWhoSignedIn /\ SignOutHolds /\ ToldOnce

\* A seat is given back, or its person has the link that the terminal asks
\* about: nobody blocks the next sign-in for want of one.  Not promised once a
\* message came too early or twice (NoLink, LoginFinished).
SeatUsable ==
    \A p \in Person :
       []<>(p \notin pending \/ (told[p] = terminal.id /\ terminal.id # 0) \/ crossed # {})
=============================================================================
