------------------------------ MODULE ViewFlow ------------------------------
(***************************************************************************)
(* The web client of one case: it shows one CaseView, polls while jobs run *)
(* and sends commands (apps/web/src/state/caseFlow.ts over                 *)
(* apps/web/src/api/client.ts).  The routes answer each request from one   *)
(* transaction (api/routes_view.py, api/routes_commands.py), but answers   *)
(* may overtake each other or get lost, and a command that was given up    *)
(* may still be on its way.                                                *)
(*                                                                         *)
(* A view is a case_rev, the number of changes it contains and whether     *)
(* jobs run.  Not every change raises case_rev.                            *)
(***************************************************************************)
EXTENDS Naturals

CONSTANTS Poll,         \* polls that may be under way at once
          MaxChanges,   \* bound of the changes of the case
          MaxCommands   \* bound of the commands

FlowAssumption == MaxChanges \in Nat

VARIABLES
    server,      \* the view the server would give now
    screen,      \* state.view
    busy,        \* "no", with a "command", "checking" after its answer was lost
    unavailable, \* state.viewUnavailable
    active,      \* the screen is mounted
    timer,       \* a refresh is scheduled
    commands,    \* how many commands went out
    polls,       \* GET requests of `refresh`
    call,        \* the command, then the GET that checks on it
    late,        \* expected revisions of commands given up on their way
    doubt,       \* the outcome of the last command is not known
    answered,    \* changes in the last answer to a command
    overtaken    \* changes when a command that was given up took effect

network == <<polls, call, late>>
ghosts == <<doubt, answered, overtaken>>
vars == <<server, screen, busy, unavailable, active, timer, commands, network, ghosts>>

View == [rev : 1 .. MaxChanges + 1, changes : 0 .. MaxChanges, running : BOOLEAN]
NoRequest == [state |-> "none"]
Going(sent) == [state |-> "going", sent |-> sent]
Answer(request, view) == [state |-> "answered", sent |-> request.sent, view |-> view]

Init ==
    /\ server \in {v \in View : v.rev = 1 /\ v.changes = 0}
    /\ screen = server
    /\ busy = "no" /\ unavailable = FALSE /\ active = TRUE
    /\ timer = screen.running
    /\ commands = 0
    /\ polls = [p \in Poll |-> NoRequest] /\ call = NoRequest /\ late = {}
    /\ doubt = FALSE /\ answered = 0 /\ overtaken = 0

(***************************************************************************)
(* The server.                                                             *)
(***************************************************************************)
Changed == {v \in View : v.rev \in {server.rev, server.rev + 1} /\ v.changes = server.changes + 1}

\* The result of a job is reflected: others may follow it.
Reflect ==
    /\ server.running
    /\ server' \in Changed
    /\ UNCHANGED <<screen, busy, unavailable, active, timer, commands, network, ghosts>>

ServePoll(p) ==
    /\ polls[p].state = "going"
    /\ polls' = [polls EXCEPT ![p] = Answer(@, server)]
    /\ UNCHANGED <<server, screen, busy, unavailable, active, timer, commands, call, late, ghosts>>

\* `execute_command`: an old revision is refused with the present view; other
\* refusals carry none.
Execute ==
    /\ busy = "command" /\ call.state = "going"
    /\ \/ /\ call.sent = server.rev
          /\ server' \in Changed
          /\ call' = Answer(call, server')
       \/ /\ call.sent # server.rev
          /\ call' = Answer(call, server)
          /\ UNCHANGED server
       \/ /\ call' = [call EXCEPT !.state = "refused"]
          /\ UNCHANGED server
    /\ UNCHANGED <<screen, busy, unavailable, active, timer, commands, polls, late, ghosts>>

\* A command nobody waits for any more.
ExecuteLate(rev) ==
    /\ rev \in late
    /\ late' = late \ {rev}
    /\ \/ /\ rev = server.rev
          /\ server' \in Changed
          /\ overtaken' = server'.changes
       \/ UNCHANGED <<server, overtaken>>
    /\ UNCHANGED <<screen, busy, unavailable, active, timer, commands, polls, call, doubt, answered>>

ServeCheck ==
    /\ busy = "checking" /\ call.state = "going"
    /\ call' = Answer(call, server)
    /\ UNCHANGED <<server, screen, busy, unavailable, active, timer, commands, polls, late, ghosts>>

(***************************************************************************)
(* The client: `adopt` and `schedule`.                                     *)
(***************************************************************************)
Schedule(view, lost) == timer' = (active /\ (lost \/ view.running))

\* Views of an older revision are dropped, but polling goes on.
Adopt(view) ==
    IF view.rev >= screen.rev
       THEN /\ screen' = view /\ unavailable' = FALSE
            /\ Schedule(view, FALSE)
       ELSE /\ UNCHANGED <<screen, unavailable>>
            /\ Schedule(screen, unavailable)

\* `refresh`; while a command is out, the timer is only set anew.
Refresh(p) ==
    /\ timer /\ active /\ busy = "no" /\ polls[p].state = "none"
    /\ timer' = FALSE
    /\ polls' = [polls EXCEPT ![p] = Going(commands)]
    /\ UNCHANGED <<server, screen, busy, unavailable, active, commands, call, late, ghosts>>

MutOutdated(p) == FALSE                     \* mutant: every answer counts

\* A command went out since: the answer may be old.
Outdated(p) == polls[p].sent # commands

PollAnswered(p) ==
    /\ polls[p].state = "answered"
    /\ polls' = [polls EXCEPT ![p] = NoRequest]
    /\ IF Outdated(p)
          THEN Schedule(screen, unavailable) /\ UNCHANGED <<screen, unavailable, doubt>>
          ELSE Adopt(polls[p].view) /\ doubt' = (doubt /\ unavailable')
    /\ UNCHANGED <<server, busy, active, commands, call, late, answered, overtaken>>

PollFails(p) ==
    /\ polls[p].state # "none"
    /\ polls' = [polls EXCEPT ![p] = NoRequest]
    /\ unavailable' = (unavailable \/ ~Outdated(p))
    /\ Schedule(screen, unavailable')
    /\ UNCHANGED <<server, screen, busy, active, commands, call, late, ghosts>>

\* `send`.
Send ==
    /\ busy = "no" /\ ~unavailable /\ commands < MaxCommands
    /\ busy' = "command" /\ commands' = commands + 1
    /\ call' = Going(screen.rev)
    /\ UNCHANGED <<server, screen, unavailable, active, timer, polls, late, ghosts>>

Answered ==
    /\ busy = "command" /\ call.state = "answered"
    /\ busy' = "no" /\ call' = NoRequest
    /\ Adopt(call.view) /\ answered' = call.view.changes
    /\ UNCHANGED <<server, active, commands, polls, late, doubt, overtaken>>

Refused ==
    /\ busy = "command" /\ call.state = "refused"
    /\ busy' = "no" /\ call' = NoRequest
    /\ UNCHANGED <<server, screen, unavailable, active, timer, commands, polls, late, ghosts>>

\* No answer within the time limit, or one that says nothing about the outcome:
\* the view is read before anything else may be sent.
GiveUp ==
    /\ busy = "command"
    /\ busy' = "checking" /\ doubt' = TRUE
    /\ late' = IF call.state = "going" THEN late \cup {call.sent} ELSE late
    /\ call' = Going(commands)
    /\ UNCHANGED <<server, screen, unavailable, active, timer, commands, polls, answered, overtaken>>

CheckAnswered ==
    /\ busy = "checking" /\ call.state = "answered"
    /\ busy' = "no" /\ call' = NoRequest
    /\ Adopt(call.view) /\ doubt' = FALSE
    /\ UNCHANGED <<server, active, commands, polls, late, answered, overtaken>>

\* From now on only reading is tried again.
CheckFails ==
    /\ busy = "checking"
    /\ busy' = "no" /\ call' = NoRequest
    /\ unavailable' = TRUE /\ Schedule(screen, TRUE)
    /\ UNCHANGED <<server, screen, active, commands, polls, late, ghosts>>

\* `connect`, and what it returns.
Connect ==
    /\ ~active
    /\ active' = TRUE
    /\ timer' = (unavailable \/ screen.running)
    /\ UNCHANGED <<server, screen, busy, unavailable, commands, network, ghosts>>

Disconnect ==
    /\ active
    /\ active' = FALSE /\ timer' = FALSE
    /\ UNCHANGED <<server, screen, busy, unavailable, commands, network, ghosts>>

Next ==
    \/ Reflect \/ Execute \/ ServeCheck
    \/ \E rev \in late : ExecuteLate(rev)
    \/ \E p \in Poll : ServePoll(p) \/ Refresh(p) \/ PollAnswered(p) \/ PollFails(p)
    \/ Send \/ Answered \/ Refused \/ GiveUp \/ CheckAnswered \/ CheckFails
    \/ Connect \/ Disconnect

Spec == Init /\ [][Next]_vars

(***************************************************************************)
(* Properties.                                                             *)
(***************************************************************************)
Request == [state : {"none"}] \cup [state : {"going", "refused"}, sent : Nat]
           \cup [state : {"answered"}, sent : Nat, view : View]

FlowTypeOK ==
    /\ {server, screen} \subseteq View
    /\ busy \in {"no", "command", "checking"}
    /\ {unavailable, active, timer, doubt} \subseteq BOOLEAN
    /\ polls \in [Poll -> Request] /\ call \in Request
    /\ late \subseteq 1 .. MaxChanges + 1

\* What a command was answered with is never replaced on the screen by a state
\* of before, whichever polls were under way and however late they return.
AnswerStays == screen.changes >= answered

\* No command goes out while the outcome of the last one is in doubt: the user
\* first sees a state that was read after it was given up.
NoBlindRepeat == busy = "command" => ~doubt

\* A screen that is behind the server will be refreshed, or never knew: the only
\* changes it may miss for good are those of a command it gave up that took
\* effect after the check.
NoSilentStall ==
    active /\ screen.changes < server.changes =>
        \/ timer \/ busy # "no" \/ \E p \in Poll : polls[p].state # "none"
        \/ overtaken > screen.changes

ScreenFollows == AnswerStays /\ NoBlindRepeat /\ NoSilentStall
=============================================================================
