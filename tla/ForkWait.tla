------------------------------ MODULE ForkWait ------------------------------
(***************************************************************************)
(* A parent that forks, waits for its child and reports how the child      *)
(* ended: main.c and main1.c of lab5 wait once; in main3.c the child stops *)
(* itself, the parent continues it and waits three times.  Somebody at the *)
(* terminal may stop, continue and kill the child at any moment.           *)
(***************************************************************************)
EXTENDS Integers, Sequences

VARIABLES
  parent,   \* its program, the next call, the variable status, and how it ended
  child     \* its state, next call and exit; news: what wait has not yet reported

forkVars == <<parent, child>>

WaitFor(kinds) == <<"wait", kinds>>

\* mutant: the first wait does not ask for stopped children
CallsUnaskedStop ==
  [once |-> << <<"fork">>, WaitFor({}), <<"report">> >>,
   thrice |-> << <<"fork">>, WaitFor({}), <<"continue">>, WaitFor({"continued"}), WaitFor({}), <<"report">> >>]

Calls ==
  [once |-> << <<"fork">>, WaitFor({}), <<"report">> >>,
   thrice |-> << <<"fork">>, WaitFor({"stopped"}), <<"continue">>, WaitFor({"continued"}), WaitFor({}),
                 <<"report">> >>]

\* the handler of SIGCHLD in main3.c is installed with SA_RESTART
NoRestart == FALSE
Restart == TRUE

\* status is not initialised
Init == /\ parent \in [program : {"once", "thrice"}, at : {1}, status : {"garbage"}, over : {"no"}]
        /\ child = [life |-> "none", at |-> 1, news |-> "none", signal |-> FALSE, meddled |-> FALSE]

Call == Calls[parent.program][parent.at]
Calling(op) == parent.over = "no" /\ Call[1] = op
Alive == child.life \in {"running", "stopped"}
Dead == child.life \in {"exit", "killed"}

-----------------------------------------------------------------------------
(* The parent.                                                             *)
Fork == /\ Calling("fork")
        /\ parent' = [parent EXCEPT !.at = 2]
        /\ child' = [child EXCEPT !.life = "running"]

ForkFails == /\ Calling("fork")
             /\ parent' = [parent EXCEPT !.over = "failed"]
             /\ UNCHANGED child

\* wait finds what it was asked for
WaitNews == /\ Calling("wait") /\ child.news \in Call[2]
            /\ parent' = [parent EXCEPT !.at = @ + 1, !.status = child.news]
            /\ child' = [child EXCEPT !.news = "none"]

\* or a dead child, which is then gone
WaitEnd == /\ Calling("wait") /\ Dead
           /\ parent' = [parent EXCEPT !.at = @ + 1, !.status = child.life]
           /\ child' = [child EXCEPT !.life = "gone"]

\* or that there is no child: -1, and status keeps what it held
WaitNothing == /\ Calling("wait") /\ child.life = "gone"
               /\ parent' = [parent EXCEPT !.at = @ + 1]
               /\ UNCHANGED child

\* SIGCHLD: the handler prints; without SA_RESTART a wait that found nothing returns -1
Handler == /\ parent.program = "thrice" /\ parent.over = "no" /\ child.signal
           /\ child' = [child EXCEPT !.signal = FALSE]
           /\ parent' = IF ~Restart /\ Calling("wait") /\ child.news \notin Call[2] /\ ~Dead
                        THEN [parent EXCEPT !.at = @ + 1] ELSE parent

Continued == [child EXCEPT !.life = "running", !.news = "continued", !.signal = TRUE]

\* kill(child_pid, SIGCONT) is nothing to a child that runs or is dead
KillCont == /\ Calling("continue")
            /\ parent' = [parent EXCEPT !.at = @ + 1]
            /\ child' = IF child.life = "stopped" THEN Continued ELSE child

Report == /\ Calling("report")
          /\ parent' = [parent EXCEPT !.over = "reported"]
          /\ UNCHANGED child

-----------------------------------------------------------------------------
(* The child, and somebody at the terminal.                                *)
Stopped == [child EXCEPT !.life = "stopped", !.news = "stopped", !.signal = TRUE]
Died(how) == [child EXCEPT !.life = how, !.news = "none", !.signal = TRUE]

ChildStops == /\ parent.program = "thrice" /\ child.life = "running" /\ child.at = 1
              /\ child' = [Stopped EXCEPT !.at = 2]
              /\ UNCHANGED parent

ChildExits == /\ child.life = "running" /\ (parent.program = "thrice" => child.at = 2)
              /\ child' = Died("exit")
              /\ UNCHANGED parent

UserStops == /\ child.life = "running"
             /\ child' = [Stopped EXCEPT !.meddled = TRUE]
             /\ UNCHANGED parent

UserContinues == /\ child.life = "stopped"
                 /\ child' = [Continued EXCEPT !.meddled = TRUE]
                 /\ UNCHANGED parent

UserKills == /\ Alive
             /\ child' = Died("killed")
             /\ UNCHANGED parent

-----------------------------------------------------------------------------
Parent == Fork \/ ForkFails \/ WaitNews \/ WaitEnd \/ WaitNothing \/ Handler \/ KillCont \/ Report
Child == ChildStops \/ ChildExits
User == UserStops \/ UserContinues \/ UserKills
Next == Parent \/ Child \/ User

-----------------------------------------------------------------------------
\* What the parent says of the child is so: the child is gone, and ended as the status
\* says, however it was stopped, continued or killed and whichever waits failed
\* (main.c:52, main1.c:35, main3.c:61).
ReportsTruth == parent.over = "reported" => child.life = "gone" /\ parent.status \in {"exit", "killed"}

\* The parent ends, unless somebody else has stopped or continued the child and it
\* stays stopped.
Settled == parent.over # "no" \/ (child.meddled /\ child.life = "stopped")
=============================================================================
