---------------------------- MODULE HostCommands ----------------------------
(***************************************************************************)
(* Commands that the host runs in processes of their own: with a timeout   *)
(* (_ExecuteOneShellCommandWithTimeout, utils/python/common/cmd_utils.py), *)
(* without one, and standing until they are stopped (runners/host/         *)
(* utils.py).  The caller is a destructor of                               *)
(* TestRunner.unregisterControllers, which has a time limit of its own     *)
(* (utils/python/common/timeout_utils.py) and swallows every exception.    *)
(*                                                                         *)
(* A command is a shell, the leader of a process group, and a child of it; *)
(* both hold the pipes that communicate() reads to their end.              *)
(***************************************************************************)
EXTENDS Naturals, FiniteSets

CONSTANT MaxCommands   \* bound: commands that the destructors run

Commands == 1..MaxCommands
(* Exit codes: -15 is "term", the code of a process that SIGTERM has ended. *)
Codes == {"zero", "error"}

VARIABLES
  proc,     \* command -> [leader, child: does it run; obeys, childObeys: does SIGTERM end it; code]
  popen,    \* command -> [kind, returncode, waiter, result, raced]: the Popen object, its reader
  main,     \* where the caller is: [at, cmd, late, raising]
  alarm,    \* SIGALRM is pending
  closing,  \* stdin is closed: the watcher thread has sent the interrupt
  answer,   \* command -> what the caller got, or "none"
  called    \* commands whose callback_on_timeout was called

commandVars == <<proc, popen, main, alarm, closing, answer, called>>

NoProcess == [leader |-> FALSE, child |-> FALSE, obeys |-> TRUE, childObeys |-> TRUE, code |-> "none"]
NoPopen == [kind |-> "none", returncode |-> "none", waiter |-> "none", result |-> "none", raced |-> FALSE]
Where(place) == [at |-> place, cmd |-> 0, late |-> FALSE, raising |-> FALSE]

CommandsInit ==
  /\ proc = [c \in Commands |-> NoProcess] /\ popen = [c \in Commands |-> NoPopen]
  /\ main = Where("idle") /\ alarm = FALSE /\ closing = FALSE
  /\ answer = [c \in Commands |-> "none"] /\ called = {}
-----------------------------------------------------------------------------
(* A process ends by itself, or when a SIGTERM that it handles says so. *)
LeaderExits(c) ==
  /\ proc[c].leader
  /\ \E code \in Codes : proc' = [proc EXCEPT ![c].leader = FALSE, ![c].code = code]
  /\ UNCHANGED <<popen, main, alarm, closing, answer, called>>
ChildExits(c) ==
  /\ proc[c].child /\ proc' = [proc EXCEPT ![c].child = FALSE]
  /\ UNCHANGED <<popen, main, alarm, closing, answer, called>>

(* Only the shell gets the signal. *)
KillsLeader(p) ==
  [p EXCEPT !.leader = @ /\ ~p.obeys, !.code = IF p.leader /\ p.obeys THEN "term" ELSE @]
(* os.killpg: the signal reaches all the group. *)
kill_process_group(p) ==
  [p EXCEPT !.leader = @ /\ ~p.obeys, !.code = IF p.leader /\ p.obeys THEN "term" ELSE @,
            !.child = @ /\ ~p.childObeys]

(* poll: reaps the leader if it has ended, whoever else waits for it. *)
poll(c) == IF popen[c].returncode = "none" /\ ~proc[c].leader
           THEN [popen EXCEPT ![c].returncode = proc[c].code] ELSE popen
Polled(c) == poll(c)[c].returncode
-----------------------------------------------------------------------------
(* WaitForProcess: communicate reads to the end of the pipes, then waits.  *)
(* A wait for a leader that poll has reaped in the meantime finds no child *)
(* process, which Popen.wait takes for the exit code 0.  The reader of a   *)
(* plain command is the caller.                                            *)
Reads(c) == main.at # "killed" /\ (popen[c].kind = "plain" => main.cmd = c)
Communicates(c) ==
  /\ Reads(c) /\ popen[c].waiter = "communicate" /\ ~proc[c].leader /\ ~proc[c].child
  /\ popen' = [popen EXCEPT ![c].waiter = IF popen[c].returncode = "none" THEN "wait" ELSE "waited"]
  /\ UNCHANGED <<proc, main, alarm, closing, answer, called>>
Waits(c) ==
  /\ Reads(c) /\ popen[c].waiter = "wait"
  /\ popen' = [popen EXCEPT ![c].waiter = "waited",
                            ![c].raced = @ \/ popen[c].returncode # "none",
                            ![c].returncode = IF @ = "none" THEN proc[c].code ELSE "zero"]
  /\ UNCHANGED <<proc, main, alarm, closing, answer, called>>
Appends(c) ==
  /\ Reads(c) /\ popen[c].waiter = "waited"
  /\ popen' = [popen EXCEPT ![c].waiter = "done", ![c].result = popen[c].returncode]
  /\ UNCHANGED <<proc, main, alarm, closing, answer, called>>
-----------------------------------------------------------------------------
(* unregisterControllers begins: the decorator sets the alarm. *)
unregisterControllers ==
  /\ main.at = "idle" /\ main' = Where("loop") /\ alarm' = TRUE
  /\ UNCHANGED <<proc, popen, closing, answer, called>>
(* All destructors have run: the decorator clears the alarm. *)
Unregistered ==
  /\ main.at = "loop" /\ main' = Where("over") /\ alarm' = FALSE
  /\ UNCHANGED <<proc, popen, closing, answer, called>>

(* Popen, in a process group of its own; a command with a timeout has a    *)
(* thread to wait for it, one without is waited for by the caller.         *)
Started(c, kind) ==
  /\ main.at = "loop" /\ popen[c].kind = "none" /\ \A e \in 1..(c - 1) : popen[e].kind # "none"
  /\ \E obeys, childObeys, child \in BOOLEAN :
       proc' = [proc EXCEPT ![c] = [leader |-> TRUE, child |-> child, obeys |-> obeys,
                                    childObeys |-> childObeys, code |-> "none"]]
  /\ popen' = [popen EXCEPT ![c].kind = kind,
                            ![c].waiter = IF kind = "standing" THEN "none" ELSE "communicate"]
  /\ UNCHANGED <<alarm, closing, answer, called>>

_ExecuteOneShellCommandWithTimeout(c) == Started(c, "timed") /\ main' = [Where("join") EXCEPT !.cmd = c]
ExecuteOneShellCommand(c) == Started(c, "plain") /\ main' = [Where("plain") EXCEPT !.cmd = c]
start_standing_subprocess(c) == Started(c, "standing") /\ UNCHANGED main

(* wait_thread.join(timeout) *)
Joins(c) ==
  /\ main.at = "join" /\ main.cmd = c
  /\ \E late \in BOOLEAN :
       /\ ~late => popen[c].waiter = "done"
       /\ main' = [main EXCEPT !.at = "poll", !.late = late]
  /\ UNCHANGED <<proc, popen, alarm, closing, answer, called>>
(* finally: poll, kill, and the callback if the code is that of SIGTERM. *)
Polls(c) ==
  /\ main.at = "poll" /\ main.cmd = c
  /\ popen' = poll(c)
  /\ main' = [main EXCEPT !.at = IF Polled(c) = "none" THEN "kill" ELSE "callback"]
  /\ UNCHANGED <<proc, alarm, closing, answer, called>>
Kills(c) ==
  /\ main.at = "kill" /\ main.cmd = c
  /\ proc' = [proc EXCEPT ![c] = kill_process_group(@)]
  /\ main' = [main EXCEPT !.at = "callback"] /\ UNCHANGED <<popen, alarm, closing, answer, called>>
CallsBack(c) ==
  /\ main.at = "callback" /\ main.cmd = c
  /\ called' = IF popen[c].returncode = "term" THEN called \cup {c} ELSE called
  /\ IF main.raising
     THEN main' = Where("loop") /\ answer' = [answer EXCEPT ![c] = "raised"]
     ELSE main' = [main EXCEPT !.at = "join2"] /\ UNCHANGED answer
  /\ UNCHANGED <<proc, popen, alarm, closing>>
(* The second join has no timeout.  Then the result is returned. *)
Returns(c) ==
  /\ main.at \in {"join2", "plain"} /\ main.cmd = c /\ popen[c].waiter = "done"
  /\ main' = Where("loop") /\ answer' = [answer EXCEPT ![c] = popen[c].result]
  /\ UNCHANGED <<proc, popen, alarm, closing, called>>

(* stop_standing_subprocess: one that has ended by itself is an error,     *)
(* which the caller logs; the rest of its group is left alone.             *)
stop_standing_subprocess(c) ==
  /\ main.at = "loop" /\ popen[c].kind = "standing" /\ answer[c] = "none"
  /\ popen' = poll(c)
  /\ IF Polled(c) # "none"
     THEN answer' = [answer EXCEPT ![c] = "raised"] /\ UNCHANGED proc
     ELSE answer' = [answer EXCEPT ![c] = "stopped"] /\ proc' = [proc EXCEPT ![c] = kill_process_group(@)]
  /\ UNCHANGED <<main, alarm, closing, called>>
-----------------------------------------------------------------------------
(* An exception of a signal handler in the caller.  A join without a       *)
(* timeout cannot be interrupted; a plain command is left as it is.  The   *)
(* loop's "except:" swallows what a destructor raises, so that the next    *)
(* one runs; outside a destructor the function ends.                       *)
RaisedInCaller ==
  CASE main.at = "join" -> main' = [main EXCEPT !.at = "poll", !.raising = TRUE] /\ UNCHANGED answer
    [] main.at = "plain" -> main' = Where("loop") /\ answer' = [answer EXCEPT ![main.cmd] = "raised"]
    [] main.at = "loop" -> main' = Where("over") /\ UNCHANGED answer
    [] OTHER -> FALSE
_handler_timeout ==
  /\ alarm /\ RaisedInCaller /\ alarm' = FALSE /\ UNCHANGED <<proc, popen, closing, called>>
(* stop_current_process: an interrupt, and some time later the end. *)
Interrupts ==
  /\ ~closing /\ RaisedInCaller /\ closing' = TRUE
  /\ alarm' = (alarm /\ main.at # "loop") /\ UNCHANGED <<proc, popen, called>>
Terminates ==
  /\ closing /\ main.at # "killed" /\ main' = Where("killed")
  /\ UNCHANGED <<proc, popen, alarm, closing, answer, called>>

CommandsNext ==
  \/ unregisterControllers \/ Unregistered \/ _handler_timeout \/ Interrupts \/ Terminates
  \/ \E c \in Commands :
       \/ LeaderExits(c) \/ ChildExits(c) \/ Communicates(c) \/ Waits(c) \/ Appends(c)
       \/ _ExecuteOneShellCommandWithTimeout(c) \/ ExecuteOneShellCommand(c)
       \/ start_standing_subprocess(c) \/ Joins(c) \/ Polls(c) \/ Kills(c) \/ CallsBack(c)
       \/ Returns(c) \/ stop_standing_subprocess(c)

CommandsSpec == CommandsInit /\ [][CommandsNext]_commandVars
-----------------------------------------------------------------------------
(* When a command with a timeout has returned, all its processes have      *)
(* ended, and the exit code is the shell's own, unless poll and the reader *)
(* reaped it together.  When an exception has ended the call instead, or a *)
(* standing command was stopped, what still runs ignores SIGTERM; or its   *)
(* shell ended by itself, and nothing was killed.                          *)
(* (cmd_utils.py _ExecuteOneShellCommandWithTimeout, utils.py              *)
(* kill_process_group, stop_standing_subprocess.)                          *)
CommandsEndWithTheirCalls ==
  \A c \in Commands : LET p == proc[c] IN
    /\ popen[c].kind = "timed" /\ answer[c] \notin {"none", "raised"} =>
         ~p.leader /\ ~p.child /\ (popen[c].raced \/ answer[c] = p.code)
    /\ popen[c].kind # "plain" /\ answer[c] \in {"raised", "stopped"} =>
         /\ p.leader => ~p.obeys
         /\ p.child => ~p.childObeys \/ p.code \in Codes

(* callback_on_timeout is "for the case when the command times out": it is *)
(* called for a command that the timeout has ended.  The code looks at     *)
(* returncode before the waiting thread may have set it (cmd_utils.py,     *)
(* _ExecuteOneShellCommandWithTimeout).                                    *)
TimeoutCallsBack ==
  \A c \in Commands : popen[c].kind = "timed" /\ answer[c] = "term" => c \in called
=============================================================================
