-------------------------- MODULE SubprocessRunner --------------------------
(***************************************************************************)
(* SafeSubprocessRunner (execution/subprocess.py): one coroutine that      *)
(* calls run() again and again, or holds one stream_lines() open, and the  *)
(* processes it starts.                                                    *)
(*                                                                         *)
(* run() waits for the child to exit and for its pipes to close, under a   *)
(* timeout.  When the timeout fires it kills the child and waits again,    *)
(* now without one.  A child run under sudo may be out of the reach of     *)
(* kill(); a descendant of the child may keep the pipes open; the child    *)
(* may exit in the instant the timeout fires, and then there is nothing    *)
(* left to kill.  The coroutine may be cancelled at any await.             *)
(*                                                                         *)
(* A result is abstracted to what its readers tell apart: the class of the *)
(* return code and whether the output is all of what the command had to    *)
(* say.  The definitions named after a fault are faulty forms of the one   *)
(* they precede; the model does not use them.                              *)
(***************************************************************************)
EXTENDS Naturals, Sequences, FiniteSets

CONSTANT Tools   \* the commands that may be asked for

VARIABLES
    phase,      \* where the coroutine is
    command,    \* the command of the call in progress
    child,      \* its process
    status,     \* what the child left: return code and output, once it has exited
    held,       \* a descendant of the child keeps the pipes open
    abandoned,  \* how the last call ended, if its child ran on
    answer      \* what the last call came to

runner == <<phase, command, child, status, held, abandoned, answer>>

\* rc: 0, a code that some readers expect besides 0, any other.
\* out: nothing, a part, all of it, all of it but not in the form expected.
Codes == {"zero", "expected", "bad"}
Outputs == {"nothing", "part", "whole", "odd"}

CommandResult == [returncode : Codes, stdout : Outputs, stderr : BOOLEAN, timed_out : BOOLEAN,
                  missing_dependency : BOOLEAN, executed_with_sudo : BOOLEAN]

\* What a call may come to besides a result: the exceptions that leave it.
Raised == {"not found", "spawn", "not permitted", "no such process", "cancelled"}

NoResult == [returncode |-> "bad", stdout |-> "nothing", stderr |-> FALSE, timed_out |-> FALSE,
             missing_dependency |-> FALSE, executed_with_sudo |-> FALSE]
Nothing == [kind |-> "nothing", why |-> "", result |-> NoResult]
Returned(result) == [kind |-> "result", why |-> "", result |-> result]
Raises(why) == [kind |-> "raised", why |-> why, result |-> NoResult]

Missing == [NoResult EXCEPT !.stderr = TRUE, !.missing_dependency = TRUE]

\* What commands leave when they exit on their own.
Exits == {[NoResult EXCEPT !.returncode = "zero", !.stdout = out] :
              out \in {"nothing", "whole", "odd"}}
         \cup {[NoResult EXCEPT !.returncode = "expected", !.stdout = out] :
                  out \in {"nothing", "whole"}}
         \cup {NoResult, [NoResult EXCEPT !.stdout = "part"], [NoResult EXCEPT !.stderr = TRUE]}

Command == [tool : Tools, sudo : BOOLEAN]
NoCommand == [tool |-> "", sudo |-> FALSE]

Executable(cmd) == IF cmd.sudo THEN "sudo" ELSE cmd.tool

\* A process of sudo, prepended or asked for by name (security.py:26, 30), is root's: kill()
\* may be refused.
AsRoot(cmd) == Executable(cmd) = "sudo"

\* The call ends: its answer, and whether its child runs on.
Ends(how, ending) ==
    /\ answer' = how
    /\ abandoned' = IF child \in {"running", "blocked"} THEN ending ELSE "nothing"
    /\ phase' = "idle" /\ child' = "none" /\ held' = FALSE
    /\ command' = NoCommand /\ status' = NoResult

\* The caller goes on with the answer.
AnswerTaken ==
    /\ answer' = Nothing /\ abandoned' = "nothing"
    /\ UNCHANGED <<phase, command, child, status, held>>

-----------------------------------------------------------------------------
(* run(). *)

\* which() does not find the executable: an answer, since every caller allows it.
CallMissing(cmd, installed) ==
    /\ phase = "idle" /\ Executable(cmd) \notin installed
    /\ answer' = Returned([Missing EXCEPT !.executed_with_sudo = cmd.sudo])
    /\ UNCHANGED <<phase, command, child, status, held, abandoned>>

\* It does, and the process is started; or it cannot be, after all.
CallSpawns(cmd, installed) ==
    /\ phase = "idle" /\ Executable(cmd) \in installed
    /\ \/ /\ phase' = "communicate" /\ command' = cmd /\ child' = "running"
          /\ answer' = Nothing
          /\ UNCHANGED <<status, held, abandoned>>
       \/ /\ answer' = Raises("spawn")
          /\ UNCHANGED <<phase, command, child, status, held, abandoned>>

\* The child exits, perhaps leaving a descendant with the pipes.
ChildExits(exits) ==
    /\ phase \in {"communicate", "drain"} /\ child = "running"
    /\ child' = "exited"
    /\ status' \in exits
    /\ held' \in BOOLEAN
    /\ UNCHANGED <<phase, command, abandoned, answer>>

KilledChildExits ==
    /\ child = "killed"
    /\ child' = "exited"
    /\ held' \in BOOLEAN
    /\ UNCHANGED <<phase, command, status, abandoned, answer>>

DescendantExits ==
    /\ child = "exited" /\ held
    /\ held' = FALSE
    /\ UNCHANGED <<phase, command, child, status, abandoned, answer>>

Completes ==
    /\ phase = "communicate" /\ child = "exited" /\ ~held
    /\ Ends(Returned(status), "returned")

\* The except clause: process.kill(), which the operating system may refuse.  An exit in the
\* same instant leaves a process to kill only while the pipes are open.
TimeoutWithoutKill ==
    /\ phase = "communicate"
    /\ phase' = "drain"
    /\ UNCHANGED <<command, child, status, held, abandoned, answer>>

Timeout ==
    /\ phase = "communicate"
    /\ \/ /\ child = "running"
          /\ child' = "killed" /\ phase' = "drain"
          /\ UNCHANGED <<command, status, held, abandoned, answer>>
       \/ /\ child = "running" /\ AsRoot(command)
          /\ Ends(Raises("not permitted"), "not permitted")
       \/ /\ child = "exited"
          /\ phase' = "drain"
          /\ UNCHANGED <<command, child, status, held, abandoned, answer>>
       \/ /\ child = "exited" /\ ~held
          /\ Ends(Raises("no such process"), "no such process")

\* `process.returncode or -9': the code of a child that had exited and whose pipes were held
\* open, but never zero.  Of the output the first wait may have taken a part.
TimedOutResultOfChild(out, err) ==
    [status EXCEPT !.stdout = out, !.stderr = err, !.timed_out = TRUE]

TimedOutResult(out, err) ==
    [NoResult EXCEPT !.returncode = IF status.returncode = "zero" THEN "bad"
                                    ELSE status.returncode,
                     !.stdout = out, !.stderr = err, !.timed_out = TRUE,
                     !.executed_with_sudo = command.sudo]

Drained ==
    /\ phase = "drain" /\ child = "exited" /\ ~held
    /\ \E out \in {"nothing", "part"}, err \in BOOLEAN :
          Ends(Returned(TimedOutResult(out, err)), "returned")

\* A cancelled call does nothing about its child.
Cancelled ==
    /\ phase \in {"communicate", "drain"}
    /\ Ends(Raises("cancelled"), "cancelled")

-----------------------------------------------------------------------------
(* stream_lines(), with the only timeout its callers pass: none. *)

StreamOpens(cmd, installed) ==
    /\ phase = "idle" /\ answer = Nothing
    /\ IF Executable(cmd) \notin installed
       THEN /\ answer' = Raises("not found")
            /\ UNCHANGED <<phase, command, child>>
       ELSE \/ /\ phase' = "stream" /\ command' = cmd /\ child' = "running"
               /\ UNCHANGED answer
            \/ /\ answer' = Raises("spawn")
               /\ UNCHANGED <<phase, command, child>>
    /\ UNCHANGED <<status, held, abandoned>>

\* Nobody reads the child's stderr: it stops when that pipe is full.
StreamChildStops ==
    /\ phase = "stream" /\ child = "running"
    /\ child' \in {"blocked", "exited"}
    /\ held' \in (IF child' = "exited" THEN BOOLEAN ELSE {held})
    /\ UNCHANGED <<phase, command, status, abandoned, answer>>

ClosingWithoutKill(ending) == Ends(ending, "returned")

\* The finally clause: a child that has not exited is killed.  The stream ends with the end of
\* the output, or because the consumer closes it or is cancelled.
Closing(ending) ==
    IF child \in {"running", "blocked"}
    THEN \/ /\ child' = "killed" /\ phase' = "close"
            /\ UNCHANGED <<command, status, held, abandoned, answer>>
         \/ /\ AsRoot(command)
            /\ Ends(Raises("not permitted"), "not permitted")
    ELSE Ends(ending, "returned")

StreamEnds ==
    /\ phase = "stream" /\ child = "exited" /\ ~held
    /\ Closing(Returned([NoResult EXCEPT !.returncode = "zero"]))

StreamClosed ==
    /\ phase = "stream"
    /\ Closing(Raises("cancelled"))

StreamDrained ==
    /\ phase = "close" /\ child = "exited" /\ ~held
    /\ Ends(Raises("cancelled"), "returned")

CloseCancelled ==
    /\ phase = "close"
    /\ Ends(Raises("cancelled"), "cancelled")

-----------------------------------------------------------------------------

Idle ==
    /\ phase = "idle" /\ command = NoCommand /\ child = "none" /\ status = NoResult
    /\ held = FALSE /\ abandoned = "nothing" /\ answer = Nothing

RunnerTypeOK ==
    /\ phase \in {"idle", "communicate", "drain", "stream", "close"}
    /\ command \in Command \cup {NoCommand}
    /\ child \in {"none", "running", "blocked", "killed", "exited"}
    /\ status \in CommandResult
    /\ held \in BOOLEAN
    /\ abandoned \in {"nothing", "returned"} \cup Raised
    /\ answer \in [kind : {"nothing", "result", "raised"}, why : {""} \cup Raised,
                   result : CommandResult]
=============================================================================
