---------------------------- MODULE CommandPipe ----------------------------
(***************************************************************************)
(* The pipe by which gstream_main takes camera commands                    *)
(* (/home/nvidia/webrtc/ptz_command_pipe): its watch on the main loop, the *)
(* lines that a shell writes to it for a viewer's custom command or that   *)
(* others write, the commands to the camera; and the custom commands that  *)
(* are answered with the output of a program.                              *)
(*                                                                         *)
(* The main thread waits in system(), popen() and usleep(), while others   *)
(* write on. The shells, the pipe and GLib are external. The program holds *)
(* the pipe open for reading and writing, so that it never sees it closed. *)
(* A part of a command is not a command, and none is contained in another. *)
(***************************************************************************)
EXTENDS Integers, Sequences

CONSTANTS
  Commands,     \* the commands of process_ptz_command
  Size,         \* length of each, without the end of the line
  Twice,        \* those that the camera is sent in two parts (ir_init)
  Custom,       \* those that handle_custom_command writes to the pipe
  READ_SIZE,    \* sizeof(buffer) - 1 of ptz_pipe_read_callback
  CAPACITY,     \* of the pipe
  MaxLines,     \* bound on the lines written
  Elsewhere     \* where the main thread may be in other handlers

ASSUME PipeAssumption ==
  /\ Size \in [Commands -> Nat \ {0}]
  /\ Twice \subseteq Commands /\ Custom \subseteq Commands
  /\ READ_SIZE \in Nat \ {0} /\ CAPACITY \in Nat /\ MaxLines \in Nat
  /\ \A c \in Commands : Size[c] < CAPACITY
  /\ Elsewhere \cap {"loop", "lines", "pause", "echo", "query"} = {}

VARIABLES
  main,      \* where the main thread is
  serial,    \* the serial line is open
  pipe,      \* bytes that were written and not read
  todo,      \* lines of the last read that are still to be carried out
  echo,      \* the command that the shell is to write
  (* history *)
  asked,     \* the command of each line, in the order they were written
  done,      \* the lines that were carried out, in that order
  lost,      \* lines of which a read took a part, or that a restart dropped
  calm       \* no read has found more than it takes, and no restart was

pipeVars == <<main, serial, pipe, todo, echo, asked, done, lost, calm>>
stream == <<pipe, asked>>
results == <<done, lost, calm>>

(* A byte is known by its line and its place there; after the Size bytes of *)
(* the text comes the end of the line.                                      *)
Byte(k, i) == [line |-> k, at |-> i]
Last(k) == Size[asked[k]]
Lines == 1 .. Len(asked)
Text(c) == [i \in 1 .. Size[c] + 1 |-> Byte(Len(asked) + 1, i)]

PipeTypeOK ==
  /\ main \in {"loop", "lines", "pause", "echo", "query"} \cup Elsewhere
  /\ serial \in BOOLEAN
  /\ asked \in Seq(Commands) /\ Len(asked) <= MaxLines
  /\ pipe \in Seq([line : Lines, at : Nat]) /\ Len(pipe) <= CAPACITY
  /\ todo \subseteq Lines
  /\ echo \in Commands \cup {"none"}
  /\ done \in Seq(Lines)
  /\ lost \subseteq Lines
  /\ calm \in BOOLEAN

(* init_ptz_pipe removes a pipe that was left, makes a new one, and watches *)
(* it.                                                                      *)
PipeInit ==
  /\ main = "loop" /\ serial \in BOOLEAN
  /\ pipe = <<>> /\ todo = {} /\ echo = "none"
  /\ asked = <<>> /\ done = <<>> /\ lost = {} /\ calm = TRUE
-----------------------------------------------------------------------------
(* Writing                                                                  *)

(* A shell writes a line at once, when the pipe has room for it.            *)
Writes(c) ==
  /\ Len(pipe) + Size[c] + 1 <= CAPACITY
  /\ pipe' = pipe \o Text(c)
  /\ asked' = Append(asked, c)

(* Someone on the machine writes a command.                                 *)
WriteLine(c) ==
  /\ Len(asked) + (IF main = "echo" THEN 1 ELSE 0) < MaxLines
  /\ Writes(c)
  /\ UNCHANGED <<main, serial, todo, echo, results>>

(* handle_custom_command: system("echo ... > .../ptz_command_pipe").        *)
AskEcho(c) ==
  /\ main = "loop" /\ main' = "echo"
  /\ Len(asked) < MaxLines
  /\ c \in Custom /\ echo' = c
  /\ UNCHANGED <<serial, todo, stream, results>>

Echoed ==
  /\ main = "echo" /\ main' = "loop"
  /\ Writes(echo) /\ echo' = "none"
  /\ UNCHANGED <<serial, todo, results>>
-----------------------------------------------------------------------------
(* Reading: ptz_pipe_read_callback                                          *)

(* What a read takes, and which lines have their byte i in it.              *)
Taken == IF Len(pipe) < READ_SIZE THEN Len(pipe) ELSE READ_SIZE
Has(k, i) == \E j \in 1 .. Taken : pipe[j] = Byte(k, i)

(* The read is split at the ends of the lines: a line whose text is whole   *)
(* is a command, also without its end. Of another line that it touches, the *)
(* pieces are unknown commands, in this read and in the next.               *)
Whole == {k \in Lines : Has(k, 1) /\ Has(k, Last(k))}
Touched == {k \in Lines : \E i \in 1 .. Last(k) : Has(k, i)}

\* mutant: what is read is one command
FirstOnly(k) == Has(k, 1) /\ Has(k, Last(k)) /\ pipe[1] = Byte(k, 1)
ReadOne ==
  /\ main = "loop" /\ pipe # <<>> /\ main' = "lines"
  /\ todo' = {k \in Lines : FirstOnly(k)}
  /\ lost' = lost \cup (Touched \ Whole)
  /\ calm' = (calm /\ Len(pipe) <= READ_SIZE)
  /\ pipe' = SubSeq(pipe, Taken + 1, Len(pipe))
  /\ UNCHANGED <<serial, echo, asked, done>>

Read ==
  /\ main = "loop" /\ pipe # <<>> /\ main' = "lines"
  /\ todo' = Whole
  /\ lost' = lost \cup (Touched \ Whole)
  /\ calm' = (calm /\ Len(pipe) <= READ_SIZE)
  /\ pipe' = SubSeq(pipe, Taken + 1, Len(pipe))
  /\ UNCHANGED <<serial, echo, asked, done>>

(* process_ptz_command and send_pipe_data: the lines in their order. With   *)
(* the serial line closed nothing is sent. ir_init is sent in two parts,    *)
(* with a second and a half in between.                                     *)
CarryOut(k) ==
  /\ main = "lines" /\ k \in todo /\ \A j \in todo : k <= j
  /\ todo' = todo \ {k}
  /\ done' = Append(done, k)
  /\ main' = IF serial /\ asked[k] \in Twice THEN "pause" ELSE "lines"
  /\ UNCHANGED <<serial, echo, stream, lost, calm>>

EndPause ==
  /\ main = "pause" /\ main' = "lines"
  /\ UNCHANGED <<serial, todo, echo, stream, results>>

EndRead ==
  /\ main = "lines" /\ todo = {} /\ main' = "loop"
  /\ UNCHANGED <<serial, todo, echo, stream, results>>
-----------------------------------------------------------------------------
(* Custom commands that are answered                                        *)

(* A program of the list is run, up to five seconds; a command that is not  *)
(* on the list, or not on both of sudo's, is answered at once.              *)
AskQuery ==
  /\ main = "loop" /\ main' = "query"
  /\ UNCHANGED <<serial, todo, echo, stream, results>>

(* send_command_result_to_websocket: the result is sent, cut or replaced    *)
(* when it is long.                                                         *)
Answer ==
  /\ main = "query" /\ main' = "loop"
  /\ UNCHANGED <<serial, todo, echo, stream, results>>
-----------------------------------------------------------------------------
(* The program is stopped or dies, and starts again: with a new pipe.       *)
Unread == {k \in Lines : \E j \in 1 .. Len(pipe) : pipe[j].line = k}
PipeRestart ==
  /\ main' = "loop" /\ serial' \in BOOLEAN
  /\ pipe' = <<>> /\ todo' = {} /\ echo' = "none"
  /\ lost' = lost \cup Unread \cup todo /\ calm' = FALSE
  /\ UNCHANGED <<asked, done>>

(* The main thread in other handlers.                                       *)
Other ==
  /\ main \in Elsewhere \cup {"loop"} /\ main' \in Elsewhere \cup {"loop"}
  /\ UNCHANGED <<serial, todo, echo, stream, results>>
-----------------------------------------------------------------------------
PipeStep ==
  \/ \E c \in Commands : WriteLine(c) \/ AskEcho(c)
  \/ Echoed \/ Read \/ EndPause \/ EndRead \/ AskQuery \/ Answer
  \/ \E k \in Lines : CarryOut(k)

PipeNext == PipeStep \/ PipeRestart \/ Other

PipeSpec == PipeInit /\ [][PipeNext]_pipeVars
-----------------------------------------------------------------------------
(* Properties                                                               *)

(* Each line is carried out once at most and in the order of writing,       *)
(* though lines share reads, and reads are not aligned to lines; and none   *)
(* is missing, as long as no read has found more than it takes.             *)
Waiting(k) == k \in todo \/ \E j \in 1 .. Len(pipe) : pipe[j] = Byte(k, 1)
OnceInOrder ==
  /\ \A i, j \in 1 .. Len(done) : i < j => done[i] < done[j]
  /\ calm => \A k \in Lines : Waiting(k) \/ \E i \in 1 .. Len(done) : done[i] = k
=============================================================================
