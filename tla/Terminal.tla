------------------------------- MODULE Terminal -----------------------------
(***************************************************************************)
(* A command on a pseudo-terminal (proc.Terminal): one goroutine types the *)
(* input key by key as the command becomes ready and reads it, another     *)
(* copies what the command writes, and Close ends both once the command    *)
(* has exited, even when a descendant of it keeps the terminal open.       *)
(*                                                                         *)
(* A key ends a line or it does not.  The terminal itself is the kernel's: *)
(* a bounded buffer each way, in line mode (a read returns one whole line) *)
(* or out of it (a read returns everything typed so far).                  *)
(***************************************************************************)
EXTENDS Naturals, Sequences

CONSTANTS
  Keys,       \* the input to type
  InCap,      \* typed keys the terminal holds before typing blocks
  OutCap,     \* writes of the command it holds before the command blocks
  MaxWrites,  \* how often the command writes
  Modes,      \* the modes a command may switch the terminal to
  WriterFails \* may the copied output fail to be written?

ASSUME TerminalAssumption ==
  /\ Keys \in Seq({"char", "enter"})
  /\ InCap \in Nat \ {0} /\ OutCap \in Nat \ {0} /\ MaxWrites \in Nat
  /\ Modes \subseteq {"line", "raw"} /\ WriterFails \in BOOLEAN

VARIABLES
  command,  \* "running" or "gone"
  holder,   \* does a descendant of it hold the terminal?
  mode,     \* the mode of the terminal
  queue,    \* the keys typed and not read yet
  output,   \* the writes of the command not copied yet
  writes,   \* how often the command wrote
  slave,    \* is himorime's terminal side open?
  master,   \* is the controlling side open?
  wrote,    \* the three channels, closed or not: the command has written,
  ready,    \* the command was found ready for keys,
  stop,     \* typing must end
  typist,   \* where typeKeys is
  left,     \* the keys it has not typed
  key,      \* the key it typed last
  canonical, \* was the terminal in line mode when it looked after that key?
  copier,   \* where copyOutput is
  copied,   \* how many writes were copied
  main,     \* where Close is
  drained   \* did Close wait for the output in vain?

terminal == <<holder, mode, queue, output, writes>>
files == <<slave, master>>
channels == <<wrote, ready, stop>>
typing == <<typist, left, key, canonical>>
copying == <<copier, copied>>
closing == <<main, drained>>
terminalVars == <<command, terminal, files, channels, typing, copying, closing>>

(* OpenTerminal started both goroutines, and the command was started.      *)
TerminalInit ==
  /\ command = "running" /\ holder = FALSE /\ mode = "line"
  /\ queue = <<>> /\ output = 0 /\ writes = 0
  /\ slave = TRUE /\ master = TRUE
  /\ wrote = FALSE /\ ready = FALSE /\ stop = FALSE
  /\ typist = (IF Keys = <<>> THEN "done" ELSE "unready") /\ left = Keys
  /\ key = "none" /\ canonical = TRUE
  /\ copier = "read" /\ copied = 0
  /\ main = "run" /\ drained = FALSE

-----------------------------------------------------------------------------
(* typeKeys.                                                               *)

(* waitReady: with several reasons at once any of them may be seen first;  *)
(* with none the typist pauses and looks again.                            *)
WaitReady ==
  /\ typist = "unready"
  /\ \/ /\ wrote \/ (slave /\ mode = "raw")
        /\ typist' = "write" /\ ready' = TRUE
     \/ /\ stop \/ ~slave
        /\ typist' = "done" /\ UNCHANGED ready
  /\ UNCHANGED <<command, terminal, files, wrote, stop, left, key, canonical,
                 copying, closing>>

(* Nobody holds the terminal side any more.                                *)
Unheld == ~slave /\ command = "gone" /\ ~holder

(* A key is typed, which blocks while the terminal is full and ends when   *)
(* either side is closed for good.                                         *)
TypeKey ==
  /\ typist = "write"
  /\ \/ /\ master /\ ~Unheld /\ Len(queue) < InCap
        /\ queue' = Append(queue, Head(left))
        /\ key' = Head(left) /\ left' = Tail(left)
        /\ typist' = "mode"
     \/ /\ ~master \/ Unheld
        /\ typist' = "done" /\ UNCHANGED <<queue, left, key>>
  /\ UNCHANGED <<command, holder, mode, output, writes, files, channels, canonical,
                 copying, closing>>

After(keys) == IF keys = <<>> THEN "done" ELSE "write"

NeverWaits ==  \* mutant: keys out of line mode are not waited for either
  /\ typist = "mode"
  /\ canonical' = (slave => mode = "line")
  /\ typist' = IF ~slave THEN "done" ELSE IF key = "enter" THEN "unread" ELSE After(left)
  /\ UNCHANGED <<command, terminal, files, channels, left, key, copying, closing>>

(* In line mode the keys of a line are typed together.                     *)
AskMode ==
  /\ typist = "mode"
  /\ canonical' = (slave => mode = "line")
  /\ typist' = IF ~slave THEN "done"
               ELSE IF canonical' /\ key = "char" THEN After(left)
               ELSE "unread"
  /\ UNCHANGED <<command, terminal, files, channels, left, key, copying, closing>>

(* What the command could read: in line mode only whole lines.             *)
Pending == IF mode = "raw" THEN queue # <<>> ELSE \E i \in DOMAIN queue : queue[i] = "enter"

(* waitRead.                                                               *)
WaitRead ==
  /\ typist = "unread"
  /\ \/ (stop \/ ~slave) /\ typist' = "done"
     \/ ~stop /\ slave /\ ~Pending /\ typist' = After(left)
  /\ UNCHANGED <<command, terminal, files, channels, left, key, canonical, copying, closing>>

Typist == WaitReady \/ TypeKey \/ AskMode \/ WaitRead

-----------------------------------------------------------------------------
(* copyOutput.                                                             *)

ReadEarly ==  \* mutant: the command having exited counts as the end
  /\ copier = "read"
  /\ \/ /\ master /\ output > 0 /\ command = "running"
        /\ output' = output - 1 /\ copier' = "write" /\ wrote' = TRUE
     \/ /\ ~master \/ command = "gone"
        /\ copier' = "done" /\ UNCHANGED <<output, wrote>>
  /\ UNCHANGED <<command, holder, mode, queue, writes, files, ready, stop, typing,
                 copied, closing>>

(* A read returns what was written; then the end, once nobody holds the    *)
(* terminal side any more; at once when the controlling side is closed.    *)
ReadOutput ==
  /\ copier = "read"
  /\ \/ /\ master /\ output > 0
        /\ output' = output - 1 /\ copier' = "write" /\ wrote' = TRUE
     \/ /\ \/ ~master
           \/ output = 0 /\ Unheld
        /\ copier' = "done" /\ UNCHANGED <<output, wrote>>
  /\ UNCHANGED <<command, holder, mode, queue, writes, files, ready, stop, typing,
                 copied, closing>>

WriteOutput ==
  /\ copier = "write"
  /\ \/ copier' = "read" /\ copied' = copied + 1
     \/ WriterFails /\ copier' = "failed" /\ UNCHANGED copied
  /\ UNCHANGED <<command, terminal, files, channels, typing, closing>>

Copier == ReadOutput \/ WriteOutput

-----------------------------------------------------------------------------
(* Close, which is called once the command has exited.                     *)

CloseStop ==
  /\ main = "run" /\ command = "gone"
  /\ stop' = TRUE /\ main' = "slave"
  /\ UNCHANGED <<command, terminal, files, wrote, ready, typing, copying, drained>>

CloseSlave ==
  /\ main = "slave" /\ slave' = FALSE /\ main' = "drain"
  /\ UNCHANGED <<command, terminal, master, channels, typing, copying, drained>>

DrainForever ==  \* mutant: the wait for the output has no bound
  /\ main = "drain" /\ copier \in {"done", "failed"}
  /\ main' = "master" /\ UNCHANGED drained
  /\ UNCHANGED <<command, terminal, files, channels, typing, copying>>

(* The output is waited for, but not for ever.                             *)
DrainOutput ==
  /\ main = "drain"
  /\ drained' = (copier \notin {"done", "failed"})
  /\ main' = "master"
  /\ UNCHANGED <<command, terminal, files, channels, typing, copying>>

CloseMaster ==
  /\ main = "master" /\ master' = FALSE /\ main' = "join"
  /\ UNCHANGED <<command, terminal, slave, channels, typing, copying, drained>>

CloseJoins ==
  /\ main = "join" /\ typist = "done" /\ main' = "closed"
  /\ UNCHANGED <<command, terminal, files, channels, typing, copying, drained>>

Close == CloseStop \/ CloseSlave \/ DrainOutput \/ CloseMaster \/ CloseJoins

-----------------------------------------------------------------------------
(* The command and its descendant.  Closing the controlling side hangs the *)
(* terminal up.                                                            *)

Running == command = "running" \/ holder

CommandWrites ==
  /\ Running /\ master /\ writes < MaxWrites /\ output < OutCap
  /\ output' = output + 1 /\ writes' = writes + 1
  /\ UNCHANGED <<command, holder, mode, queue, files, channels, typing, copying, closing>>

FirstLine(i) == queue[i] = "enter" /\ \A j \in 1..(i - 1) : queue[j] # "enter"

CommandReads ==
  /\ Running /\ master /\ Pending
  /\ \/ mode = "raw" /\ queue' = <<>>
     \/ /\ mode = "line"
        /\ \E i \in DOMAIN queue : FirstLine(i) /\ queue' = SubSeq(queue, i + 1, Len(queue))
  /\ UNCHANGED <<command, holder, mode, output, writes, files, channels, typing, copying, closing>>

(* What is unread when the terminal goes back to line mode counts as a     *)
(* whole line.                                                             *)
CommandSwitches ==
  /\ command = "running" /\ \E m \in Modes : mode' = m /\ mode # m
  /\ queue' = IF mode' = "line" /\ queue # <<>>
              THEN [queue EXCEPT ![Len(queue)] = "enter"] ELSE queue
  /\ UNCHANGED <<command, holder, output, writes, files, channels, typing, copying, closing>>

DescendantHolds ==
  /\ command = "running" /\ ~holder /\ holder' = TRUE
  /\ UNCHANGED <<command, mode, queue, output, writes, files, channels, typing, copying, closing>>

DescendantEnds ==
  /\ holder /\ holder' = FALSE
  /\ UNCHANGED <<command, mode, queue, output, writes, files, channels, typing, copying, closing>>

(* It exits by itself or is stopped at its timeout.                        *)
CommandEnds ==
  /\ command = "running" /\ command' = "gone"
  /\ UNCHANGED <<terminal, files, channels, typing, copying, closing>>

World ==
  \/ CommandWrites \/ CommandReads \/ CommandSwitches
  \/ DescendantHolds \/ DescendantEnds \/ CommandEnds

TerminalNext == Typist \/ Copier \/ Close \/ World

(* The goroutines are scheduled, writes to the output return, and the      *)
(* timeout ends the command; the descendant may hold on for ever.          *)
TerminalFairness ==
  /\ WF_terminalVars(Typist) /\ WF_terminalVars(Copier)
  /\ WF_terminalVars(Close) /\ WF_terminalVars(CommandEnds)

TerminalSpec == TerminalInit /\ [][TerminalNext]_terminalVars /\ TerminalFairness

-----------------------------------------------------------------------------
(* Every variable keeps to the values the code can give it.                *)
TerminalTypeOK ==
  /\ command \in {"running", "gone"} /\ mode \in {"line", "raw"}
  /\ holder \in BOOLEAN /\ slave \in BOOLEAN /\ master \in BOOLEAN /\ drained \in BOOLEAN
  /\ wrote \in BOOLEAN /\ ready \in BOOLEAN /\ stop \in BOOLEAN
  /\ queue \in Seq({"char", "enter"}) /\ Len(queue) <= InCap
  /\ output \in 0..OutCap /\ writes \in 0..MaxWrites /\ copied \in 0..MaxWrites
  /\ typist \in {"unready", "write", "mode", "unread", "done"}
  /\ left \in Seq({"char", "enter"}) /\ (typist = "write" => left # <<>>)
  /\ key \in {"none", "char", "enter"} /\ canonical \in BOOLEAN
  /\ copier \in {"read", "write", "done", "failed"}
  /\ main \in {"run", "slave", "drain", "master", "join", "closed"}

(* Everything the command wrote is copied by the time Close returns, even  *)
(* what it wrote last, unless a descendant or the writer held it up.       *)
OutputComplete ==
  /\ TerminalTypeOK
  /\ main = "closed" /\ ~drained /\ copier = "done" => copied = writes

(* Out of line mode every key is a read of its own, and so is every line   *)
(* in it: a key joins unread ones only when it goes on with a line, however *)
(* the command switches modes and whenever it reads.                       *)
KeysReadSingly ==
  [][left' # left /\ queue # <<>> => canonical /\ key = "char"]_terminalVars

(* Close returns, whatever the command and its descendants do and whether  *)
(* or not the output can be written.                                       *)
CloseReturns == <>(main = "closed")
=============================================================================
