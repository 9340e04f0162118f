----------------------------- MODULE ProcessPipes -----------------------------
(***************************************************************************)
(* How jmfs runs a command and collects its output (tivo/io/process:       *)
(* ExternalProcess, Pipe, BufferedOutput).  The main thread starts the     *)
(* child and one pump thread for each of its output streams, waits for the *)
(* child, tells the pumps that they are done and closes the streams.  The  *)
(* pumps write into one buffer, byte by byte.                              *)
(*                                                                         *)
(* The child and its pipes are the operating system's; Pipe.done is not    *)
(* volatile, so a pump may go on reading the old value.                    *)
(***************************************************************************)
EXTENDS Integers, Sequences, SequencesExt

CONSTANTS
  Streams,   \* the child's output streams, in the order their pumps start
  Output,    \* how many bytes the child writes to each
  PipeSize,  \* bytes a pipe holds before a write to it blocks
  BufSize    \* bytes a pump reads at a time

Names == ToSet(Streams)

ASSUME StreamsAssumption == Streams \in Seq(Names) \ {<<>>} /\ IsInjective(Streams)
ASSUME SizesAssumption == /\ Output \in [Names -> Nat]
                          /\ PipeSize \in Nat \ {0} /\ BufSize \in Nat \ {0}

VARIABLES
  main,     \* where execute is: starting pump k, waiting, ending stream k, ...
  child,    \* has the child not started, is it running, has it exited?
  written,  \* bytes the child wrote so far, per stream
  pipe,     \* what is in each pipe
  pump,     \* where the pump of each stream is
  held,     \* what each pump has read and not written yet
  done,     \* the flag of each pump
  open,     \* is the stream open for reading?
  buffer    \* the output collected so far

vars == <<main, child, written, pipe, pump, held, done, open, buffer>>

Init ==
  /\ main = [at |-> "start", k |-> 1]
  /\ child = "none"
  /\ written = [s \in Names |-> 0]
  /\ pipe = [s \in Names |-> <<>>]
  /\ pump = [s \in Names |-> "off"]
  /\ held = [s \in Names |-> <<>>]
  /\ done = [s \in Names |-> FALSE]
  /\ open = [s \in Names |-> FALSE]
  /\ buffer = <<>>

-----------------------------------------------------------------------------
(* ExternalProcess.execute                                                  *)

StartChild ==
  /\ main.at = "start"
  /\ child' = "running"
  /\ open' = [s \in Names |-> TRUE]
  /\ main' = [at |-> "pumps", k |-> 1]
  /\ UNCHANGED <<written, pipe, pump, held, done, buffer>>

\* ProcessBuilder.start throws: there are no pumps and nothing to close.
StartFails ==
  /\ main.at = "start"
  /\ main' = [at |-> "returned", k |-> 1]
  /\ UNCHANGED <<child, written, pipe, pump, held, done, open, buffer>>

\* Mutant: the pump of the last stream is not started.
PumpsButLast == Front(Streams)

Pumps == Streams

StartPump ==
  /\ main.at = "pumps" /\ main.k <= Len(Pumps)
  /\ pump' = [pump EXCEPT ![Pumps[main.k]] = "loop"]
  /\ main' = [main EXCEPT !.k = @ + 1]
  /\ UNCHANGED <<child, written, pipe, held, done, open, buffer>>

\* Process.waitFor returns.
ChildGone == main.at = "pumps" /\ main.k > Len(Pumps) /\ child = "exited"

WaitFor ==
  /\ ChildGone
  /\ main' = [at |-> "done", k |-> 1]
  /\ UNCHANGED <<child, written, pipe, pump, held, done, open, buffer>>

\* Pipe.done, for each pump.
MarkDone ==
  /\ main.at = "done" /\ main.k <= Len(Streams)
  /\ done' = [done EXCEPT ![Streams[main.k]] = TRUE]
  /\ main' = IF main.k = Len(Streams) THEN [at |-> "close", k |-> 1]
             ELSE [main EXCEPT !.k = @ + 1]
  /\ UNCHANGED <<child, written, pipe, pump, held, open, buffer>>

CloseStream ==
  /\ main.at = "close" /\ main.k <= Len(Streams)
  /\ open' = [open EXCEPT ![Streams[main.k]] = FALSE]
  /\ main' = IF main.k = Len(Streams) THEN [at |-> "returned", k |-> 1]
             ELSE [main EXCEPT !.k = @ + 1]
  /\ UNCHANGED <<child, written, pipe, pump, held, done, buffer>>

-----------------------------------------------------------------------------
(* The child.                                                               *)

ChildWrite(s) ==
  /\ child = "running"
  /\ written[s] < Output[s] /\ Len(pipe[s]) < PipeSize
  /\ written' = [written EXCEPT ![s] = @ + 1]
  /\ pipe' = [pipe EXCEPT ![s] = Append(@, <<s, written[s] + 1>>)]
  /\ UNCHANGED <<main, child, pump, held, done, open, buffer>>

ChildExit ==
  /\ child = "running" /\ written = Output
  /\ child' = "exited"
  /\ UNCHANGED <<main, written, pipe, pump, held, done, open, buffer>>

-----------------------------------------------------------------------------
(* Pipe.run                                                                 *)

\* The flag may be seen late, never early.
TestDone(s) ==
  /\ pump[s] = "loop"
  /\ \/ pump' = [pump EXCEPT ![s] = "read"]
     \/ done[s] /\ pump' = [pump EXCEPT ![s] = "stopped"]
  /\ UNCHANGED <<main, child, written, pipe, held, done, open, buffer>>

\* What a read returns: some of the bytes that are there.
Some(p) == {SubSeq(p, 1, n) : n \in {n \in 1..Len(p) : n <= BufSize}}

ReadBytes(s) ==
  /\ pump[s] = "read" /\ open[s]
  /\ \E b \in Some(pipe[s]) :
       /\ held' = [held EXCEPT ![s] = b]
       /\ pipe' = [pipe EXCEPT ![s] = SubSeq(@, Len(b) + 1, Len(@))]
  /\ pump' = [pump EXCEPT ![s] = "write"]
  /\ UNCHANGED <<main, child, written, done, open, buffer>>

\* The end of the stream, or an IOException because it was closed.
NoMore(s) == ~open[s] \/ (pipe[s] = <<>> /\ child = "exited")

ReadEnds(s) ==
  /\ pump[s] = "read" /\ NoMore(s)
  /\ pump' = [pump EXCEPT ![s] = "stopped"]
  /\ UNCHANGED <<main, child, written, pipe, held, done, open, buffer>>

\* Mutant: writes what was read back to front.
NextByteLast(b) == Last(b)

\* The byte that is written first.
NextByte(b) == Head(b)

\* What is left of a block when its first byte is written.
Unwritten(b) == Tail(b)

\* FilterOutputStream.write passes a block on one byte at a time.
WriteByte(s) ==
  /\ pump[s] = "write"
  /\ buffer' = Append(buffer, NextByte(held[s]))
  /\ held' = [held EXCEPT ![s] = Unwritten(@)]
  /\ pump' = IF held'[s] = <<>> THEN [pump EXCEPT ![s] = "loop"] ELSE pump
  /\ UNCHANGED <<main, child, written, pipe, done, open>>

Main    == StartChild \/ StartFails \/ StartPump \/ WaitFor \/ MarkDone \/ CloseStream
Child   == ChildExit \/ \E s \in Names : ChildWrite(s)
Pump(s) == TestDone(s) \/ ReadBytes(s) \/ ReadEnds(s) \/ WriteByte(s)

\* The call has returned and every pump has stopped.
Over == /\ main.at = "returned"
        /\ \A s \in Names : pump[s] \in {"off", "stopped"}
        /\ UNCHANGED vars

Next == Main \/ Child \/ (\E s \in Names : Pump(s)) \/ Over

\* The scheduler runs every thread that can run, and the child is a command
\* that ends once it could write its output.
Fairness ==
  /\ WF_vars(Main)
  /\ WF_vars(Child)
  /\ \A s \in Names : WF_vars(Pump(s))

Spec == Init /\ [][Next]_vars /\ Fairness
-----------------------------------------------------------------------------
Byte == Names \X (Nat \ {0})

TypeOK ==
  /\ main.at \in {"start", "pumps", "done", "close", "returned"}
  /\ child \in {"none", "running", "exited"}
  /\ \A s \in Names : /\ written[s] \in 0..Output[s]
                      /\ pipe[s] \in Seq(Byte) /\ Len(pipe[s]) <= PipeSize
                      /\ held[s] \in Seq(Byte) /\ Len(held[s]) <= BufSize
                      /\ (pump[s] = "write") = (held[s] # <<>>)
  /\ pump \in [Names -> {"off", "loop", "read", "write", "stopped"}]
  /\ done \in [Names -> BOOLEAN] /\ open \in [Names -> BOOLEAN]
  /\ buffer \in Seq(Byte)

\* Whatever the pumps do to each other, the buffer holds the first bytes of each
\* stream: none is there twice, and none before the one in front of it.
StreamsInOrder ==
  /\ IsInjective(buffer)
  /\ \A j \in DOMAIN buffer :
       buffer[j][2] > 1 => \E i \in 1..(j - 1) : buffer[i] = <<buffer[j][1], buffer[j][2] - 1>>

\* Bytes m + 1 to n of a stream.
Bytes(s, m, n) == [k \in 1..(n - m) |-> <<s, m + k>>]

\* The buffer has the first n bytes of stream s, and no others of it.
Collected(s, n) == {b \in ToSet(buffer) : b[1] = s} = {<<s, k>> : k \in 1..n}

\* Until its stream is closed nothing is lost: what the child wrote is in the buffer,
\* with the pump, or in the pipe, in this order.
NothingLostWhileOpen ==
  \A s \in Names : open[s] =>
    \E n \in 0..written[s] : Collected(s, n) /\ held[s] \o pipe[s] = Bytes(s, n, written[s])

\* What execute gives to its caller, and has not read yet, is what the child wrote,
\* within the buffers of the pumps and the pipes.
OutputRight == TypeOK /\ StreamsInOrder /\ NothingLostWhileOpen

\* The child is never left blocked on a full pipe, nor execute on the child.
Returns == <>(main.at = "returned")

\* No pump thread outlives the call for good.
PumpsStop == <>[](\A s \in Names : pump[s] \in {"off", "stopped"})

\* Everything that a call of execute starts comes to an end.
CallEnds == Returns /\ PumpsStop
=============================================================================
