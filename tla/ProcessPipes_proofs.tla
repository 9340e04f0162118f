-------------------------- MODULE ProcessPipes_proofs --------------------------
(***************************************************************************)
(* However many streams a command has, whatever the sizes of its output,   *)
(* of the pipes and of the pumps' buffers, and in whatever order caller,   *)
(* pumps and child run: what execute collects is right.                    *)
(***************************************************************************)
EXTENDS ProcessPipes, SequenceTheorems, TLAPS

Place == [at : {"start", "pumps", "done", "close", "returned"}, k : Nat \ {0}]

\* The types of what the steps change.
Typed ==
  /\ main \in Place
  /\ child \in {"none", "running", "exited"}
  /\ written \in [Names -> Nat] /\ \A s \in Names : written[s] <= Output[s]
  /\ pipe \in [Names -> Seq(Byte)] /\ \A s \in Names : Len(pipe[s]) <= PipeSize
  /\ held \in [Names -> Seq(Byte)] /\ \A s \in Names : Len(held[s]) <= BufSize
  /\ pump \in [Names -> {"off", "loop", "read", "write", "stopped"}]
  /\ \A s \in Names : (pump[s] = "write") = (held[s] # <<>>)
  /\ done \in [Names -> BOOLEAN] /\ open \in [Names -> BOOLEAN]
  /\ buffer \in Seq(Byte)

\* A pump that has not been started has not read anything.
NotYet ==
  /\ main.at = "start" => \A s \in Names : pump[s] = "off"
  /\ main.at = "pumps" => \A j \in 1..Len(Streams) : j >= main.k => pump[Streams[j]] = "off"

\* The buffer has the first n bytes of a stream, the pump the next and the pipe the
\* rest of what the child wrote to it.
InLine(s, n) ==
  /\ Collected(s, n)
  /\ n + Len(held[s]) + Len(pipe[s]) = written[s]
  /\ \A j \in 1..Len(held[s]) : held[s][j] = <<s, n + j>>
  /\ \A j \in 1..Len(pipe[s]) : pipe[s][j] = <<s, n + Len(held[s]) + j>>

Lined == \A s \in Names : \E n \in Nat : InLine(s, n)

IInv == Typed /\ NotYet /\ Lined /\ StreamsInOrder

LEMMA StreamFacts ==
  /\ \A j \in 1..Len(Streams) : Streams[j] \in Names
  /\ \A i, j \in 1..Len(Streams) : Streams[i] = Streams[j] => i = j
  /\ Len(Streams) \in Nat
<1>1. Streams \in Seq(Names)
  BY StreamsAssumption
<1>2. Len(Streams) \in Nat /\ DOMAIN Streams = 1..Len(Streams) /\ \A j \in 1..Len(Streams) : Streams[j] \in Names
  BY <1>1, LenProperties, ElementOfSeq
<1> QED
  BY <1>2, StreamsAssumption DEF IsInjective

-----------------------------------------------------------------------------
(* Steps that move no byte.                                                 *)

LEMMA QuietStep ==
  ASSUME Lined, StreamsInOrder, UNCHANGED <<written, pipe, held, buffer>>
  PROVE  Lined' /\ StreamsInOrder'
<1>1. StreamsInOrder'
  BY DEF StreamsInOrder
<1>2. \A s, n : InLine(s, n)' = InLine(s, n)
  BY DEF InLine, Collected
<1> QED
  BY <1>1, <1>2 DEF Lined

\* execute goes on with the next stream.
LEMMA NextPlace ==
  ASSUME NEW m \in Place
  PROVE  /\ [m EXCEPT !.k = @ + 1] \in Place
         /\ [m EXCEPT !.k = @ + 1].at = m.at /\ [m EXCEPT !.k = @ + 1].k = m.k + 1
         /\ m.k \in Nat /\ m.k > 0 /\ m.k + 1 \in Nat \ {0}
BY DEF Place

LEMMA MainStep ==
  ASSUME IInv, Main
  PROVE  IInv'
<1>1. UNCHANGED <<written, pipe, held, buffer>>
  BY DEF Main, StartChild, StartFails, StartPump, WaitFor, MarkDone, CloseStream
<1>2. Lined' /\ StreamsInOrder'
  BY <1>1, QuietStep DEF IInv
<1>3. Typed /\ NotYet
  BY DEF IInv
<1>4. CASE StartChild
  <2>1. Typed'
    BY <1>1, <1>3, <1>4 DEF Typed, StartChild, Place
  <2>2. NotYet'
    BY <1>3, <1>4, StreamFacts DEF NotYet, StartChild
  <2> QED
    BY <2>1, <2>2, <1>2 DEF IInv
<1>5. CASE StartFails
  <2>1. Typed'
    BY <1>1, <1>3, <1>5 DEF Typed, StartFails, Place
  <2>2. NotYet'
    BY <1>5 DEF NotYet, StartFails
  <2> QED
    BY <2>1, <2>2, <1>2 DEF IInv
<1>6. CASE StartPump
  <2>1. /\ main.at = "pumps" /\ main.k \in 1..Len(Streams) /\ main.k \in Nat /\ Streams[main.k] \in Names
        /\ pump' = [pump EXCEPT ![Streams[main.k]] = "loop"]
        /\ main' = [main EXCEPT !.k = main.k + 1]
        /\ UNCHANGED <<child, done, open>>
    BY <1>3, <1>6, StreamFacts, NextPlace DEF Typed, StartPump, Pumps
  <2>2. main' \in Place
        /\ main'.at = "pumps" /\ main'.k = main.k + 1
    BY <2>1, <1>3, NextPlace DEF Typed
  <2>3. pump[Streams[main.k]] = "off"
    BY <2>1, <1>3 DEF NotYet
  <2>4. Typed'
    BY <1>1, <2>1, <2>2, <2>3, <1>3 DEF Typed
  <2>5. ASSUME NEW j \in 1..Len(Streams), j >= main.k + 1
        PROVE  pump'[Streams[j]] = "off"
    <3>1. j >= main.k /\ j # main.k
      BY <2>1, <2>5
    <3>2. Streams[j] # Streams[main.k] /\ Streams[j] \in Names
      BY <3>1, <2>1, StreamFacts
    <3> QED
      BY <3>1, <3>2, <2>1, <1>3 DEF NotYet, Typed
  <2>6. NotYet'
    BY <2>2, <2>5 DEF NotYet
  <2> QED
    BY <2>4, <2>6, <1>2 DEF IInv
<1>7. CASE WaitFor
  <2>1. Typed'
    BY <1>1, <1>3, <1>7 DEF Typed, WaitFor, Place
  <2>2. NotYet'
    BY <1>7 DEF NotYet, WaitFor
  <2> QED
    BY <2>1, <2>2, <1>2 DEF IInv
<1>8. CASE MarkDone
  <2>1. main' \in Place
        /\ main'.at \in {"done", "close"}
    <3>1. [at |-> "close", k |-> 1] \in Place
      BY DEF Place
    <3> QED
      BY <3>1, <1>3, <1>8, NextPlace DEF Typed, MarkDone
  <2>2. Typed'
    BY <1>1, <1>3, <1>8, <2>1 DEF Typed, MarkDone
  <2>3. NotYet'
    BY <2>1 DEF NotYet
  <2> QED
    BY <2>2, <2>3, <1>2 DEF IInv
<1>9. CASE CloseStream
  <2>1. main' \in Place
        /\ main'.at \in {"close", "returned"}
    <3>1. [at |-> "returned", k |-> 1] \in Place
      BY DEF Place
    <3> QED
      BY <3>1, <1>3, <1>9, NextPlace DEF Typed, CloseStream
  <2>2. Typed'
    BY <1>1, <1>3, <1>9, <2>1 DEF Typed, CloseStream
  <2>3. NotYet'
    BY <2>1 DEF NotYet
  <2> QED
    BY <2>2, <2>3, <1>2 DEF IInv
<1> QED
  BY <1>4, <1>5, <1>6, <1>7, <1>8, <1>9 DEF Main

LEMMA TestOrEndStep ==
  ASSUME IInv, NEW s \in Names, TestDone(s) \/ ReadEnds(s)
  PROVE  IInv'
<1>1. UNCHANGED <<written, pipe, held, buffer, main, child, done, open>>
  BY DEF TestDone, ReadEnds
<1>2. Lined' /\ StreamsInOrder'
  BY <1>1, QuietStep DEF IInv
<1>3. pump[s] \in {"loop", "read"} /\ \E p \in {"read", "stopped"} : pump' = [pump EXCEPT ![s] = p]
  BY DEF TestDone, ReadEnds
<1>4. Typed'
  BY <1>1, <1>3 DEF IInv, Typed
<1>5. NotYet'
  BY <1>1, <1>3, StreamFacts DEF IInv, Typed, NotYet
<1> QED
  BY <1>2, <1>4, <1>5 DEF IInv
-----------------------------------------------------------------------------
(* Steps that move bytes.                                                   *)

\* What a stream's bytes are depends on the stream's own buffers only.
LEMMA OthersInLine ==
  ASSUME NEW s \in Names, Lined, Typed,
         \A t \in Names \ {s} : /\ written'[t] = written[t] /\ pipe'[t] = pipe[t] /\ held'[t] = held[t]
                                /\ \A n : Collected(t, n)' = Collected(t, n)
  PROVE  \A t \in Names \ {s} : \E n \in Nat : InLine(t, n)'
<1> SUFFICES ASSUME NEW t \in Names \ {s}
             PROVE  \E n \in Nat : InLine(t, n)'
  OBVIOUS
<1>1. PICK n \in Nat : InLine(t, n)
  BY DEF Lined
<1>2. InLine(t, n)'
  BY <1>1 DEF InLine
<1> QED
  BY <1>2

LEMMA ChildStep ==
  ASSUME IInv, Child
  PROVE  IInv'
<1>1. CASE ChildExit
  <2>1. UNCHANGED <<written, pipe, held, buffer, main, pump, done, open>> /\ child' = "exited"
    BY <1>1 DEF ChildExit
  <2>2. Lined' /\ StreamsInOrder'
    BY <2>1, QuietStep DEF IInv
  <2> QED
    BY <2>1, <2>2 DEF IInv, Typed, NotYet
<1>2. ASSUME NEW s \in Names, ChildWrite(s)
      PROVE  IInv'
  <2>1. /\ written[s] < Output[s] /\ Len(pipe[s]) < PipeSize
        /\ written' = [written EXCEPT ![s] = written[s] + 1]
        /\ pipe' = [pipe EXCEPT ![s] = Append(pipe[s], <<s, written[s] + 1>>)]
        /\ UNCHANGED <<main, child, pump, held, done, open, buffer>>
    BY <1>2 DEF ChildWrite
  <2>2. /\ written[s] \in Nat /\ <<s, written[s] + 1>> \in Byte /\ pipe[s] \in Seq(Byte) /\ held[s] \in Seq(Byte)
        /\ Output[s] \in Nat /\ PipeSize \in Nat
    <3>1. written[s] \in Nat /\ pipe[s] \in Seq(Byte) /\ held[s] \in Seq(Byte)
      BY DEF IInv, Typed
    <3>2. <<s, written[s] + 1>> \in Byte
      BY <3>1 DEF Byte
    <3>3. Output[s] \in Nat /\ PipeSize \in Nat
      BY SizesAssumption
    <3> QED
      BY <3>1, <3>2, <3>3
  <2>3. /\ pipe'[s] = Append(pipe[s], <<s, written[s] + 1>>) /\ written'[s] = written[s] + 1
        /\ pipe'[s] \in Seq(Byte) /\ Len(pipe'[s]) = Len(pipe[s]) + 1
        /\ pipe'[s][Len(pipe[s]) + 1] = <<s, written[s] + 1>>
        /\ \A j \in 1..Len(pipe[s]) : pipe'[s][j] = pipe[s][j]
        /\ Len(pipe[s]) \in Nat /\ Len(held[s]) \in Nat
    BY <2>1, <2>2, AppendProperties, LenProperties DEF IInv, Typed
  <2>4. Typed'
    <3>1. pipe' \in [Names -> Seq(Byte)]
      BY <2>1, <2>3 DEF IInv, Typed
    <3>2. \A t \in Names : Len(pipe'[t]) <= PipeSize
      BY <2>1, <2>2, <2>3 DEF IInv, Typed
    <3>3. written' \in [Names -> Nat] /\ \A t \in Names : written'[t] <= Output[t]
      BY <2>1, <2>2 DEF IInv, Typed
    <3> QED
      BY <2>1, <3>1, <3>2, <3>3 DEF IInv, Typed
  <2>5. NotYet'
    BY <2>1 DEF IInv, NotYet
  <2>6. \E n \in Nat : InLine(s, n)'
    <3>1. PICK n \in Nat : InLine(s, n)
      BY DEF IInv, Lined
    <3>5. /\ n + Len(held[s]) + Len(pipe[s]) = written[s]
          /\ \A j \in 1..Len(pipe[s]) : pipe[s][j] = <<s, n + Len(held[s]) + j>>
      BY <3>1 DEF InLine
    <3>6. /\ Len(held[s]) \in Nat /\ Len(pipe[s]) \in Nat /\ written[s] \in Nat
          /\ Len(pipe'[s]) = Len(pipe[s]) + 1 /\ written'[s] = written[s] + 1
      BY <2>2, <2>3
    <3>3. n + Len(held[s]) + Len(pipe'[s]) = written'[s]
      BY <3>5, <3>6, <2>4 DEF IInv, Typed
    <3>2. ASSUME NEW j \in 1..Len(pipe'[s])
          PROVE  pipe'[s][j] = <<s, n + Len(held[s]) + j>>
      <4>1. CASE j = Len(pipe[s]) + 1
        <5>1. n + Len(held[s]) + j = written[s] + 1
          BY <4>1, <3>5, <3>6 DEF IInv, Typed
        <5> QED
          BY <4>1, <5>1, <2>3
      <4>2. CASE j # Len(pipe[s]) + 1
        <5>1. j \in 1..Len(pipe[s])
          BY <4>2, <2>3
        <5> QED
          BY <5>1, <3>5, <2>3
      <4> QED
        BY <4>1, <4>2
    <3>4. InLine(s, n)'
      BY <3>1, <3>2, <3>3, <2>1 DEF InLine, Collected
    <3> QED
      BY <3>4
  <2>7. \A t \in Names \ {s} : \E n \in Nat : InLine(t, n)'
    <3>1. \A t \in Names \ {s} : /\ written'[t] = written[t] /\ pipe'[t] = pipe[t] /\ held'[t] = held[t]
                                 /\ \A n : Collected(t, n)' = Collected(t, n)
      BY <2>1 DEF IInv, Typed, Collected
    <3> QED
      BY <3>1, OthersInLine DEF IInv
  <2>8. StreamsInOrder'
    BY <2>1 DEF IInv, StreamsInOrder
  <2> QED
    BY <2>4, <2>5, <2>6, <2>7, <2>8 DEF IInv, Lined
<1> QED
  BY <1>1, <1>2 DEF Child

\* A read takes bytes from the front of the pipe.
LEMMA SomeFacts ==
  ASSUME NEW p \in Seq(Byte), NEW b \in Some(p)
  PROVE  /\ b \in Seq(Byte) /\ Len(b) \in 1..Len(p) /\ Len(b) <= BufSize /\ b # <<>>
         /\ \A j \in 1..Len(b) : b[j] = p[j]
         /\ SubSeq(p, Len(b) + 1, Len(p)) \in Seq(Byte)
         /\ Len(SubSeq(p, Len(b) + 1, Len(p))) = Len(p) - Len(b)
         /\ \A j \in 1..(Len(p) - Len(b)) : SubSeq(p, Len(b) + 1, Len(p))[j] = p[Len(b) + j]
<1>1. PICK n \in 1..Len(p) : n <= BufSize /\ b = SubSeq(p, 1, n)
  BY DEF Some
<1>2. Len(p) \in Nat /\ \A i \in 1..Len(p) : p[i] \in Byte
  BY LenProperties, ElementOfSeq
<1>3. b \in Seq(Byte) /\ Len(b) = n /\ \A j \in 1..n : b[j] = p[j]
  BY <1>1, <1>2, SubSeqProperties
<1>4. /\ SubSeq(p, n + 1, Len(p)) \in Seq(Byte)
      /\ Len(SubSeq(p, n + 1, Len(p))) = Len(p) - n
      /\ \A j \in 1..(Len(p) - n) : SubSeq(p, n + 1, Len(p))[j] = p[n + j]
  BY <1>1, <1>2, SubSeqProperties
<1> QED
  BY <1>1, <1>3, <1>4, EmptySeq

LEMMA ReadStep ==
  ASSUME IInv, NEW s \in Names, ReadBytes(s)
  PROVE  IInv'
<1>1. PICK b \in Some(pipe[s]) :
        /\ pump[s] = "read" /\ held' = [held EXCEPT ![s] = b]
        /\ pipe' = [pipe EXCEPT ![s] = SubSeq(pipe[s], Len(b) + 1, Len(pipe[s]))]
        /\ pump' = [pump EXCEPT ![s] = "write"]
        /\ UNCHANGED <<main, child, written, done, open, buffer>>
  BY DEF ReadBytes
<1>2. /\ pipe[s] \in Seq(Byte) /\ held[s] \in Seq(Byte) /\ Len(pipe[s]) \in Nat /\ Len(pipe[s]) <= PipeSize
      /\ held[s] = <<>> /\ written[s] \in Nat
  BY <1>1, LenProperties DEF IInv, Typed
<1>3. /\ b \in Seq(Byte) /\ Len(b) \in 1..Len(pipe[s]) /\ Len(b) <= BufSize /\ b # <<>>
      /\ \A j \in 1..Len(b) : b[j] = pipe[s][j]
      /\ SubSeq(pipe[s], Len(b) + 1, Len(pipe[s])) \in Seq(Byte)
      /\ Len(SubSeq(pipe[s], Len(b) + 1, Len(pipe[s]))) = Len(pipe[s]) - Len(b)
      /\ \A j \in 1..(Len(pipe[s]) - Len(b)) :
           SubSeq(pipe[s], Len(b) + 1, Len(pipe[s]))[j] = pipe[s][Len(b) + j]
  BY <1>2, SomeFacts
<1>4. /\ held'[s] = b /\ pipe'[s] = SubSeq(pipe[s], Len(b) + 1, Len(pipe[s]))
      /\ Len(pipe'[s]) = Len(pipe[s]) - Len(b) /\ Len(b) \in Nat
  BY <1>1, <1>2, <1>3 DEF IInv, Typed
<1>5. Typed'
  <2>1. held' \in [Names -> Seq(Byte)] /\ pipe' \in [Names -> Seq(Byte)]
    BY <1>1, <1>3 DEF IInv, Typed
  <2>2. \A t \in Names : Len(pipe'[t]) <= PipeSize /\ Len(held'[t]) <= BufSize
    BY <1>1, <1>2, <1>3, <1>4, SizesAssumption DEF IInv, Typed
  <2>3. pump' \in [Names -> {"off", "loop", "read", "write", "stopped"}]
    BY <1>1 DEF IInv, Typed
  <2>4. \A t \in Names : (pump'[t] = "write") = (held'[t] # <<>>)
    BY <1>1, <1>3 DEF IInv, Typed
  <2> QED
    BY <1>1, <2>1, <2>2, <2>3, <2>4 DEF IInv, Typed
<1>6. NotYet'
  BY <1>1, StreamFacts DEF IInv, NotYet, Typed
<1>7. \E n \in Nat : InLine(s, n)'
  <2>1. PICK n \in Nat : InLine(s, n)
    BY DEF IInv, Lined
  <2>2. Len(held[s]) = 0
    BY <1>2
  <2>3. \A j \in 1..Len(b) : b[j] = <<s, n + j>>
    <3>1. \A j \in 1..Len(pipe[s]) : pipe[s][j] = <<s, n + Len(held[s]) + j>>
      BY <2>1 DEF InLine
    <3> TAKE j \in 1..Len(b)
    <3>2. j \in 1..Len(pipe[s]) /\ b[j] = pipe[s][j]
      BY <1>2, <1>3
    <3>3. n + Len(held[s]) + j = n + j
      BY <2>2
    <3> QED
      BY <3>1, <3>2, <3>3
  <2>4. \A j \in 1..Len(pipe'[s]) : pipe'[s][j] = <<s, n + Len(b) + j>>
    BY <2>1, <2>2, <1>2, <1>3, <1>4 DEF InLine
  <2>5. n + Len(b) + Len(pipe'[s]) = written[s]
    <3>1. n + Len(held[s]) + Len(pipe[s]) = written[s]
      BY <2>1 DEF InLine
    <3>2. /\ Len(held[s]) = 0 /\ Len(pipe[s]) \in Nat /\ Len(b) \in Nat
          /\ Len(pipe'[s]) = Len(pipe[s]) - Len(b)
      BY <2>2, <1>2, <1>4
    <3> QED
      BY <3>1, <3>2, <1>5 DEF IInv, Typed
  <2>6. InLine(s, n)'
    BY <2>1, <2>3, <2>4, <2>5, <1>1, <1>4 DEF InLine, Collected
  <2> QED
    BY <2>6
<1>8. \A t \in Names \ {s} : \E n \in Nat : InLine(t, n)'
  <2>1. \A t \in Names \ {s} : /\ written'[t] = written[t] /\ pipe'[t] = pipe[t] /\ held'[t] = held[t]
                               /\ \A n : Collected(t, n)' = Collected(t, n)
    BY <1>1 DEF IInv, Typed, Collected
  <2> QED
    BY <2>1, OthersInLine DEF IInv
<1>9. StreamsInOrder'
  BY <1>1 DEF IInv, StreamsInOrder
<1> QED
  BY <1>5, <1>6, <1>7, <1>8, <1>9 DEF IInv, Lined

\* What a block is without its first byte.
LEMMA BlockFacts ==
  ASSUME NEW b \in Seq(Byte), b # <<>>
  PROVE  /\ NextByte(b) = b[1] /\ b[1] \in Byte /\ Len(b) \in Nat \ {0}
         /\ Unwritten(b) \in Seq(Byte) /\ Len(Unwritten(b)) = Len(b) - 1
         /\ \A j \in 1..(Len(b) - 1) : Unwritten(b)[j] = b[j + 1]
<1>1. Len(b) \in Nat \ {0} /\ \A i \in 1..Len(b) : b[i] \in Byte
  BY EmptySeq, LenProperties, ElementOfSeq
<1>2. Head(b) = b[1] /\ Tail(b) \in Seq(Byte) /\ Len(Tail(b)) = Len(b) - 1
  BY HeadTailProperties
<1>3. \A j \in 1..(Len(b) - 1) : Tail(b)[j] = b[j + 1]
  BY <1>1, HeadTailProperties
<1> QED
  BY <1>1, <1>2, <1>3 DEF NextByte, Unwritten

\* The next byte of a stream joins the buffer behind all before it.
LEMMA NextInOrder ==
  ASSUME buffer \in Seq(Byte), StreamsInOrder, NEW s, NEW n \in Nat, Collected(s, n),
         buffer' = Append(buffer, <<s, n + 1>>), <<s, n + 1>> \in Byte
  PROVE  StreamsInOrder' /\ Collected(s, n + 1)' /\ \A t, m : t # s => Collected(t, m)' = Collected(t, m)
<1> DEFINE new == <<s, n + 1>>
           len == Len(buffer)
<1>1. /\ len \in Nat /\ DOMAIN buffer = 1..len /\ DOMAIN buffer' = 1..(len + 1)
      /\ buffer'[len + 1] = new /\ \A j \in 1..len : buffer'[j] = buffer[j]
  BY AppendProperties, LenProperties
<1>2. ToSet(buffer') = ToSet(buffer) \cup {new}
  BY <1>1 DEF ToSet
<1>3. new \notin ToSet(buffer)
  <2>1. new \notin {<<s, k>> : k \in 1..n}
    OBVIOUS
  <2>2. new[1] = s
    OBVIOUS
  <2> QED
    BY <2>1, <2>2 DEF Collected
<1>4. Collected(s, n + 1)'
  <2>1. {<<s, k>> : k \in 1..(n + 1)} = {<<s, k>> : k \in 1..n} \cup {new}
    <3>1. 1..(n + 1) = (1..n) \cup {n + 1}
      OBVIOUS
    <3> QED
      BY <3>1
  <2>2. {b \in ToSet(buffer') : b[1] = s} = {b \in ToSet(buffer) : b[1] = s} \cup {new}
    <3>1. new[1] = s
      OBVIOUS
    <3> HIDE DEF new
    <3> QED
      BY <3>1, <1>2
  <2>3. {b \in ToSet(buffer) : b[1] = s} = {<<s, k>> : k \in 1..n}
    BY DEF Collected
  <2>4. {b \in ToSet(buffer') : b[1] = s} = {<<s, k>> : k \in 1..(n + 1)}
    BY <2>1, <2>2, <2>3
  <2> QED
    BY <2>4 DEF Collected
<1>5. ASSUME NEW t, NEW m, t # s
      PROVE  Collected(t, m)' = Collected(t, m)
  <2>1. new[1] # t
    BY <1>5
  <2>2. {b \in ToSet(buffer') : b[1] = t} = {b \in ToSet(buffer) : b[1] = t}
    <3> HIDE DEF new
    <3> QED
      BY <2>1, <1>2
  <2> QED
    BY <2>2 DEF Collected
<1>6. IsInjective(buffer')
  <2>1. \A j \in 1..len : buffer[j] # new
    BY <1>1, <1>3 DEF ToSet
  <2>2. \A i, j \in 1..len : buffer[i] = buffer[j] => i = j
    BY <1>1 DEF StreamsInOrder, IsInjective
  <2>3. \A i, j \in 1..(len + 1) : buffer'[i] = buffer'[j] => i = j
    <3> HIDE DEF new
    <3>1. \A i \in 1..(len + 1) : i \in 1..len \/ i = len + 1
      BY <1>1
    <3> QED
      BY <1>1, <2>1, <2>2, <3>1
  <2> QED
    BY <1>1, <2>3 DEF IsInjective
<1>7. ASSUME NEW j \in DOMAIN buffer', buffer'[j][2] > 1
      PROVE  \E i \in 1..(j - 1) : buffer'[i] = <<buffer'[j][1], buffer'[j][2] - 1>>
  <2>1. CASE j \in 1..len
    <3>1. buffer'[j] = buffer[j] /\ j \in DOMAIN buffer
      BY <2>1, <1>1
    <3>2. PICK i \in 1..(j - 1) : buffer[i] = <<buffer[j][1], buffer[j][2] - 1>>
      BY <3>1, <1>7 DEF StreamsInOrder
    <3>3. i \in 1..len
      BY <2>1, <3>2, <1>1
    <3>4. buffer'[i] = buffer[i]
      BY <3>3, <1>1
    <3> QED
      BY <3>1, <3>2, <3>4
  <2>2. CASE j = len + 1
    <3>1. buffer'[j] = new
      BY <2>2, <1>1
    <3>2. buffer'[j][1] = s /\ buffer'[j][2] = n + 1 /\ n + 1 > 1
      BY <3>1, <1>7
    <3>3. n \in 1..n
      BY <3>2
    <3>4. <<s, n>> \in {b \in ToSet(buffer) : b[1] = s}
      BY <3>3 DEF Collected
    <3>5. PICK i \in 1..len : buffer[i] = <<s, n>>
      BY <3>4, <1>1 DEF ToSet
    <3>6. i \in 1..(j - 1) /\ buffer'[i] = <<s, n>> /\ n + 1 - 1 = n
      BY <3>5, <2>2, <1>1
    <3>7. buffer'[j][2] - 1 = n
      BY ONLY <3>2, <3>6
    <3>8. <<buffer'[j][1], buffer'[j][2] - 1>> = <<s, n>>
      BY <3>2, <3>7, Zenon
    <3> QED
      BY <3>6, <3>8, Zenon
  <2>3. j \in 1..(len + 1)
    BY <1>1, <1>7
  <2>4. j \in 1..len \/ j = len + 1
    BY <2>3, <1>1
  <2> QED
    BY <2>1, <2>2, <2>4
<1>8. StreamsInOrder'
  BY <1>6, <1>7 DEF StreamsInOrder
<1> QED
  BY <1>4, <1>5, <1>8

LEMMA WriteStep ==
  ASSUME IInv, NEW s \in Names, WriteByte(s)
  PROVE  IInv'
<1>1. /\ pump[s] = "write" /\ buffer' = Append(buffer, NextByte(held[s]))
      /\ held' = [held EXCEPT ![s] = Unwritten(held[s])]
      /\ pump' = IF held'[s] = <<>> THEN [pump EXCEPT ![s] = "loop"] ELSE pump
      /\ UNCHANGED <<main, child, written, pipe, done, open>>
  BY DEF WriteByte
<1>2. held[s] \in Seq(Byte) /\ held[s] # <<>> /\ Len(held[s]) <= BufSize
  BY <1>1 DEF IInv, Typed
<1>3. /\ NextByte(held[s]) = held[s][1] /\ held[s][1] \in Byte /\ Len(held[s]) \in Nat \ {0}
      /\ Unwritten(held[s]) \in Seq(Byte) /\ Len(Unwritten(held[s])) = Len(held[s]) - 1
      /\ \A j \in 1..(Len(held[s]) - 1) : Unwritten(held[s])[j] = held[s][j + 1]
  BY <1>2, BlockFacts
<1>4. held'[s] = Unwritten(held[s])
  BY <1>1 DEF IInv, Typed
<1>5. Typed'
  <2>1. held' \in [Names -> Seq(Byte)]
    BY <1>1, <1>3 DEF IInv, Typed
  <2>2. \A t \in Names : Len(held'[t]) <= BufSize
    BY <1>1, <1>2, <1>3, <1>4, SizesAssumption DEF IInv, Typed
  <2>3. pump' \in [Names -> {"off", "loop", "read", "write", "stopped"}]
    BY <1>1 DEF IInv, Typed
  <2>4. \A t \in Names : (pump'[t] = "write") = (held'[t] # <<>>)
    <3>1. (pump'[s] = "write") = (held'[s] # <<>>)
      BY <1>1 DEF IInv, Typed
    <3>2. \A t \in Names \ {s} : pump'[t] = pump[t] /\ held'[t] = held[t]
      BY <1>1 DEF IInv, Typed
    <3> QED
      BY <3>1, <3>2 DEF IInv, Typed
  <2>5. buffer' \in Seq(Byte)
    BY <1>1, <1>3, AppendProperties DEF IInv, Typed
  <2> QED
    BY <1>1, <2>1, <2>2, <2>3, <2>4, <2>5 DEF IInv, Typed
<1>6. NotYet'
  BY <1>1, StreamFacts DEF IInv, NotYet, Typed
<1>7. PICK n \in Nat : InLine(s, n)
  BY DEF IInv, Lined
<1>8. held[s][1] = <<s, n + 1>>
  BY <1>3, <1>7 DEF InLine
<1>9. StreamsInOrder' /\ Collected(s, n + 1)' /\ \A t, m : t # s => Collected(t, m)' = Collected(t, m)
  <2>1. buffer \in Seq(Byte) /\ StreamsInOrder /\ Collected(s, n)
    BY <1>7 DEF IInv, Typed, InLine
  <2>2. buffer' = Append(buffer, <<s, n + 1>>) /\ <<s, n + 1>> \in Byte
    BY <1>1, <1>3, <1>8
  <2> QED
    BY <2>1, <2>2, NextInOrder
<1>10. InLine(s, n + 1)'
  <2>1. /\ n + Len(held[s]) + Len(pipe[s]) = written[s]
        /\ \A j \in 1..Len(held[s]) : held[s][j] = <<s, n + j>>
        /\ \A j \in 1..Len(pipe[s]) : pipe[s][j] = <<s, n + Len(held[s]) + j>>
    BY <1>7 DEF InLine
  <2>2. Len(held'[s]) = Len(held[s]) - 1 /\ Len(pipe[s]) \in Nat
    BY <1>3, <1>4, LenProperties DEF IInv, Typed
  <2>3. n + 1 + Len(held'[s]) = n + Len(held[s])
    BY <2>2, <1>3, <1>5 DEF IInv, Typed
  <2>4. ASSUME NEW j \in 1..Len(held'[s])
        PROVE  held'[s][j] = <<s, n + 1 + j>>
    <3>1. j \in 1..(Len(held[s]) - 1) /\ j + 1 \in 1..Len(held[s]) /\ n + (j + 1) = n + 1 + j
      BY <2>2, <1>3
    <3>2. held'[s][j] = held[s][j + 1]
      BY <3>1, <1>3, <1>4
    <3>3. held[s][j + 1] = <<s, n + (j + 1)>>
      BY <3>1, <2>1
    <3> QED
      BY <3>1, <3>2, <3>3
  <2>5. pipe' = pipe /\ written' = written
    BY <1>1
  <2> QED
    BY <2>1, <2>3, <2>4, <2>5, <1>9 DEF InLine
<1>11. \A t \in Names \ {s} : \E m \in Nat : InLine(t, m)'
  <2>1. \A t \in Names \ {s} : /\ written'[t] = written[t] /\ pipe'[t] = pipe[t] /\ held'[t] = held[t]
                               /\ \A m : Collected(t, m)' = Collected(t, m)
    BY <1>1, <1>9 DEF IInv, Typed
  <2> QED
    BY <2>1, OthersInLine DEF IInv
<1>12. Lined'
  <2>1. n + 1 \in Nat
    OBVIOUS
  <2> QED
    BY <1>10, <1>11, <2>1 DEF Lined
<1> QED
  BY <1>5, <1>6, <1>9, <1>12 DEF IInv
-----------------------------------------------------------------------------
(* The theorem.                                                             *)

LEMMA Initially == Init => IInv
<1> SUFFICES ASSUME Init
             PROVE  IInv
  OBVIOUS
<1>1. /\ <<>> \in Seq(Byte) /\ Len(<<>>) = 0 /\ DOMAIN <<>> = {}
  BY EmptySeq, LenProperties
<1>2. Typed
  BY <1>1, SizesAssumption DEF Init, Typed, Place
<1>3. NotYet
  BY DEF Init, NotYet
<1>4. ASSUME NEW s \in Names
      PROVE  InLine(s, 0)
  <2>1. Collected(s, 0)
    BY <1>1 DEF Init, Collected, ToSet
  <2>2. held[s] = <<>> /\ pipe[s] = <<>> /\ written[s] = 0
    BY DEF Init
  <2> QED
    BY <2>1, <2>2, <1>1 DEF InLine
<1>5. StreamsInOrder
  BY <1>1 DEF Init, StreamsInOrder, IsInjective
<1> QED
  BY <1>2, <1>3, <1>4, <1>5 DEF IInv, Lined

LEMMA Step == IInv /\ [Next]_vars => IInv'
<1> SUFFICES ASSUME IInv, [Next]_vars
             PROVE  IInv'
  OBVIOUS
<1>1. ASSUME UNCHANGED vars PROVE IInv'
  <2>1. UNCHANGED <<main, child, written, pipe, pump, held, done, open, buffer>>
    BY <1>1 DEF vars
  <2>2. Lined' /\ StreamsInOrder'
    BY <2>1, QuietStep DEF IInv
  <2> QED
    BY <2>1, <2>2 DEF IInv, Typed, NotYet
<1>2. ASSUME NEW s \in Names, Pump(s) PROVE IInv'
  BY <1>2, TestOrEndStep, ReadStep, WriteStep DEF Pump
<1> QED
  BY <1>1, <1>2, MainStep, ChildStep DEF Next, Over

\* At every moment the bytes of a stream lie in order in the buffer, with the pump and
\* in the pipe.
LEMMA Inductive == Spec => []IInv
<1>1. Init => IInv
  BY Initially
<1>2. IInv /\ [Next]_vars => IInv'
  BY Step
<1> QED
  BY <1>1, <1>2, PTL DEF Spec

\* What lies in order behind the buffer is the rest of what the child wrote.
LEMMA LinedNothingLost == Typed /\ Lined => NothingLostWhileOpen
<1> SUFFICES ASSUME Typed, Lined, NEW s \in Names
             PROVE  \E n \in 0..written[s] : Collected(s, n) /\ held[s] \o pipe[s] = Bytes(s, n, written[s])
  BY DEF NothingLostWhileOpen
<1>1. PICK n \in Nat : InLine(s, n)
  BY DEF Lined
<1>2. /\ held[s] \in Seq(Byte) /\ pipe[s] \in Seq(Byte) /\ written[s] \in Nat
      /\ Len(held[s]) \in Nat /\ Len(pipe[s]) \in Nat
  BY LenProperties DEF Typed
<1>3. /\ Collected(s, n) /\ n + Len(held[s]) + Len(pipe[s]) = written[s]
      /\ \A j \in 1..Len(held[s]) : held[s][j] = <<s, n + j>>
      /\ \A j \in 1..Len(pipe[s]) : pipe[s][j] = <<s, n + Len(held[s]) + j>>
  BY <1>1 DEF InLine
<1>4. n \in 0..written[s] /\ written[s] - n = Len(held[s]) + Len(pipe[s])
  BY <1>2, <1>3 DEF Typed
<1> DEFINE rest == held[s] \o pipe[s]
<1>5. /\ rest \in Seq(Byte) /\ Len(rest) = Len(held[s]) + Len(pipe[s])
      /\ \A j \in 1..(Len(held[s]) + Len(pipe[s])) :
           rest[j] = IF j <= Len(held[s]) THEN held[s][j] ELSE pipe[s][j - Len(held[s])]
  BY <1>2, ConcatProperties
<1>6. DOMAIN rest = 1..(written[s] - n)
  BY <1>4, <1>5, LenProperties
<1>7. ASSUME NEW j \in 1..(written[s] - n)
      PROVE  rest[j] = <<s, n + j>>
  <2>1. CASE j <= Len(held[s])
    <3>1. j \in 1..Len(held[s]) /\ j \in 1..(Len(held[s]) + Len(pipe[s]))
      BY <2>1, <1>2, <1>4 DEF Typed
    <3>2. rest[j] = held[s][j]
      BY <3>1, <2>1, <1>5
    <3> QED
      BY <3>1, <3>2, <1>3
  <2>2. CASE ~(j <= Len(held[s]))
    <3>1. /\ j - Len(held[s]) \in 1..Len(pipe[s]) /\ j \in 1..(Len(held[s]) + Len(pipe[s]))
          /\ n + Len(held[s]) + (j - Len(held[s])) = n + j
      BY <2>2, <1>2, <1>4 DEF Typed
    <3>2. rest[j] = pipe[s][j - Len(held[s])]
      BY <3>1, <2>2, <1>5
    <3>3. pipe[s][j - Len(held[s])] = <<s, n + Len(held[s]) + (j - Len(held[s]))>>
      BY <3>1, <1>3
    <3> QED
      BY <3>1, <3>2, <3>3
  <2> QED
    BY <2>1, <2>2
<1>8. rest = Bytes(s, n, written[s])
  <2>1. rest = [j \in 1..(written[s] - n) |-> rest[j]]
    BY <1>5, <1>6, LenProperties
  <2> HIDE DEF rest
  <2>2. [j \in 1..(written[s] - n) |-> rest[j]] = [j \in 1..(written[s] - n) |-> <<s, n + j>>]
    BY <1>7
  <2> QED
    BY <2>1, <2>2 DEF Bytes
<1> QED
  BY <1>3, <1>4, <1>8

\* Whatever the order of caller, pumps and child: the buffer has the first bytes of each
\* stream, once each and in order, and until a stream is closed what is missing is with
\* its pump or in its pipe.
THEOREM OutputIsRight == Spec => []OutputRight
<1>1. IInv => OutputRight
  <2> SUFFICES ASSUME IInv
               PROVE  OutputRight
    OBVIOUS
  <2>1. TypeOK
    BY SizesAssumption DEF IInv, Typed, TypeOK, Place
  <2>2. NothingLostWhileOpen
    BY LinedNothingLost DEF IInv
  <2> QED
    BY <2>1, <2>2 DEF IInv, OutputRight
<1> QED
  BY <1>1, Inductive, PTL
=============================================================================
