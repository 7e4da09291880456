------------------------------ MODULE SensorLink ------------------------------
(***************************************************************************)
(* Get_Energy (codes/scr/main.cpp): ask the sensor for a sample over the   *)
(* serial line, collect the answer up to a line feed, scan six numbers out *)
(* of it and ask again when they are not there.                            *)
(*                                                                         *)
(* The answers are collected in the local array dat.  Its index is set to  *)
(* 0 once per call and NOT when the sensor is asked again, so a new answer *)
(* is appended to the refused one.  dat has no terminator: sscanf reads on *)
(* into whatever the stack holds.                                          *)
(*                                                                         *)
(* The serial driver is its abstract specification, SerialFifo.  The       *)
(* sensor (external) answers each request with one line, unless it is one  *)
(* of the faulty kinds.                                                    *)
(***************************************************************************)
EXTENDS Naturals, Sequences, Subsequences

CONSTANTS
  SERIAL_BUFFER_SIZE,
  MaxBytes,   \* bound: bytes the sensor may ever send
  Fields,     \* numbers in an answer, 6 in the code
  DatSize,    \* elements of dat, 200 in the code
  BlankCuts,  \* bound: numbers a line of a "blank" sensor may be cut to
  Sensors,    \* kinds of sensor considered: "good" or what may go wrong with it
  MaxCalls    \* bound: calls of Get_Energy

SensorKinds == {"good", "truncated", "blank", "garbled", "chatty"}

ASSUME SensorAssumption ==
  /\ {SERIAL_BUFFER_SIZE, MaxBytes, Fields, DatSize, MaxCalls} \subseteq Nat
  /\ Fields > 0
  /\ Fields + 1 < SERIAL_BUFFER_SIZE  \* an answer is far from filling the ring
  /\ 3 * Fields - 1 <= DatSize        \* see AnswersFit
  /\ BlankCuts \subseteq 0..(Fields - 1)
  /\ Sensors \subseteq SensorKinds

VARIABLES
  line, queue, arrived, last,  \* the serial driver
  sensor,   \* the kind of sensor on the line, which does not change
  stream,   \* what the bytes on the line were: stream[n] is byte n
  toSend,   \* sensor: the rest of its answers
  pc,       \* where Get_Energy is; "idle" between calls
  dat,      \* dat[0 .. dat_i - 1], each byte by the number of its arrival
  angle,    \* angle_x .. g_z, as the byte each was read from; 0: from the stack
  asked,    \* requests sent
  since,    \* history: requests sent before the call
  calls     \* calls so far

Serial == INSTANCE SerialFifo
serial == <<line, queue, arrived, last>>
vars == <<serial, sensor, stream, toSend, pc, dat, angle, asked, since, calls>>

\* A number is one byte here, and so is text that is not one.
Num(r, k) == [kind |-> "num", reply |-> r, field |-> k]
LF        == [kind |-> "lf", reply |-> 0, field |-> 0]
Text      == [kind |-> "text", reply |-> 0, field |-> 0]

\* What byte b was; byte 0 is a number that happens to be on the stack.
Symbol(b) == IF b = 0 THEN Num(0, 0) ELSE stream[b]

\* The first n numbers of the r-th sample, with the line feed.
Cut(r, n) == Append([k \in 1..n |-> Num(r, k)], LF)
Full(r) == Cut(r, Fields)

\* What the sensor may send when it is asked for the r-th time: the sample, a line
\* cut short, one that is cut down to its line feed as well, one that starts with
\* text, nothing or two samples.
Answers(r) ==
  {Full(r)} \cup
  CASE sensor = "good" -> {}
    [] sensor = "truncated" -> {Cut(r, n) : n \in 1..(Fields - 1)}
    [] sensor = "blank" -> {Cut(r, n) : n \in BlankCuts}
    [] sensor = "garbled" -> {<<Text, LF>>}
    [] sensor = "chatty" -> {<<>>, Full(r) \o Full(r)}

Init ==
  /\ Serial!Init
  /\ sensor \in Sensors
  /\ stream = <<>>
  /\ toSend = <<>>
  /\ pc = "idle"
  /\ dat = <<>>
  /\ angle = [k \in 1..Fields |-> 0]
  /\ asked = 0
  /\ since = 0
  /\ calls = 0

-----------------------------------------------------------------------------
SensorSend ==
  /\ toSend # <<>>
  /\ Serial!Arrive
  /\ stream' = Append(stream, Head(toSend))
  /\ toSend' = Tail(toSend)
  /\ UNCHANGED <<sensor, pc, dat, angle, asked, since, calls>>

\* Bug: dat_i keeps its value, like a static variable.
CallStatic ==
  /\ pc = "idle"
  /\ calls < MaxCalls
  /\ calls' = calls + 1
  /\ since' = asked
  /\ pc' = "ask"
  /\ UNCHANGED <<serial, sensor, stream, toSend, dat, angle, asked>>

Call ==
  /\ pc = "idle"
  /\ calls < MaxCalls
  /\ calls' = calls + 1
  /\ since' = asked
  /\ dat' = <<>>
  /\ pc' = "ask"
  /\ UNCHANGED <<serial, sensor, stream, toSend, angle, asked>>

\* READ_SENSOR: Serial.print('1').
Ask ==
  /\ pc = "ask"
  /\ asked' = asked + 1
  /\ \E answer \in Answers(asked + 1) : toSend' = toSend \o answer
  /\ pc' = "wait"
  /\ UNCHANGED <<serial, sensor, stream, dat, angle, since, calls>>

\* serialEventRun() receives what is on the line, if anything is.
SerialEvent == Serial!Receive \/ (line = <<>> /\ UNCHANGED serial)

\* Bug: waiting without receiving.
WaitIdle ==
  /\ pc = "wait"
  /\ queue # <<>>
  /\ pc' = "byte"
  /\ UNCHANGED <<serial, sensor, stream, toSend, dat, angle, asked, since, calls>>

\* while (Serial.available() == 0) serialEventRun()
Wait ==
  /\ pc = "wait"
  /\ \/ queue = <<>> /\ Serial!Receive /\ pc' = pc
     \/ queue # <<>> /\ pc' = "byte" /\ UNCHANGED serial
  /\ UNCHANGED <<sensor, stream, toSend, dat, angle, asked, since, calls>>

\* do: store a byte, if there is one.  Past the end of dat anything may happen.
StoreByte ==
  /\ pc = "byte"
  /\ \/ /\ queue # <<>>
        /\ Serial!Read
        /\ dat' = Append(dat, last')
        /\ pc' = IF Len(dat) = DatSize THEN "overrun" ELSE "event"
     \/ /\ queue = <<>>
        /\ pc' = "event"
        /\ UNCHANGED <<serial, dat>>
  /\ UNCHANGED <<sensor, stream, toSend, angle, asked, since, calls>>

\* ... receive, and go on while the last byte stored is not a line feed.
EventInLoop ==
  /\ pc = "event"
  /\ SerialEvent
  /\ pc' = IF Symbol(dat[Len(dat)]) = LF THEN "drain" ELSE "byte"
  /\ UNCHANGED <<sensor, stream, toSend, dat, angle, asked, since, calls>>

\* Throw away what was received behind the line feed, without receiving more.
Drain ==
  /\ pc = "drain"
  /\ \/ queue # <<>> /\ Serial!Read /\ pc' = pc
     \/ queue = <<>> /\ pc' = "parse" /\ UNCHANGED serial
  /\ UNCHANGED <<sensor, stream, toSend, dat, angle, asked, since, calls>>

\* The numbers sscanf finds: a line feed is white space, text stops it.
Shown == {i \in DOMAIN dat : Symbol(dat[i]) # LF}
Visible(stale) == Picked(dat, Shown) \o stale
Scanned(s) == {k \in 1..Fields : k <= Len(s) /\ \A m \in 1..k : Symbol(s[m]).kind = "num"}

Parse ==
  /\ pc = "parse"
  /\ \E n \in 0..Fields :
       LET s == Visible([k \in 1..n |-> 0])
       IN  /\ angle' = [k \in 1..Fields |-> IF k \in Scanned(s) THEN s[k] ELSE angle[k]]
           /\ pc' = IF Scanned(s) = 1..Fields THEN "idle" ELSE "ask"
  /\ UNCHANGED <<serial, sensor, stream, toSend, dat, asked, since, calls>>

Get_Energy == Ask \/ Wait \/ StoreByte \/ EventInLoop \/ Drain \/ Parse

Next == SensorSend \/ Call \/ Get_Energy

Spec == Init /\ [][Next]_vars

\* The program's only thread keeps running Get_Energy, and a sensor that has
\* started an answer finishes it.
FairSpec == Spec /\ WF_vars(Get_Energy) /\ WF_vars(SensorSend)

-----------------------------------------------------------------------------
\* Types and ranges; and the do loop has read a byte when it looks at the last one.
TypeOK ==
  /\ arrived \in 0..MaxBytes /\ last \in 0..MaxBytes
  /\ line \in Seq(1..MaxBytes) /\ queue \in Seq(1..MaxBytes)
  /\ Len(stream) = arrived
  /\ pc \in {"idle", "ask", "wait", "byte", "event", "drain", "parse", "overrun"}
  /\ angle \in [1..Fields -> 0..arrived]
  /\ since \in 0..asked
  /\ calls \in 0..MaxCalls
  /\ pc = "event" => dat # <<>>

Returned == pc = "idle" /\ calls > 0

\* One line for each request, whole or cut short anywhere.
Steady == sensor \in {"good", "truncated", "blank"}

\* With a sensor that answers every request with one full line, Get_Energy
\* returns the numbers of the answer to its own request: bytes left over from
\* the call before never reach the sample.
FreshSample ==
  sensor = "good" /\ Returned => \A k \in 1..Fields : Symbol(angle[k]) = Num(asked, k)

\* Lines cut short are put together, one behind the other, until they have numbers
\* enough: the sample mixes the answers to several requests, but only to requests of
\* this call, apart from numbers that happened to be on the stack.
SampleFromOwnCall ==
  Steady /\ Returned =>
    \A k \in 1..Fields : Symbol(angle[k]).reply \in {0} \cup (since + 1)..asked

\* Whatever the sensor sends, and whatever is lost in between, the numbers of a
\* sample arrived in the order of its fields, none is used for two of them, and
\* numbers from the stack are the last ones.
SampleInOrder ==
  Returned => \A j, k \in 1..Fields :
                j < k /\ angle[k] # 0 => 0 < angle[j] /\ angle[j] < angle[k]

\* As long as each line has a number, a call asks at most once for each field, so it
\* mixes no more answers than that, and dat is not overrun: at worst Fields - 1 lines
\* of one number are followed by a whole one.  Of bare line feeds nothing is said:
\* they are never parsed and fill dat.
AnswersFit ==
  sensor \in {"good", "truncated"} =>
    /\ pc # "overrun"
    /\ Len(dat) <= 3 * Fields - 1
    /\ asked - since <= Fields

\* A call returns, whatever the pace of the line, when every line has a number.
CallReturns ==
  pc = "ask" /\ sensor \in {"good", "truncated"} ~> pc = "idle"

\* dat_i is not reset before a retry: once an answer starts with text, every
\* further answer is appended behind it, so the call never returns and, when
\* the sensor goes on answering, runs off the end of dat.
GarbleOverruns ==
  pc = "parse" /\ Symbol(dat[1]) = Text /\ sensor = "garbled" ~> pc = "overrun"

\* The call waits for a byte, or for the rest of a line, and none is on its way.
Waiting ==
  /\ \/ pc = "wait"
     \/ pc \in {"byte", "event"} /\ dat # <<>> /\ Symbol(dat[Len(dat)]) # LF
  /\ queue = <<>> /\ line = <<>>
  /\ toSend = <<>> \/ arrived = MaxBytes

\* Whatever the sensor does, a call ends in one of three ways: it returns, it runs off
\* the end of dat, or it waits for a sensor that has fallen silent, or for a line feed
\* lost in the full ring.  The third it does for ever: there is no timeout.
SilenceOnly ==
  /\ pc = "ask" ~> pc \in {"idle", "overrun"} \/ Waiting
  /\ [](Waiting => []Waiting)

\* What a sample is made of, and what the answers do to dat: the parts above in one
\* invariant, types included.
SampleSound ==
  TypeOK /\ FreshSample /\ SampleFromOwnCall /\ SampleInOrder /\ AnswersFit

\* How a call ends: it returns when every line has a number; it runs off the end of dat
\* when an answer began with text and the sensor goes on; and nothing but silence or a
\* lost line feed, without limit of time, keeps it from one or the other.
CallsEnd == CallReturns /\ GarbleOverruns /\ SilenceOnly
=============================================================================
