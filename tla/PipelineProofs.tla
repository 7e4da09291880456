----------------------------- MODULE PipelineProofs -----------------------------
(***************************************************************************)
(* The program without its sessions.  The main loop: what is output is new *)
(* and counted, and a program that ends does so in one of the ways listed. *)
(* The command line: its last word counts.  The conversion of a frame:     *)
(* every byte in its place, whatever the size.                             *)
(***************************************************************************)
EXTENDS VideoPipeline, CommandLine, YuvTransform, CommonProofs, TLAPS

-----------------------------------------------------------------------------
(***************************************************************************)
(* The main loop, for every set of options, every limit, any number of     *)
(* frames and NAL units.                                                   *)
(***************************************************************************)

Starting == {"params", "video", "x264", "rtp"}
Ready == {"loop", "capture", "output"}
Handled == {"send", "mode", "count"}
Leaving == {"exit", "rtp_end", "x264_end", "video_exit"}

\* The sensor gate: frames are recorded after enough equal samples only, and those
\* come in real-time mode with the sensor on.
GateInv ==
  /\ sensor_state = 0 => stable_num < StableNeeded
  /\ yuv /\ (opt.run_mode # 0 \/ ~opt.energy_get) => sensor_state = 0 /\ outputs = 0

\* Between output and counting there is one frame more than was counted.
CountInv ==
  /\ pc \in Starting \cup Ready \cup Leaving => outputs = frame_number
  /\ pc \in Handled => outputs = frame_number + (IF Counted THEN 1 ELSE 0)
  /\ pc \in Starting \cup Ready \cup Handled => frame_number <= MaxFrameNumber
  /\ yuv /\ (opt.run_mode # 0 \/ ~opt.energy_get) => frame_number = 0

\* A frame that is about to go out is new.
FreshInv == pc = "output" /\ opt.run_mode \in {0, 1} => raw = "new"

\* In which order the devices are opened and closed.
DeviceInv ==
  /\ pc \in Starting \cup Ready \cup Handled \cup Leaving \cup Ended
  /\ opt.run_mode # 0 => camera \in {"closed", "error"}
  /\ opt.run_mode # 0 /\ camera = "error" => pc = "failed"
  /\ pc \in {"x264_end", "video_exit"} => session # "created"
  /\ pc = "video_exit" => encoder # "open"
  /\ pc = "capture" => opt.run_mode = 0
  /\ pc \in {"rtp"} \cup Ready \cup Handled => encoder \in {"open", "unopened"}

\* What main keeps to: inductive.
IInv == TypeOK /\ GateInv /\ CountInv /\ FreshInv /\ DeviceInv /\ EndCauses

-----------------------------------------------------------------------------
\* Nothing has happened at the start.
LEMMA InitIInv == Init => IInv
<1> SUFFICES ASSUME Init PROVE IInv
  OBVIOUS
<1>1. TypeOK
  BY PipelineAssumption DEF Init, TypeOK
<1>2. GateInv /\ CountInv /\ FreshInv
  BY PipelineAssumption DEF Init, GateInv, CountInv, FreshInv, Starting, Handled, Ready, Leaving
<1>3. DeviceInv /\ EndCauses
  BY DEF Init, DeviceInv, EndCauses, CrashCauses, OrderlyEnd, Starting, Handled, Ready
<1> QED
  BY <1>1, <1>2, <1>3 DEF IInv

-----------------------------------------------------------------------------
(* One lemma per action of main.                                            *)

\* Nothing is counted or output before the loop.
LEMMA Global_Para_InitIInv ==
  ASSUME IInv, Global_Para_Init
  PROVE  IInv'
<1> USE PipelineAssumption DEF IInv, Global_Para_Init, devices, frame, sensor, coding
<1>1. TypeOK'
  BY DEF TypeOK, GateInv, CountInv, Counted, yuv, Starting, Ready, Handled, Leaving
<1>2. GateInv' /\ FreshInv'
  BY DEF TypeOK, GateInv, CountInv, FreshInv, yuv, Starting, Ready, Handled, Leaving
<1>3. CountInv'
  BY DEF TypeOK, GateInv, CountInv, Counted, yuv, Starting, Ready, Handled, Leaving
<1>4. DeviceInv' /\ EndCauses'
  BY DEF TypeOK, DeviceInv, EndCauses, CrashCauses, OrderlyEnd, Files, yuv,
         Starting, Ready, Handled, Leaving, Ended
<1> QED
  BY <1>1, <1>2, <1>3, <1>4

\* The camera streams in real-time mode alone.
LEMMA Video_InitIInv ==
  ASSUME IInv, Video_Init
  PROVE  IInv'
<1> USE PipelineAssumption DEF IInv, Video_Init, devices, frame, sensor, coding
<1>1. TypeOK'
  BY DEF TypeOK, GateInv, CountInv, Counted, yuv, Starting, Ready, Handled, Leaving
<1>2. GateInv' /\ FreshInv'
  BY DEF TypeOK, GateInv, CountInv, FreshInv, yuv, Starting, Ready, Handled, Leaving
<1>3. CountInv'
  BY DEF TypeOK, GateInv, CountInv, Counted, yuv, Starting, Ready, Handled, Leaving
<1>4. DeviceInv' /\ EndCauses'
  BY DEF TypeOK, DeviceInv, EndCauses, CrashCauses, OrderlyEnd, Files, yuv,
         Starting, Ready, Handled, Leaving, Ended
<1> QED
  BY <1>1, <1>2, <1>3, <1>4

\* An encoder that did not open is remembered.
LEMMA X264_initIInv ==
  ASSUME IInv, X264_init
  PROVE  IInv'
<1> USE PipelineAssumption DEF IInv, X264_init, devices, frame, sensor, coding
<1>1. TypeOK'
  BY DEF TypeOK, GateInv, CountInv, Counted, yuv, Starting, Ready, Handled, Leaving
<1>2. GateInv' /\ FreshInv'
  BY DEF TypeOK, GateInv, CountInv, FreshInv, yuv, Starting, Ready, Handled, Leaving
<1>3. CountInv'
  BY DEF TypeOK, GateInv, CountInv, Counted, yuv, Starting, Ready, Handled, Leaving
<1>4. DeviceInv' /\ EndCauses'
  BY DEF TypeOK, DeviceInv, EndCauses, CrashCauses, OrderlyEnd, Files, yuv,
         Starting, Ready, Handled, Leaving, Ended
<1> QED
  BY <1>1, <1>2, <1>3, <1>4

\* The session is created or there is none.
LEMMA RTP_initIInv ==
  ASSUME IInv, RTP_init
  PROVE  IInv'
<1> USE PipelineAssumption DEF IInv, RTP_init, devices, frame, sensor, coding
<1>1. TypeOK'
  BY DEF TypeOK, GateInv, CountInv, Counted, yuv, Starting, Ready, Handled, Leaving
<1>2. GateInv' /\ FreshInv'
  BY DEF TypeOK, GateInv, CountInv, FreshInv, yuv, Starting, Ready, Handled, Leaving
<1>3. CountInv'
  BY DEF TypeOK, GateInv, CountInv, Counted, yuv, Starting, Ready, Handled, Leaving
<1>4. DeviceInv' /\ EndCauses'
  BY DEF TypeOK, DeviceInv, EndCauses, CrashCauses, OrderlyEnd, Files, yuv,
         Starting, Ready, Handled, Leaving, Ended
<1> QED
  BY <1>1, <1>2, <1>3, <1>4

\* In real-time mode without recording the sensor counts as stable.
LEMMA SensorGateIInv ==
  ASSUME IInv, SensorGate
  PROVE  IInv'
<1> USE PipelineAssumption DEF IInv, SensorGate, StableSample, devices, frame, sensor, coding
<1>1. TypeOK'
  BY DEF TypeOK, GateInv, CountInv, Counted, yuv, Starting, Ready, Handled, Leaving
<1>2. GateInv' /\ FreshInv'
  BY DEF TypeOK, GateInv, CountInv, FreshInv, yuv, Starting, Ready, Handled, Leaving
<1>3. CountInv'
  BY DEF TypeOK, GateInv, CountInv, Counted, yuv, Starting, Ready, Handled, Leaving
<1>4. DeviceInv' /\ EndCauses'
  BY DEF TypeOK, DeviceInv, EndCauses, CrashCauses, OrderlyEnd, Files, yuv,
         Starting, Ready, Handled, Leaving, Ended
<1> QED
  BY <1>1, <1>2, <1>3, <1>4

\* The frame captured is new.
LEMMA Video_CaptureIInv ==
  ASSUME IInv, Video_Capture
  PROVE  IInv'
<1> USE PipelineAssumption DEF IInv, Video_Capture, devices, frame, sensor, coding
<1>1. TypeOK'
  BY DEF TypeOK, GateInv, CountInv, Counted, yuv, Starting, Ready, Handled, Leaving
<1>2. GateInv' /\ FreshInv'
  BY DEF TypeOK, GateInv, CountInv, FreshInv, yuv, Starting, Ready, Handled, Leaving
<1>3. CountInv'
  BY DEF TypeOK, GateInv, CountInv, Counted, yuv, Starting, Ready, Handled, Leaving
<1>4. DeviceInv' /\ EndCauses'
  BY DEF TypeOK, DeviceInv, EndCauses, CrashCauses, OrderlyEnd, Files, yuv,
         Starting, Ready, Handled, Leaving, Ended
<1> QED
  BY <1>1, <1>2, <1>3, <1>4

\* The frame read is new; without an input file main crashes.
LEMMA ReadInputIInv ==
  ASSUME IInv, ReadInput
  PROVE  IInv'
<1> USE PipelineAssumption DEF IInv, ReadInput, devices, frame, sensor, coding
<1>1. TypeOK'
  BY DEF TypeOK, GateInv, CountInv, Counted, yuv, Starting, Ready, Handled, Leaving
<1>2. GateInv' /\ FreshInv'
  BY DEF TypeOK, GateInv, CountInv, FreshInv, yuv, Starting, Ready, Handled, Leaving
<1>3. CountInv'
  BY DEF TypeOK, GateInv, CountInv, Counted, yuv, Starting, Ready, Handled, Leaving
<1>4. DeviceInv' /\ EndCauses'
  BY DEF TypeOK, DeviceInv, EndCauses, CrashCauses, OrderlyEnd, Files, yuv,
         Starting, Ready, Handled, Leaving, Ended
<1> QED
  BY <1>1, <1>2, <1>3, <1>4

\* Modes without a source have no frame.
LEMMA NoSourceIInv ==
  ASSUME IInv, NoSource
  PROVE  IInv'
<1> USE PipelineAssumption DEF IInv, NoSource, devices, frame, sensor, coding
<1>1. TypeOK'
  BY DEF TypeOK, GateInv, CountInv, Counted, yuv, Starting, Ready, Handled, Leaving
<1>2. GateInv' /\ FreshInv'
  BY DEF TypeOK, GateInv, CountInv, FreshInv, yuv, Starting, Ready, Handled, Leaving
<1>3. CountInv'
  BY DEF TypeOK, GateInv, CountInv, Counted, yuv, Starting, Ready, Handled, Leaving
<1>4. DeviceInv' /\ EndCauses'
  BY DEF TypeOK, DeviceInv, EndCauses, CrashCauses, OrderlyEnd, Files, yuv,
         Starting, Ready, Handled, Leaving, Ended
<1> QED
  BY <1>1, <1>2, <1>3, <1>4

\* A frame written will be counted: the sensor is still stable then.
LEMMA WriteYUVIInv ==
  ASSUME IInv, WriteYUV
  PROVE  IInv'
<1> USE PipelineAssumption DEF IInv, WriteYUV, devices, frame, sensor, coding
<1>1. TypeOK'
  BY DEF TypeOK, GateInv, CountInv, Counted, yuv, Starting, Ready, Handled, Leaving
<1>2. GateInv' /\ FreshInv'
  BY DEF TypeOK, GateInv, CountInv, FreshInv, yuv, Starting, Ready, Handled, Leaving
<1>3. CountInv'
  BY DEF TypeOK, GateInv, CountInv, Counted, yuv, Starting, Ready, Handled, Leaving
<1>4. DeviceInv' /\ EndCauses'
  BY DEF TypeOK, DeviceInv, EndCauses, CrashCauses, OrderlyEnd, Files, yuv,
         Starting, Ready, Handled, Leaving, Ended
<1> QED
  BY <1>1, <1>2, <1>3, <1>4

\* A frame encoded will be counted: nothing is recorded.
LEMMA encode_frameIInv ==
  ASSUME IInv, encode_frame
  PROVE  IInv'
<1> USE PipelineAssumption DEF IInv, encode_frame, devices, frame, sensor, coding
<1>1. TypeOK'
  BY DEF TypeOK, GateInv, CountInv, Counted, yuv, Starting, Ready, Handled, Leaving
<1>2. GateInv' /\ FreshInv'
  BY DEF TypeOK, GateInv, CountInv, FreshInv, yuv, Starting, Ready, Handled, Leaving
<1>3. CountInv'
  BY DEF TypeOK, GateInv, CountInv, Counted, yuv, Starting, Ready, Handled, Leaving
<1>4. DeviceInv' /\ EndCauses'
  BY DEF TypeOK, DeviceInv, EndCauses, CrashCauses, OrderlyEnd, Files, yuv,
         Starting, Ready, Handled, Leaving, Ended
<1> QED
  BY <1>1, <1>2, <1>3, <1>4

\* Sending changes no count.
LEMMA RTP_sendIInv ==
  ASSUME IInv, RTP_send
  PROVE  IInv'
<1> USE PipelineAssumption DEF IInv, RTP_send, devices, frame, sensor, coding
<1>1. TypeOK'
  BY DEF TypeOK, GateInv, CountInv, Counted, yuv, Starting, Ready, Handled, Leaving
<1>2. GateInv' /\ FreshInv'
  BY DEF TypeOK, GateInv, CountInv, FreshInv, yuv, Starting, Ready, Handled, Leaving
<1>3. CountInv'
  BY DEF TypeOK, GateInv, CountInv, Counted, yuv, Starting, Ready, Handled, Leaving
<1>4. DeviceInv' /\ EndCauses'
  BY DEF TypeOK, DeviceInv, EndCauses, CrashCauses, OrderlyEnd, Files, yuv,
         Starting, Ready, Handled, Leaving, Ended
<1> QED
  BY <1>1, <1>2, <1>3, <1>4

\* Optimization mode reads a pointer that leads nowhere.
LEMMA SetFrameTypeIInv ==
  ASSUME IInv, SetFrameType
  PROVE  IInv'
<1> USE PipelineAssumption DEF IInv, SetFrameType, devices, frame, sensor, coding
<1>1. TypeOK'
  BY DEF TypeOK, GateInv, CountInv, Counted, yuv, Starting, Ready, Handled, Leaving
<1>2. GateInv' /\ FreshInv'
  BY DEF TypeOK, GateInv, CountInv, FreshInv, yuv, Starting, Ready, Handled, Leaving
<1>3. CountInv'
  BY DEF TypeOK, GateInv, CountInv, Counted, yuv, Starting, Ready, Handled, Leaving
<1>4. DeviceInv' /\ EndCauses'
  BY DEF TypeOK, DeviceInv, EndCauses, CrashCauses, OrderlyEnd, Files, yuv,
         Starting, Ready, Handled, Leaving, Ended
<1> QED
  BY <1>1, <1>2, <1>3, <1>4

\* The frame output is counted, and the loop ends above the limit.
LEMMA CountFrameIInv ==
  ASSUME IInv, CountFrame
  PROVE  IInv'
<1> USE PipelineAssumption DEF IInv, CountFrame, devices, frame, sensor, coding
<1>1. TypeOK'
  BY DEF TypeOK, GateInv, CountInv, Counted, yuv, Starting, Ready, Handled, Leaving
<1>2. GateInv' /\ FreshInv'
  BY DEF TypeOK, GateInv, CountInv, FreshInv, yuv, Starting, Ready, Handled, Leaving
<1>3. CountInv'
  BY DEF TypeOK, GateInv, CountInv, Counted, yuv, Starting, Ready, Handled, Leaving
<1>4. DeviceInv' /\ EndCauses'
  BY DEF TypeOK, DeviceInv, EndCauses, CrashCauses, OrderlyEnd, Files, yuv,
         Starting, Ready, Handled, Leaving, Ended
<1> QED
  BY <1>1, <1>2, <1>3, <1>4

\* An output file that is closed without having been opened crashes main.
LEMMA Globlal_ExitIInv ==
  ASSUME IInv, Globlal_Exit
  PROVE  IInv'
<1> USE PipelineAssumption DEF IInv, Globlal_Exit, devices, frame, sensor, coding
<1>1. TypeOK'
  BY DEF TypeOK, GateInv, CountInv, Counted, yuv, Starting, Ready, Handled, Leaving
<1>2. GateInv' /\ FreshInv'
  BY DEF TypeOK, GateInv, CountInv, FreshInv, yuv, Starting, Ready, Handled, Leaving
<1>3. CountInv'
  BY DEF TypeOK, GateInv, CountInv, Counted, yuv, Starting, Ready, Handled, Leaving
<1>4. DeviceInv' /\ EndCauses'
  BY DEF TypeOK, DeviceInv, EndCauses, CrashCauses, OrderlyEnd, Files, yuv,
         Starting, Ready, Handled, Leaving, Ended
<1> QED
  BY <1>1, <1>2, <1>3, <1>4

\* The session is left.
LEMMA RTP_endIInv ==
  ASSUME IInv, RTP_end
  PROVE  IInv'
<1> USE PipelineAssumption DEF IInv, RTP_end, devices, frame, sensor, coding
<1>1. TypeOK'
  BY DEF TypeOK, GateInv, CountInv, Counted, yuv, Starting, Ready, Handled, Leaving
<1>2. GateInv' /\ FreshInv'
  BY DEF TypeOK, GateInv, CountInv, FreshInv, yuv, Starting, Ready, Handled, Leaving
<1>3. CountInv'
  BY DEF TypeOK, GateInv, CountInv, Counted, yuv, Starting, Ready, Handled, Leaving
<1>4. DeviceInv' /\ EndCauses'
  BY DEF TypeOK, DeviceInv, EndCauses, CrashCauses, OrderlyEnd, Files, yuv,
         Starting, Ready, Handled, Leaving, Ended
<1> QED
  BY <1>1, <1>2, <1>3, <1>4

\* The encoder is closed.
LEMMA X264_endIInv ==
  ASSUME IInv, X264_end
  PROVE  IInv'
<1> USE PipelineAssumption DEF IInv, X264_end, devices, frame, sensor, coding
<1>1. TypeOK'
  BY DEF TypeOK, GateInv, CountInv, Counted, yuv, Starting, Ready, Handled, Leaving
<1>2. GateInv' /\ FreshInv'
  BY DEF TypeOK, GateInv, CountInv, FreshInv, yuv, Starting, Ready, Handled, Leaving
<1>3. CountInv'
  BY DEF TypeOK, GateInv, CountInv, Counted, yuv, Starting, Ready, Handled, Leaving
<1>4. DeviceInv' /\ EndCauses'
  BY DEF TypeOK, DeviceInv, EndCauses, CrashCauses, OrderlyEnd, Files, yuv,
         Starting, Ready, Handled, Leaving, Ended
<1> QED
  BY <1>1, <1>2, <1>3, <1>4

\* The camera is closed last, when it was opened.
LEMMA Video_ExitIInv ==
  ASSUME IInv, Video_Exit
  PROVE  IInv'
<1> USE PipelineAssumption DEF IInv, Video_Exit, devices, frame, sensor, coding
<1>1. TypeOK'
  BY DEF TypeOK, GateInv, CountInv, Counted, yuv, Starting, Ready, Handled, Leaving
<1>2. GateInv' /\ FreshInv'
  BY DEF TypeOK, GateInv, CountInv, FreshInv, yuv, Starting, Ready, Handled, Leaving
<1>3. CountInv'
  BY DEF TypeOK, GateInv, CountInv, Counted, yuv, Starting, Ready, Handled, Leaving
<1>4. DeviceInv' /\ EndCauses'
  BY DEF TypeOK, DeviceInv, EndCauses, CrashCauses, OrderlyEnd, Files, yuv,
         Starting, Ready, Handled, Leaving, Ended
<1> QED
  BY <1>1, <1>2, <1>3, <1>4

-----------------------------------------------------------------------------
\* Every action of main keeps the invariant.
LEMMA NextIInv == IInv /\ [Next]_vars => IInv'
<1> SUFFICES ASSUME IInv, [Next]_vars PROVE IInv'
  OBVIOUS
<1>1. CASE UNCHANGED vars
  BY <1>1 DEF vars, IInv, TypeOK, GateInv, CountInv, Counted, FreshInv, DeviceInv, EndCauses,
              CrashCauses, OrderlyEnd, Files, yuv
<1> QED
  BY <1>1, Global_Para_InitIInv, Video_InitIInv, X264_initIInv, RTP_initIInv,
     SensorGateIInv, Video_CaptureIInv, ReadInputIInv, NoSourceIInv,
     WriteYUVIInv, encode_frameIInv, RTP_sendIInv, SetFrameTypeIInv,
     CountFrameIInv, Globlal_ExitIInv, RTP_endIInv, X264_endIInv,
     Video_ExitIInv, Zenon DEF Next

\* The invariant of every behaviour.
LEMMA Inductive == Spec => []IInv
  BY InitIInv, NextIInv, PTL DEF Spec

-----------------------------------------------------------------------------
(* Theorems.                                                                *)

\* The frames counted towards the limit are those output, never more than the limit
\* and one; recording without a sensor outputs nothing.
THEOREM CountsAreSound == Spec => []CountsSound
<1>1. IInv => CountsSound
  BY DEF IInv, CountsSound, CountsOutputs, RecordingNeedsSensor, CountInv, GateInv,
         Ready, Leaving
<1> QED
  BY <1>1, Inductive, PTL

\* Main crashes for one of three reasons, and takes its devices down in order.
THEOREM EndsForAReason == Spec => []EndCauses
<1>1. IInv => EndCauses
  BY DEF IInv
<1> QED
  BY <1>1, Inductive, PTL

\* In the two documented modes no frame goes out twice, and no uninitialized one.
THEOREM FramesAreFresh == Spec => OutputsFreshFrame
<1> DEFINE A == outputs' # outputs /\ opt.run_mode \in {0, 1} => raw = "new"
<1>1. IInv /\ [Next]_vars => [A]_vars
  <2> SUFFICES ASSUME IInv, Next, outputs' # outputs, opt.run_mode \in {0, 1}
               PROVE  raw = "new"
    OBVIOUS
  <2>1. pc = "output"
    <3>1. WriteYUV \/ encode_frame
      BY Zenon DEF Next, Global_Para_Init, Video_Init, X264_init, RTP_init, SensorGate,
             Video_Capture, ReadInput, NoSource, RTP_send, SetFrameType, CountFrame,
             Globlal_Exit, RTP_end, X264_end, Video_Exit, devices, frame
    <3> QED
      BY <3>1, Zenon DEF WriteYUV, encode_frame
  <2> QED
    BY <2>1 DEF IInv, FreshInv
<1> QED
  BY <1>1, Inductive, PTL DEF Spec, OutputsFreshFrame

-----------------------------------------------------------------------------
(***************************************************************************)
(* The command line, for any options in any order.                         *)
(***************************************************************************)

\* What the options so far say of the mode and of an output file, as values.
ModeSaid ==
  IF Modes = {} THEN 0
  ELSE IF given[LastOf(Modes)].name = "i" THEN 1 ELSE given[LastOf(Modes)].arg
FileSaid(name) == IF Named(name) = {} THEN "none" ELSE given[LastOf(Named(name))].arg

\* Each parameter is what the options so far say of it.
ParaFollows ==
  /\ DOMAIN para = {"width", "height", "number", "mv_range", "input", "run_mode",
                    "energy_get", "info", "yuv"}
  /\ para.width = WidthSaid /\ para.height = HeightSaid /\ para.mv_range = -1
  /\ para.input = InputSaid /\ para.run_mode = ModeSaid
  /\ para.info = FileSaid("o") /\ para.yuv = FileSaid("y")

\* The files are opened once, by the check, which a PC leaves without the sensor.
FilesFollow ==
  /\ stage # "checked" => files = {}
  /\ stage = "checked" =>
        /\ files = ({para.yuv, para.info} \ {"none"})
                      \cup (IF para.run_mode = 1 THEN {para.input} ELSE {})
        /\ platform = "PC" => para.energy_get = 0

OptionInv == given \in Seq(Option) /\ ParaFollows /\ FilesFollow

\* The last of some places is one of them, and a place behind them all is the last.
LEMMA LastIs ==
  ASSUME NEW n \in Nat, NEW at \in SUBSET (1..n)
  PROVE  /\ at # {} => LastOf(at) \in at
         /\ LastOf(at \cup {n + 1}) = n + 1
<1>1. ASSUME at # {} PROVE LastOf(at) \in at
  <2> DEFINE T == {m \in Nat : \A l \in at : m >= l}
  <2>1. n \in T
    OBVIOUS
  <2>2. PICK m \in T : \A y \in T : m <= y
    <3>1. T \in SUBSET Nat /\ T # {}
      BY <2>1
    <3> HIDE DEF T
    <3> QED
      BY <3>1, LeastNat
  <2>3. m \in at
    <3>1. SUFFICES ASSUME m \notin at PROVE FALSE
      OBVIOUS
    <3>2. \A l \in at : l \in 1..n /\ m >= l /\ l # m
      BY <3>1
    <3>3. m \in Nat /\ m # 0
      <4>1. PICK l \in at : l \in 1..n /\ m >= l
        BY <1>1, <3>2
      <4> QED
        BY <4>1
    <3>4. m - 1 \in T
      BY <3>2, <3>3
    <3> QED
      BY <2>2, <3>3, <3>4
  <2>4. m \in at \cup {0} /\ \A l \in at : m >= l
    BY <2>3
  <2>5. LastOf(at) \in at \cup {0} /\ \A l \in at : LastOf(at) >= l
    BY <2>4, Zenon DEF LastOf
  <2>6. LastOf(at) # 0
    <3>1. PICK l \in at : l \in 1..n /\ LastOf(at) >= l
      BY <1>1, <2>5
    <3> QED
      BY <3>1
  <2> QED
    BY <2>5, <2>6
<1>2. LastOf(at \cup {n + 1}) = n + 1
  <2> DEFINE all == at \cup {n + 1}
  <2>1. n + 1 \in all \cup {0} /\ \A l \in all : n + 1 >= l
    OBVIOUS
  <2>2. LastOf(all) \in all \cup {0} /\ \A l \in all : LastOf(all) >= l
    BY <2>1, Zenon DEF LastOf
  <2> DEFINE x == LastOf(all)
  <2>3. x \in at \cup {n + 1, 0} /\ x >= n + 1
    BY <2>2
  <2> HIDE DEF x
  <2>4. x = n + 1
    BY <2>3
  <2> QED
    BY <2>4 DEF x
<1> QED
  BY <1>1, <1>2

\* One more option: what stood before it stands, it stands behind.
LEMMA GivenIs ==
  ASSUME given \in Seq(Option), NEW o \in Option
  PROVE  /\ Append(given, o) \in Seq(Option)
         /\ DOMAIN given = 1..Len(given)
         /\ Len(given) \in Nat
         /\ DOMAIN Append(given, o) = 1..(Len(given) + 1)
         /\ Append(given, o)[Len(given) + 1] = o
         /\ \A k \in 1..Len(given) : Append(given, o)[k] = given[k]
<1>1. Append(given, o) \in Seq(Option) /\ Len(Append(given, o)) = Len(given) + 1
  BY AppendProperties
<1>2. Len(given) \in Nat /\ DOMAIN given = 1..Len(given)
  BY LenProperties
<1>3. DOMAIN Append(given, o) = 1..(Len(given) + 1)
  BY <1>1, LenProperties
<1>4. Append(given, o)[Len(given) + 1] = o
  BY AppendProperties
<1>5. \A k \in 1..Len(given) : Append(given, o)[k] = given[k]
  BY AppendProperties
<1> QED
  BY <1>1, <1>2, <1>3, <1>4, <1>5

\* The places that set something gain the new option's if it sets it, and the last
\* place is then the new one.
LEMMA PlacesGrow ==
  ASSUME given \in Seq(Option), NEW o \in Option, given' = Append(given, o)
  PROVE  /\ \A name : Named(name)' = Named(name)
                        \cup (IF o.name = name THEN {Len(given) + 1} ELSE {})
         /\ Modes' = Modes \cup (IF o.name = "i" \/ (o.name = "m" /\ o.arg # Unparsable)
                                 THEN {Len(given) + 1} ELSE {})
         /\ Widths' = Widths \cup (IF o.name = "s" /\ o.arg.w # Unparsable
                                   THEN {Len(given) + 1} ELSE {})
         /\ Heights' = Heights \cup (IF o.name = "s" /\ o.arg.h # Unparsable
                                     THEN {Len(given) + 1} ELSE {})
<1> DEFINE n == Len(given)
<1>1. /\ n \in Nat /\ DOMAIN given = 1..n /\ DOMAIN given' = 1..(n + 1)
      /\ given'[n + 1] = o /\ \A k \in 1..n : given'[k] = given[k]
  BY GivenIs
<1> HIDE DEF n
<1>2. DOMAIN given' = DOMAIN given \cup {n + 1} /\ n + 1 \notin DOMAIN given
  BY <1>1
<1>3. \A k \in DOMAIN given : given'[k] = given[k]
  BY <1>1
<1>4. \A name : Named(name)' = Named(name) \cup (IF o.name = name THEN {n + 1} ELSE {})
  BY <1>1, <1>2, <1>3 DEF Named
<1>5. \A name : Named(name) \subseteq DOMAIN given
  BY DEF Named
<1>6. Modes' = Modes \cup (IF o.name = "i" \/ (o.name = "m" /\ o.arg # Unparsable)
                           THEN {n + 1} ELSE {})
  BY <1>1, <1>2, <1>3, <1>4, <1>5 DEF Modes
<1>7. Widths' = Widths \cup (IF o.name = "s" /\ o.arg.w # Unparsable THEN {n + 1} ELSE {})
  BY <1>1, <1>2, <1>3, <1>4, <1>5 DEF Widths
<1>8. Heights' = Heights \cup (IF o.name = "s" /\ o.arg.h # Unparsable THEN {n + 1} ELSE {})
  BY <1>1, <1>2, <1>3, <1>4, <1>5 DEF Heights
<1> QED
  BY <1>4, <1>6, <1>7, <1>8 DEF n

\* What the options say after one more: its own word where it says something.
LEMMA SaidIs ==
  ASSUME given \in Seq(Option), NEW o \in Option, given' = Append(given, o),
         platform' = platform
  PROVE  /\ WidthSaid' = IF o.name = "s" THEN Scanned(o.arg.w, WidthSaid) ELSE WidthSaid
         /\ HeightSaid' = IF o.name = "s" THEN Scanned(o.arg.h, HeightSaid) ELSE HeightSaid
         /\ InputSaid' = IF o.name = "i" THEN o.arg ELSE InputSaid
         /\ ModeSaid' = IF o.name = "i" THEN 1
                        ELSE IF o.name = "m" THEN Scanned(o.arg, ModeSaid) ELSE ModeSaid
         /\ FileSaid("o")' = IF o.name = "o" THEN o.arg ELSE FileSaid("o")
         /\ FileSaid("y")' = IF o.name = "y" THEN o.arg ELSE FileSaid("y")
<1> DEFINE n == Len(given)
<1>1. /\ n \in Nat /\ DOMAIN given = 1..n
      /\ given'[n + 1] = o /\ \A k \in 1..n : given'[k] = given[k]
  BY GivenIs
<1>2. /\ \A name : Named(name) \in SUBSET (1..n)
      /\ Modes \in SUBSET (1..n) /\ Widths \in SUBSET (1..n) /\ Heights \in SUBSET (1..n)
  BY <1>1 DEF Named, Modes, Widths, Heights
<1>3. /\ \A name : Named(name)' = Named(name) \cup (IF o.name = name THEN {n + 1} ELSE {})
      /\ Modes' = Modes \cup (IF o.name = "i" \/ (o.name = "m" /\ o.arg # Unparsable)
                              THEN {n + 1} ELSE {})
      /\ Widths' = Widths \cup (IF o.name = "s" /\ o.arg.w # Unparsable
                                THEN {n + 1} ELSE {})
      /\ Heights' = Heights \cup (IF o.name = "s" /\ o.arg.h # Unparsable
                                  THEN {n + 1} ELSE {})
  BY PlacesGrow
<1> HIDE DEF n
<1>4. \A at \in SUBSET (1..n) : /\ at # {} => LastOf(at) \in at
                                /\ LastOf(at \cup {n + 1}) = n + 1
  BY <1>1, LastIs
<1>5. \A at \in SUBSET (1..n) : at # {} => given'[LastOf(at)] = given[LastOf(at)]
  BY <1>1, <1>4
<1>6. \A at \in SUBSET (1..n) : at \cup {n + 1} # {} /\ given'[LastOf(at \cup {n + 1})] = o
  BY <1>1, <1>4
<1>7. Defaults' = Defaults
  BY DEF Defaults
<1>8. WidthSaid' = IF o.name = "s" THEN Scanned(o.arg.w, WidthSaid) ELSE WidthSaid
  <2>1. CASE o.name = "s" /\ o.arg.w # Unparsable
    <3>1. Widths' = Widths \cup {n + 1}
      BY <1>3, <2>1
    <3>2. Widths' # {} /\ given'[LastOf(Widths')] = o
      BY <1>2, <1>6, <3>1
    <3> QED
      BY <2>1, <3>2, Zenon DEF WidthSaid, Scanned
  <2>2. CASE ~(o.name = "s" /\ o.arg.w # Unparsable)
    <3>1. Widths' = Widths
      BY <1>3, <2>2
    <3>2. Widths # {} => given'[LastOf(Widths')] = given[LastOf(Widths)]
      BY <1>2, <1>5, <3>1
    <3> QED
      BY <1>7, <2>2, <3>1, <3>2, Zenon DEF WidthSaid, Scanned
  <2> QED
    BY <2>1, <2>2
<1>9. HeightSaid' = IF o.name = "s" THEN Scanned(o.arg.h, HeightSaid) ELSE HeightSaid
  <2>1. CASE o.name = "s" /\ o.arg.h # Unparsable
    <3>1. Heights' = Heights \cup {n + 1}
      BY <1>3, <2>1
    <3>2. Heights' # {} /\ given'[LastOf(Heights')] = o
      BY <1>2, <1>6, <3>1
    <3> QED
      BY <2>1, <3>2, Zenon DEF HeightSaid, Scanned
  <2>2. CASE ~(o.name = "s" /\ o.arg.h # Unparsable)
    <3>1. Heights' = Heights
      BY <1>3, <2>2
    <3>2. Heights # {} => given'[LastOf(Heights')] = given[LastOf(Heights)]
      BY <1>2, <1>5, <3>1
    <3> QED
      BY <1>7, <2>2, <3>1, <3>2, Zenon DEF HeightSaid, Scanned
  <2> QED
    BY <2>1, <2>2
<1>10. InputSaid' = IF o.name = "i" THEN o.arg ELSE InputSaid
  <2>1. CASE o.name = "i"
    <3>1. Named("i")' = Named("i") \cup {n + 1}
      BY <1>3, <2>1
    <3>2. Named("i")' # {} /\ given'[LastOf(Named("i")')] = o
      BY <1>2, <1>6, <3>1
    <3> QED
      BY <2>1, <3>2, Zenon DEF InputSaid
  <2>2. CASE ~(o.name = "i")
    <3>1. Named("i")' = Named("i")
      BY <1>3, <2>2
    <3>2. Named("i") # {} => given'[LastOf(Named("i")')] = given[LastOf(Named("i"))]
      BY <1>2, <1>5, <3>1
    <3> QED
      BY <1>7, <2>2, <3>1, <3>2, Zenon DEF InputSaid
  <2> QED
    BY <2>1, <2>2
<1>11. ModeSaid' = IF o.name = "i" THEN 1
                  ELSE IF o.name = "m" THEN Scanned(o.arg, ModeSaid) ELSE ModeSaid
  <2>1. CASE o.name = "i" \/ (o.name = "m" /\ o.arg # Unparsable)
    <3>1. Modes' = Modes \cup {n + 1}
      BY <1>3, <2>1
    <3>2. Modes' # {} /\ given'[LastOf(Modes')] = o
      BY <1>2, <1>6, <3>1
    <3> QED
      BY <2>1, <3>2, Zenon DEF ModeSaid, Scanned
  <2>2. CASE ~(o.name = "i" \/ (o.name = "m" /\ o.arg # Unparsable))
    <3>1. Modes' = Modes
      BY <1>3, <2>2
    <3>2. Modes # {} => given'[LastOf(Modes')] = given[LastOf(Modes)]
      BY <1>2, <1>5, <3>1
    <3> QED
      BY <1>7, <2>2, <3>1, <3>2, Zenon DEF ModeSaid, Scanned
  <2> QED
    BY <2>1, <2>2
<1>12. FileSaid("o")' = IF o.name = "o" THEN o.arg ELSE FileSaid("o")
  <2>1. CASE o.name = "o"
    <3>1. Named("o")' = Named("o") \cup {n + 1}
      BY <1>3, <2>1
    <3>2. Named("o")' # {} /\ given'[LastOf(Named("o")')] = o
      BY <1>2, <1>6, <3>1
    <3> QED
      BY <2>1, <3>2, Zenon DEF FileSaid
  <2>2. CASE ~(o.name = "o")
    <3>1. Named("o")' = Named("o")
      BY <1>3, <2>2
    <3>2. Named("o") # {} => given'[LastOf(Named("o")')] = given[LastOf(Named("o"))]
      BY <1>2, <1>5, <3>1
    <3> QED
      BY <1>7, <2>2, <3>1, <3>2, Zenon DEF FileSaid
  <2> QED
    BY <2>1, <2>2
<1>13. FileSaid("y")' = IF o.name = "y" THEN o.arg ELSE FileSaid("y")
  <2>1. CASE o.name = "y"
    <3>1. Named("y")' = Named("y") \cup {n + 1}
      BY <1>3, <2>1
    <3>2. Named("y")' # {} /\ given'[LastOf(Named("y")')] = o
      BY <1>2, <1>6, <3>1
    <3> QED
      BY <2>1, <3>2, Zenon DEF FileSaid
  <2>2. CASE ~(o.name = "y")
    <3>1. Named("y")' = Named("y")
      BY <1>3, <2>2
    <3>2. Named("y") # {} => given'[LastOf(Named("y")')] = given[LastOf(Named("y"))]
      BY <1>2, <1>5, <3>1
    <3> QED
      BY <1>7, <2>2, <3>1, <3>2, Zenon DEF FileSaid
  <2> QED
    BY <2>1, <2>2
<1> QED
  BY <1>8, <1>9, <1>10, <1>11, <1>12, <1>13

-----------------------------------------------------------------------------
\* An empty command line says nothing.
LEMMA OptionStart == OptionInit => OptionInv
<1> SUFFICES ASSUME OptionInit PROVE OptionInv
  OBVIOUS
<1>1. given = <<>> /\ para = Defaults /\ files = {} /\ stage = "options"
  BY DEF OptionInit
<1>2. /\ \A name : Named(name) = {}
      /\ Modes = {} /\ Widths = {} /\ Heights = {}
  BY <1>1 DEF Named, Modes, Widths, Heights
<1>3. given \in Seq(Option)
  BY <1>1
<1>4. ParaFollows
  BY <1>1, <1>2 DEF ParaFollows, WidthSaid, HeightSaid, InputSaid, ModeSaid, FileSaid, Defaults
<1>5. FilesFollow
  BY <1>1 DEF FilesFollow
<1> QED
  BY <1>3, <1>4, <1>5 DEF OptionInv

\* One more option is stored as it is.
LEMMA OptionStored ==
  ASSUME OptionInv, NEW o \in Option, NextOption(o)
  PROVE  OptionInv'
<1>1. /\ given \in Seq(Option) /\ given' = Append(given, o) /\ para' = Deal(o)
      /\ platform' = platform /\ files' = files /\ stage = "options"
      /\ stage' \in {"options", "helped"}
  BY DEF OptionInv, NextOption
<1>2. given' \in Seq(Option)
  BY <1>1, GivenIs
<1>3. /\ WidthSaid' = IF o.name = "s" THEN Scanned(o.arg.w, WidthSaid) ELSE WidthSaid
      /\ HeightSaid' = IF o.name = "s" THEN Scanned(o.arg.h, HeightSaid) ELSE HeightSaid
      /\ InputSaid' = IF o.name = "i" THEN o.arg ELSE InputSaid
      /\ ModeSaid' = IF o.name = "i" THEN 1
                     ELSE IF o.name = "m" THEN Scanned(o.arg, ModeSaid) ELSE ModeSaid
      /\ FileSaid("o")' = IF o.name = "o" THEN o.arg ELSE FileSaid("o")
      /\ FileSaid("y")' = IF o.name = "y" THEN o.arg ELSE FileSaid("y")
  BY <1>1, SaidIs
<1>4. ParaFollows
  BY DEF OptionInv
<1>5. o.name \in {"s", "number", "m", "v", "i", "o", "y", "e", "h"}
  BY DEF Option
<1>6. ParaFollows'
  <2>1. CASE o.name = "s"
    <3>1. para' = [para EXCEPT !.width = Scanned(o.arg.w, para.width),
                               !.height = Scanned(o.arg.h, para.height)]
      BY <1>1, <2>1 DEF Deal
    <3>2. para.width = WidthSaid /\ para.height = HeightSaid
      BY <1>4 DEF ParaFollows
    <3>3. /\ InputSaid' = InputSaid /\ ModeSaid' = ModeSaid
          /\ FileSaid("o")' = FileSaid("o") /\ FileSaid("y")' = FileSaid("y")
          /\ WidthSaid' = Scanned(o.arg.w, para.width)
          /\ HeightSaid' = Scanned(o.arg.h, para.height)
      BY <1>3, <2>1, <3>2
    <3> QED
      BY <1>4, <3>1, <3>3 DEF ParaFollows
  <2>2. CASE o.name = "number"
    BY <1>1, <1>3, <1>4, <2>2 DEF ParaFollows, Deal
  <2>3. CASE o.name = "m"
    BY <1>1, <1>3, <1>4, <2>3 DEF ParaFollows, Deal
  <2>4. CASE o.name = "i"
    <3>1. para' = [para EXCEPT !.input = o.arg, !.run_mode = 1]
      BY <1>1, <2>4 DEF Deal, InputFile
    <3>2. /\ InputSaid' = o.arg /\ ModeSaid' = 1
          /\ FileSaid("o")' = FileSaid("o") /\ FileSaid("y")' = FileSaid("y")
          /\ WidthSaid' = WidthSaid /\ HeightSaid' = HeightSaid
      BY <1>3, <2>4
    <3> QED
      BY <1>4, <3>1, <3>2 DEF ParaFollows
  <2>5. CASE o.name = "o"
    BY <1>1, <1>3, <1>4, <2>5 DEF ParaFollows, Deal
  <2>6. CASE o.name = "y"
    BY <1>1, <1>3, <1>4, <2>6 DEF ParaFollows, Deal
  <2>7. CASE o.name = "e"
    BY <1>1, <1>3, <1>4, <2>7 DEF ParaFollows, Deal
  <2>8. CASE o.name \in {"v", "h"}
    BY <1>1, <1>3, <1>4, <2>8 DEF ParaFollows, Deal
  <2> QED
    BY <1>5, <2>1, <2>2, <2>3, <2>4, <2>5, <2>6, <2>7, <2>8
<1>7. FilesFollow'
  BY <1>1 DEF OptionInv, FilesFollow
<1> QED
  BY <1>2, <1>6, <1>7 DEF OptionInv

\* What the options say changes with them only.
LEMMA SaidStays ==
  ASSUME given' = given, platform' = platform
  PROVE  /\ WidthSaid' = WidthSaid /\ HeightSaid' = HeightSaid /\ InputSaid' = InputSaid
         /\ ModeSaid' = ModeSaid /\ FileSaid("o")' = FileSaid("o")
         /\ FileSaid("y")' = FileSaid("y")
<1>1. \A name : Named(name)' = Named(name)
  BY DEF Named
<1>2. Modes' = Modes /\ Widths' = Widths /\ Heights' = Heights
  BY <1>1 DEF Modes, Widths, Heights
<1>3. Defaults' = Defaults
  BY DEF Defaults
<1> QED
  BY <1>1, <1>2, <1>3 DEF WidthSaid, HeightSaid, InputSaid, ModeSaid, FileSaid

\* The check opens what the parameters name.
LEMMA OptionChecked ==
  ASSUME OptionInv, Global_Para_Check
  PROVE  OptionInv'
<1>1. /\ given' = given /\ platform' = platform /\ stage' = "checked"
      /\ para' = IF platform = "PC" THEN [para EXCEPT !.energy_get = 0] ELSE para
      /\ files' = ({para.yuv, para.info} \ {"none"})
                     \cup (IF para.run_mode = 1 THEN {para.input} ELSE {})
  BY DEF Global_Para_Check
<1>2. /\ WidthSaid' = WidthSaid /\ HeightSaid' = HeightSaid /\ InputSaid' = InputSaid
      /\ ModeSaid' = ModeSaid /\ FileSaid("o")' = FileSaid("o")
      /\ FileSaid("y")' = FileSaid("y")
  BY <1>1, SaidStays
<1>3. ParaFollows
  BY DEF OptionInv
<1>4. ParaFollows'
  BY <1>1, <1>2, <1>3 DEF ParaFollows
<1>5. /\ para'.yuv = para.yuv /\ para'.info = para.info /\ para'.run_mode = para.run_mode
      /\ para'.input = para.input /\ (platform = "PC" => para'.energy_get = 0)
  BY <1>1, <1>3 DEF ParaFollows
<1>6. FilesFollow'
  BY <1>1, <1>5 DEF FilesFollow
<1> QED
  BY <1>1, <1>4, <1>6 DEF OptionInv

\* Every step keeps it.
LEMMA OptionKept == OptionInv /\ [OptionNext]_optionvars => OptionInv'
<1> SUFFICES ASSUME OptionInv, [OptionNext]_optionvars PROVE OptionInv'
  OBVIOUS
<1>1. ASSUME NEW o \in Option, NextOption(o) PROVE OptionInv'
  BY <1>1, OptionStored
<1>2. CASE Global_Para_Check
  BY <1>2, OptionChecked
<1>3. CASE UNCHANGED optionvars
  <2>1. /\ given' = given /\ platform' = platform /\ para' = para /\ files' = files
        /\ stage' = stage
    BY <1>3 DEF optionvars
  <2>2. ParaFollows'
    BY <2>1, SaidStays DEF OptionInv, ParaFollows
  <2> QED
    BY <2>1, <2>2 DEF OptionInv, FilesFollow
<1> QED
  BY <1>1, <1>2, <1>3 DEF OptionNext

\* The files that were opened are those of the last options.
LEMMA OutputsAre ==
  ASSUME OptionInv
  PROVE  ({FileSaid("o"), FileSaid("y")} \ {"none"}) = OutputsSaid
<1>1. ASSUME NEW name \in {"o", "y"}, Named(name) # {}
      PROVE  given[LastOf(Named(name))].arg \in FileNames
  <2>1. given \in Seq(Option)
    BY DEF OptionInv
  <2>2. Len(given) \in Nat /\ DOMAIN given = 1..Len(given)
    BY <2>1, LenProperties
  <2>3. Named(name) \in SUBSET (1..Len(given))
    BY <2>2 DEF Named
  <2>4. LastOf(Named(name)) \in Named(name)
    BY <1>1, <2>2, <2>3, LastIs
  <2> DEFINE o == given[LastOf(Named(name))]
  <2>5. o.name = name
    BY <2>4 DEF Named
  <2>6. o \in Option
    BY <2>1, <2>2, <2>3, <2>4, ElementOfSeq
  <2> HIDE DEF o
  <2>7. o.arg \in FileNames
    BY <1>1, <2>5, <2>6 DEF Option
  <2> QED
    BY <2>7 DEF o
<1>2. \A name \in {"o", "y"} :
         /\ Named(name) # {} => FileSaid(name) # "none"
                               /\ FileSaid(name) = given[LastOf(Named(name))].arg
         /\ Named(name) = {} => FileSaid(name) = "none"
  BY <1>1, OptionAssumption DEF FileSaid
<1> QED
  BY <1>2 DEF OutputsSaid

\* Every parameter, and every file that is opened, is what the command line as a
\* whole says, however its options are ordered and repeated.
THEOREM OptionsAreSound == OptionSpec => []OptionsSound
<1>1. OptionInv => OptionsSound
  <2> SUFFICES ASSUME OptionInv PROVE OptionsSound
    OBVIOUS
  <2>1. ParaFollows /\ FilesFollow
    BY DEF OptionInv
  <2>2. /\ para.width = WidthSaid /\ para.height = HeightSaid /\ para.mv_range = -1
        /\ para.input = InputSaid /\ para.run_mode = ModeSaid
        /\ para.info = FileSaid("o") /\ para.yuv = FileSaid("y")
    BY <2>1 DEF ParaFollows
  <2>3. ModeSaid = 1 <=> TestingSaid
    BY DEF ModeSaid, TestingSaid
  <2>4. {para.yuv, para.info} \ {"none"} = OutputsSaid
    BY <2>2, OutputsAre
  <2>5. stage = "checked" =>
           files = OutputsSaid \cup (IF TestingSaid THEN {InputSaid} ELSE {})
    BY <2>1, <2>2, <2>3, <2>4, Zenon DEF FilesFollow
  <2> QED
    BY <2>1, <2>2, <2>5 DEF OptionsSound, FilesFollow
<1> QED
  BY <1>1, OptionStart, OptionKept, PTL DEF OptionSpec

-----------------------------------------------------------------------------
(***************************************************************************)
(* The conversion of a frame of any even width.                            *)
(***************************************************************************)

\* The pairs of points of a line.
Half == dims.w \div 2

\* Where the loop is: 2 * m + b lines and c pairs of the next are done.
Done(m, b, c) ==
  /\ i = 4 * (Half * (2 * m + b) + c)
  /\ Y_index = 2 * (Half * (2 * m + b) + c)
  /\ U_index = Half * m + (IF b = 1 THEN c ELSE 0)
  /\ V_index = Half * m + (IF b = 1 THEN Half ELSE c)

\* The loop goes through the frame in its order, and what it has written are the
\* beginnings of three planes, with the right bytes.
YuvInv ==
  /\ dims \in [w : Width, h : Height]
  /\ Even(dims.w) =>
        /\ \E m \in Nat, b \in {0, 1}, c \in 0..(Half - 1) : Done(m, b, c)
        /\ i <= yuv2_length(dims)
        /\ DOMAIN yuv420 = (0..(Y_index - 1))
                             \cup (U(dims)..(U(dims) + U_index - 1))
                             \cup (V(dims)..(V(dims) + V_index - 1))
        /\ Even(dims.h) => \A p \in DOMAIN yuv420 : yuv420[p] = Planes(dims)[p]

\* A frame has as many points as its height times the pairs of a line, twice.
LEMMA SizesAre ==
  ASSUME dims \in [w : Width, h : Height], Even(dims.w)
  PROVE  /\ Half \in Nat \ {0} /\ dims.w = 2 * Half /\ dims.h \in Nat \ {0}
         /\ Half * dims.h \in Nat
         /\ Points(dims) = 2 * (Half * dims.h)
         /\ yuv2_length(dims) = 4 * (Half * dims.h)
<1>1. dims.w \in Nat \ {0} /\ dims.h \in Nat \ {0}
  BY SizeAssumption
<1> DEFINE w == dims.w  g == dims.h  h == Half
<1>2. w = 2 * h + (w % 2) /\ h \in Int
  BY <1>1, Divided DEF Half
<1>3. w % 2 = 0
  BY DEF Even
<1>4. h \in Nat \ {0} /\ w = 2 * h
  BY <1>1, <1>2, <1>3
<1>5. Points(dims) = w * g
  BY DEF Points
<1>6. yuv2_length(dims) = 2 * (w * g)
  BY DEF yuv2_length, Points
<1> HIDE DEF w, g, h
<1>7. g \in Nat \ {0}
  BY <1>1 DEF g
<1>8. h * g \in Nat
  BY <1>4, <1>7, SMT
<1>9. w * g = 2 * (h * g)
  BY <1>4, <1>7, <1>8, SMT
<1>10. Points(dims) = 2 * (h * g)
  BY <1>5, <1>9, Zenon
<1>11. yuv2_length(dims) = 4 * (h * g)
  BY <1>6, <1>8, <1>9
<1> QED
  BY <1>4, <1>7, <1>8, <1>10, <1>11 DEF w, g, h

\* The line of a place of the camera's frame.
LEMMA LineIs ==
  ASSUME dims \in [w : Width, h : Height], Even(dims.w),
         NEW l \in Nat, NEW c \in 0..(Half - 1)
  PROVE  H_index(4 * (Half * l + c)) = l
<1> DEFINE h == Half  n == 4 * h
<1>1. h \in Nat \ {0} /\ dims.w = 2 * h
  BY SizesAre
<1>2. H_index(4 * (h * l + c)) = (4 * (h * l + c)) \div (2 * dims.w)
  BY DEF H_index
<1> HIDE DEF h
<1>3. 2 * dims.w = n
  BY <1>1
<1>4. c \in 0..(h - 1)
  BY DEF h
<1>5. h * l \in Int /\ n * l = 4 * (h * l)
  BY <1>1, SMT
<1>6. 4 * (h * l + c) = n * l + 4 * c
  <2> DEFINE z == h * l
             y == n * l
  <2>1. z \in Int /\ y = 4 * z
    BY <1>5
  <2> HIDE DEF z, y
  <2>2. 4 * (z + c) = y + 4 * c
    BY <1>4, <2>1
  <2> QED
    BY <2>2 DEF z, y
<1>7. n \in Nat \ {0} /\ 4 * c \in 0..(n - 1)
  BY <1>1, <1>4
<1>8. (n * l + 4 * c) \div n = l
  <2> HIDE DEF n
  <2> QED
    BY <1>7, RemainderIs
<1>9. (4 * (h * l + c)) \div (2 * dims.w) = l
  BY <1>3, <1>6, <1>8, Zenon
<1> QED
  BY <1>2, <1>9 DEF h

\* The planes' bytes: of a line's pairs, and of the pairs of two lines.
LEMMA PlanesAre ==
  ASSUME dims \in [w : Width, h : Height], Even(dims.w), Even(dims.h)
  PROVE  \E y \in Nat :
            /\ y = Half * (dims.h \div 2) /\ Half * dims.h = 2 * y
            /\ dims.h \div 2 \in Nat /\ dims.h = 2 * (dims.h \div 2)
            /\ U(dims) = 4 * y /\ V(dims) = 5 * y /\ Allocated(dims) = 6 * y
            /\ DOMAIN Planes(dims) = 0..(6 * y - 1)
            /\ \A p \in 0..(4 * y - 1) : Planes(dims)[p] = 2 * p
            /\ \A m \in Nat, c \in 0..(Half - 1) :
                  Half * m + c < y =>
                     /\ Planes(dims)[4 * y + Half * m + c] = 8 * (Half * m) + 4 * Half + 4 * c + 1
                     /\ Planes(dims)[5 * y + Half * m + c] = 8 * (Half * m) + 4 * c + 3
<1> DEFINE g == dims.h \div 2  h == Half  y == h * g
<1>1. /\ h \in Nat \ {0} /\ dims.w = 2 * h /\ dims.h \in Nat \ {0}
      /\ h * dims.h \in Nat /\ Points(dims) = 2 * (h * dims.h)
  BY SizesAre
<1>2. g \in Nat /\ dims.h = 2 * g
  <2> DEFINE H == dims.h
  <2>1. H % 2 = 0 /\ H \in Nat \ {0}
    BY <1>1 DEF Even
  <2> HIDE DEF H
  <2>2. H = 2 * (H \div 2) + (H % 2) /\ H \div 2 \in Int
    BY <2>1, Divided
  <2>3. H \div 2 \in Nat /\ H = 2 * (H \div 2)
    BY <2>1, <2>2
  <2> QED
    BY <2>3 DEF H
<1> HIDE DEF g, h
<1>3. y \in Nat
  BY <1>1, <1>2, SMT
<1>4. h * dims.h = 2 * y
  BY <1>1, <1>2, SMT
<1> HIDE DEF y
<1>5. Points(dims) = 4 * y
  BY <1>1, <1>3, <1>4
<1>6. U(dims) = 4 * y /\ V(dims) = 5 * y /\ Allocated(dims) = 6 * y
  <2>1. (4 * y) \div 4 = y /\ (3 * (4 * y)) \div 2 = 6 * y
    BY <1>3
  <2> QED
    BY <1>3, <1>5, <2>1 DEF U, V, Allocated
<1>7. DOMAIN Planes(dims) = 0..(6 * y - 1)
  BY <1>6 DEF Planes
<1>8. \A p \in 0..(4 * y - 1) : Planes(dims)[p] = 2 * p
  BY <1>3, <1>6 DEF Planes
<1>9. ASSUME NEW m \in Nat, NEW c \in 0..(h - 1), h * m + c < y
      PROVE  /\ Planes(dims)[4 * y + h * m + c] = 8 * (h * m) + 4 * h + 4 * c + 1
             /\ Planes(dims)[5 * y + h * m + c] = 8 * (h * m) + 4 * c + 3
  <2> DEFINE x == h * m
             q == x + c
             p1 == 4 * y + q
             p2 == 5 * y + q
  <2>1. x \in Nat
    BY <1>1, SMT
  <2>2. q \div h = m /\ q % h = c
    <3>1. h \in Nat \ {0} /\ m \in Int /\ c \in 0..(h - 1)
      BY <1>1
    <3>2. (h * m + c) % h = c /\ (h * m + c) \div h = m
      BY <3>1, RemainderIs
    <3> QED
      BY <3>2
  <2>3. dims.w \div 2 = h
    BY <1>1
  <2>4. h * m + c < y
    BY <1>9
  <2> HIDE DEF x
  <2>5. q \in Nat /\ q < y
    BY <2>1, <2>4 DEF x
  <2>6. p1 \in 0..(6 * y - 1) /\ p1 >= 4 * y /\ p1 < 5 * y /\ p1 - 4 * y = q
    BY <1>3, <2>1, <2>5
  <2>7. p2 \in 0..(6 * y - 1) /\ p2 >= 5 * y /\ p2 >= 4 * y /\ p2 - 5 * y = q
    BY <1>3, <2>1, <2>5
  <2> HIDE DEF q, p1, p2
  <2>8. Planes(dims)[p1] = (2 * dims.w) * (2 * (q \div h) + 1) + (4 * (q % h)) + 1
    BY <1>3, <1>6, <2>3, <2>6 DEF Planes
  <2>9. Planes(dims)[p2] = (2 * dims.w) * (2 * (q \div h)) + (4 * (q % h)) + 3
    BY <1>3, <1>6, <2>3, <2>7 DEF Planes
  <2>10. Planes(dims)[p1] = (4 * h) * (2 * m + 1) + (4 * c) + 1
    BY <1>1, <2>2, <2>8
  <2>11. Planes(dims)[p2] = (4 * h) * (2 * m) + (4 * c) + 3
    BY <1>1, <2>2, <2>9
  <2>12. (4 * h) * (2 * m + 1) = 8 * x + 4 * h /\ (4 * h) * (2 * m) = 8 * x
    BY <1>1, SMT DEF x
  <2>13. /\ Planes(dims)[p1] = 8 * x + 4 * h + 4 * c + 1
         /\ Planes(dims)[p2] = 8 * x + 4 * c + 3
    BY <2>10, <2>11, <2>12
  <2>14. p1 = 4 * y + x + c /\ p2 = 5 * y + x + c
    BY <1>3, <2>1 DEF p1, p2, q
  <2> QED
    BY <2>13, <2>14, Zenon DEF x
<1> QED
  <2>1. \A m \in Nat, c \in 0..(h - 1) :
           h * m + c < y =>
              /\ Planes(dims)[4 * y + h * m + c] = 8 * (h * m) + 4 * h + 4 * c + 1
              /\ Planes(dims)[5 * y + h * m + c] = 8 * (h * m) + 4 * c + 3
    BY <1>9
  <2>2. y = h * (dims.h \div 2)
    BY DEF y, g
  <2>3. dims.h \div 2 \in Nat /\ dims.h = 2 * (dims.h \div 2)
    BY <1>2 DEF g
  <2> HIDE DEF h
  <2> QED
    BY <1>3, <1>4, <1>6, <1>7, <1>8, <2>1, <2>2, <2>3, Zenon DEF h

\* At the start nothing is done.
LEMMA YuvStart == YuvInit => YuvInv
<1> SUFFICES ASSUME YuvInit PROVE YuvInv
  OBVIOUS
<1>1. /\ dims \in [w : Width, h : Height] /\ i = 0 /\ Y_index = 0 /\ U_index = 0
      /\ V_index = 0 /\ DOMAIN yuv420 = {}
  BY DEF YuvInit
<1>2. ASSUME Even(dims.w)
      PROVE  /\ \E m \in Nat, b \in {0, 1}, c \in 0..(Half - 1) : Done(m, b, c)
             /\ i <= yuv2_length(dims)
             /\ DOMAIN yuv420 = (0..(Y_index - 1))
                                   \cup (U(dims)..(U(dims) + U_index - 1))
                                   \cup (V(dims)..(V(dims) + V_index - 1))
  <2>1. /\ Half \in Nat \ {0} /\ Half * dims.h \in Nat
        /\ Points(dims) = 2 * (Half * dims.h) /\ yuv2_length(dims) = 4 * (Half * dims.h)
    BY <1>1, <1>2, SizesAre
  <2>2. Half * (2 * 0 + 0) = 0 /\ Half * 0 = 0
    BY <2>1, SMT
  <2>3. Done(0, 0, 0)
    BY <1>1, <2>1, <2>2 DEF Done
  <2>4. U(dims) \in Int /\ V(dims) \in Int
    BY <2>1 DEF U, V
  <2>5. i <= yuv2_length(dims)
    BY <1>1, <2>1
  <2>6. 0..(Y_index - 1) = {} /\ U(dims)..(U(dims) + U_index - 1) = {}
        /\ V(dims)..(V(dims) + V_index - 1) = {}
    BY <1>1, <2>4
  <2>7. 0 \in Nat /\ 0 \in {0, 1} /\ 0 \in 0..(Half - 1)
    BY <2>1
  <2>8. \E m \in Nat, b \in {0, 1}, c \in 0..(Half - 1) : Done(m, b, c)
    BY <2>3, <2>7
  <2> QED
    BY <1>1, <2>5, <2>6, <2>8
<1> QED
  BY <1>1, <1>2 DEF YuvInv

\* The place of a round, in pairs of points.
LEMMA DoneIs ==
  ASSUME dims \in [w : Width, h : Height], Even(dims.w),
         NEW m \in Nat, NEW b \in {0, 1}, NEW c \in 0..(Half - 1), Done(m, b, c)
  PROVE  /\ Half * m \in Nat
         /\ i = 4 * (2 * (Half * m) + (IF b = 1 THEN Half ELSE 0) + c)
         /\ Y_index = 2 * (2 * (Half * m) + (IF b = 1 THEN Half ELSE 0) + c)
         /\ U_index = Half * m + (IF b = 1 THEN c ELSE 0)
         /\ V_index = Half * m + (IF b = 1 THEN Half ELSE c)
<1>1. Half \in Nat \ {0}
  BY SizesAre
<1>2. Half * m \in Nat
  BY <1>1, SMT
<1>3. Half * (2 * m + b) = 2 * (Half * m) + (IF b = 1 THEN Half ELSE 0)
  BY <1>1, SMT
<1> DEFINE x == Half * m
           z == Half * (2 * m + b)
<1>4. i = 4 * (z + c) /\ Y_index = 2 * (z + c)
  BY DEF Done
<1>5. x \in Nat /\ z = 2 * x + (IF b = 1 THEN Half ELSE 0)
  BY <1>2, <1>3
<1> HIDE DEF x, z
<1>6. /\ i = 4 * (2 * x + (IF b = 1 THEN Half ELSE 0) + c)
      /\ Y_index = 2 * (2 * x + (IF b = 1 THEN Half ELSE 0) + c)
  BY <1>4, <1>5
<1> QED
  BY <1>2, <1>6 DEF x, Done

\* What a round writes and where it stands then.
LEMMA RoundIs ==
  ASSUME dims \in [w : Width, h : Height], Even(dims.w),
         NEW m \in Nat, NEW b \in {0, 1}, NEW c \in 0..(Half - 1), Done(m, b, c), Convert
  PROVE  \E chroma, byte :
            /\ chroma = IF b = 1 THEN U(dims) + U_index ELSE V(dims) + V_index
            /\ byte = i + (IF b = 1 THEN 1 ELSE 3)
            /\ yuv420' = [p \in DOMAIN yuv420 \cup {Y_index, Y_index + 1, chroma} |->
                             IF p = chroma THEN byte
                             ELSE IF p = Y_index + 1 THEN i + 2
                             ELSE IF p = Y_index THEN i
                             ELSE yuv420[p]]
            /\ U_index' = IF b = 1 THEN U_index + 1 ELSE U_index
            /\ V_index' = IF b = 1 THEN V_index ELSE V_index + 1
<1>1. i = 4 * (Half * (2 * m + b) + c) /\ 2 * m + b \in Nat
  BY DEF Done
<1>2. H_index(i) = 2 * m + b
  BY <1>1, LineIs
<1>3. (2 * m + b) % 2 = b
  BY SMT
<1>4. H_index(i) % 2 = 1 <=> b = 1
  BY <1>2, <1>3
<1> DEFINE chroma == IF b = 1 THEN U(dims) + U_index ELSE V(dims) + V_index
           byte == i + (IF b = 1 THEN 1 ELSE 3)
           odd == H_index(i) % 2 = 1
<1>5. chroma = (IF odd THEN U(dims) + U_index ELSE V(dims) + V_index)
      /\ byte = i + (IF odd THEN 1 ELSE 3)
  BY <1>4
<1>6. /\ yuv420' = [p \in DOMAIN yuv420 \cup {Y_index, Y_index + 1, chroma} |->
                       IF p = chroma THEN byte
                       ELSE IF p = Y_index + 1 THEN i + 2
                       ELSE IF p = Y_index THEN i
                       ELSE yuv420[p]]
      /\ U_index' = IF b = 1 THEN U_index + 1 ELSE U_index
      /\ V_index' = IF b = 1 THEN V_index ELSE V_index + 1
  <2> HIDE DEF chroma, byte
  <2> QED
    BY <1>4, <1>5 DEF Convert
<1> QED
  BY <1>6

\* A round moves on by one pair, at the end of a line to the next.
LEMMA MovesOn ==
  ASSUME dims \in [w : Width, h : Height], Even(dims.w),
         NEW m \in Nat, NEW b \in {0, 1}, NEW c \in 0..(Half - 1), Done(m, b, c), Convert
  PROVE  \E n \in Nat, d \in {0, 1}, e \in 0..(Half - 1) : Done(n, d, e)'
<1>1. Half \in Nat \ {0} /\ Half' = Half
  BY SizesAre DEF Convert, Half
<1>2. /\ Half * m \in Nat
      /\ i = 4 * (2 * (Half * m) + (IF b = 1 THEN Half ELSE 0) + c)
      /\ Y_index = 2 * (2 * (Half * m) + (IF b = 1 THEN Half ELSE 0) + c)
      /\ U_index = Half * m + (IF b = 1 THEN c ELSE 0)
      /\ V_index = Half * m + (IF b = 1 THEN Half ELSE c)
  BY DoneIs
<1>3. /\ i' = i + 4 /\ Y_index' = Y_index + 2
      /\ U_index' = IF b = 1 THEN U_index + 1 ELSE U_index
      /\ V_index' = IF b = 1 THEN V_index ELSE V_index + 1
  BY RoundIs DEF Convert
<1> DEFINE h == Half
           x == h * m
<1>4. /\ h \in Nat \ {0} /\ x \in Nat /\ c \in 0..(h - 1)
      /\ i = 4 * (2 * x + (IF b = 1 THEN h ELSE 0) + c)
      /\ Y_index = 2 * (2 * x + (IF b = 1 THEN h ELSE 0) + c)
      /\ U_index = x + (IF b = 1 THEN c ELSE 0)
      /\ V_index = x + (IF b = 1 THEN h ELSE c)
  BY <1>1, <1>2
<1>5. h * (2 * m + 0) = 2 * x /\ h * (2 * m + 1) = 2 * x + h
  BY <1>1, SMT
<1>6. h * (2 * (m + 1) + 0) = 2 * x + 2 * h /\ h * (m + 1) = x + h
  BY <1>1, SMT
<1>7. ASSUME NEW n, NEW d, NEW e,
             /\ i' = 4 * (h * (2 * n + d) + e) /\ Y_index' = 2 * (h * (2 * n + d) + e)
             /\ U_index' = h * n + (IF d = 1 THEN e ELSE 0)
             /\ V_index' = h * n + (IF d = 1 THEN h ELSE e)
      PROVE  Done(n, d, e)'
  BY <1>1, <1>7, Zenon DEF Done
<1> HIDE DEF x, h
<1>8. CASE c + 1 < h
  <2>1. Done(m, b, c + 1)'
    <3>1. CASE b = 0
      <4>1. /\ i' = 4 * (2 * x + (c + 1)) /\ Y_index' = 2 * (2 * x + (c + 1))
            /\ U_index' = x + 0 /\ V_index' = x + (c + 1)
        BY <1>3, <1>4, <3>1
      <4> QED
        BY <1>5, <1>7, <3>1, <4>1 DEF x
    <3>2. CASE b = 1
      <4>1. /\ i' = 4 * (2 * x + h + (c + 1)) /\ Y_index' = 2 * (2 * x + h + (c + 1))
            /\ U_index' = x + (c + 1) /\ V_index' = x + h
        BY <1>3, <1>4, <3>2
      <4> QED
        BY <1>5, <1>7, <3>2, <4>1 DEF x
    <3> QED
      BY <3>1, <3>2
  <2>2. c + 1 \in 0..(h - 1)
    BY <1>4, <1>8
  <2> QED
    BY <2>1, <2>2 DEF h
<1>9. CASE c + 1 = h /\ b = 0
  <2>1. /\ i' = 4 * (2 * x + h + 0) /\ Y_index' = 2 * (2 * x + h + 0)
        /\ U_index' = x + 0 /\ V_index' = x + h
    BY <1>3, <1>4, <1>9
  <2>2. Done(m, 1, 0)'
    BY <1>5, <1>7, <2>1 DEF x
  <2>3. 1 \in {0, 1} /\ 0 \in 0..(h - 1)
    BY <1>4
  <2> QED
    BY <2>2, <2>3 DEF h
<1>10. CASE c + 1 = h /\ b = 1
  <2>1. /\ i' = 4 * (2 * x + 2 * h + 0) /\ Y_index' = 2 * (2 * x + 2 * h + 0)
        /\ U_index' = x + h + 0 /\ V_index' = x + h + 0
    BY <1>3, <1>4, <1>10
  <2>2. Done(m + 1, 0, 0)'
    BY <1>6, <1>7, <2>1 DEF x
  <2>3. m + 1 \in Nat /\ 0 \in {0, 1} /\ 0 \in 0..(h - 1)
    BY <1>4
  <2> QED
    BY <2>2, <2>3 DEF h
<1> QED
  BY <1>4, <1>8, <1>9, <1>10

\* What has been written stays the beginnings of three planes.
LEMMA PlanesGrow ==
  ASSUME YuvInv, Even(dims.w), Convert
  PROVE  DOMAIN yuv420' = (0..(Y_index' - 1))
                            \cup (U(dims)..(U(dims) + U_index' - 1))
                            \cup (V(dims)..(V(dims) + V_index' - 1))
<1>1. /\ dims \in [w : Width, h : Height]
      /\ DOMAIN yuv420 = (0..(Y_index - 1))
                           \cup (U(dims)..(U(dims) + U_index - 1))
                           \cup (V(dims)..(V(dims) + V_index - 1))
  BY DEF YuvInv
<1>2. PICK m \in Nat, b \in {0, 1}, c \in 0..(Half - 1) : Done(m, b, c)
  BY DEF YuvInv
<1> DEFINE u == U(dims)  v == V(dims)  x == Half * m
<1>3. u \in Int /\ v \in Int
  <2>1. Half * dims.h \in Nat /\ Points(dims) = 2 * (Half * dims.h)
    BY <1>1, SizesAre
  <2> QED
    BY <2>1 DEF U, V
<1>4. Half \in Nat \ {0}
  BY <1>1, SizesAre
<1>5. /\ x \in Nat
      /\ Y_index = 2 * (2 * x + (IF b = 1 THEN Half ELSE 0) + c)
      /\ U_index = x + (IF b = 1 THEN c ELSE 0)
      /\ V_index = x + (IF b = 1 THEN Half ELSE c)
  BY <1>1, <1>2, DoneIs
<1> HIDE DEF x
<1>6. Y_index \in Nat /\ U_index \in Nat /\ V_index \in Nat
  BY <1>4, <1>5
<1>7. /\ DOMAIN yuv420' = DOMAIN yuv420 \cup {Y_index, Y_index + 1,
                              IF b = 1 THEN u + U_index ELSE v + V_index}
      /\ U_index' = IF b = 1 THEN U_index + 1 ELSE U_index
      /\ V_index' = IF b = 1 THEN V_index ELSE V_index + 1
  BY <1>1, <1>2, RoundIs
<1>8. Y_index' = Y_index + 2
  BY DEF Convert
<1> HIDE DEF u, v
<1>9. 0..(Y_index' - 1) = (0..(Y_index - 1)) \cup {Y_index, Y_index + 1}
  BY <1>6, <1>8
<1>10. u..(u + U_index' - 1) = (u..(u + U_index - 1)) \cup (IF b = 1 THEN {u + U_index} ELSE {})
  BY <1>3, <1>6, <1>7
<1>11. v..(v + V_index' - 1) = (v..(v + V_index - 1)) \cup (IF b = 1 THEN {} ELSE {v + V_index})
  BY <1>3, <1>6, <1>7
<1>12. DOMAIN yuv420 = (0..(Y_index - 1)) \cup (u..(u + U_index - 1)) \cup (v..(v + V_index - 1))
  BY <1>1 DEF u, v
<1> QED
  BY <1>7, <1>9, <1>10, <1>11, <1>12, Zenon DEF u, v

\* How far the planes of a frame of even height are, before they are full.
LEMMA RoomLeft ==
  ASSUME YuvInv, Even(dims.w), Even(dims.h), NEW m \in Nat, NEW b \in {0, 1},
         NEW c \in 0..(Half - 1), Done(m, b, c), i < yuv2_length(dims)
  PROVE  Half * m + Half <= Half * (dims.h \div 2)
<1> DEFINE h == Half  g == dims.h \div 2  x == h * m  y == h * g
<1>1. dims \in [w : Width, h : Height]
  BY DEF YuvInv
<1>2. h \in Nat \ {0} /\ yuv2_length(dims) = 4 * (h * dims.h)
  BY <1>1, SizesAre
<1>3. g \in Nat /\ h * dims.h = 2 * y /\ y \in Nat
  BY <1>1, PlanesAre
<1>4. x \in Nat /\ i = 4 * (2 * x + (IF b = 1 THEN h ELSE 0) + c)
  BY <1>1, DoneIs
<1> HIDE DEF h, g
<1>5. m < g
  <2>1. SUFFICES ASSUME m >= g PROVE FALSE
    BY <1>3
  <2>2. x >= y
    BY <1>2, <1>3, <2>1, SMT
  <2> HIDE DEF x, y
  <2>3. c >= 0
    OBVIOUS
  <2> QED
    BY <1>2, <1>3, <1>4, <2>2, <2>3
<1>6. h * (m + 1) <= y
  BY <1>2, <1>3, <1>5, SMT
<1>7. h * (m + 1) = x + h
  BY <1>2, SMT
<1>8. x + h <= y
  BY <1>6, <1>7
<1> QED
  BY <1>8 DEF h, g

\* And every byte of them is the right one.
LEMMA BytesStay ==
  ASSUME YuvInv, Even(dims.w), Even(dims.h), Convert
  PROVE  \A p \in DOMAIN yuv420' : yuv420'[p] = Planes(dims)[p]
<1>1. /\ dims \in [w : Width, h : Height]
      /\ \A p \in DOMAIN yuv420 : yuv420[p] = Planes(dims)[p]
  BY DEF YuvInv
<1>2. PICK m \in Nat, b \in {0, 1}, c \in 0..(Half - 1) : Done(m, b, c)
  BY DEF YuvInv
<1> DEFINE h == Half  x == h * m  y == h * (dims.h \div 2)
<1>3. h \in Nat \ {0}
  BY <1>1, SizesAre
<1>4. /\ y \in Nat /\ U(dims) = 4 * y /\ V(dims) = 5 * y
      /\ \A p \in 0..(4 * y - 1) : Planes(dims)[p] = 2 * p
      /\ h * m + c < y =>
            /\ Planes(dims)[4 * y + h * m + c] = 8 * (h * m) + 4 * h + 4 * c + 1
            /\ Planes(dims)[5 * y + h * m + c] = 8 * (h * m) + 4 * c + 3
  BY <1>1, PlanesAre
<1>5. x + h <= y
  BY <1>2, RoomLeft DEF Convert
<1>6. /\ x \in Nat
      /\ i = 4 * (2 * x + (IF b = 1 THEN h ELSE 0) + c)
      /\ Y_index = 2 * (2 * x + (IF b = 1 THEN h ELSE 0) + c)
      /\ U_index = x + (IF b = 1 THEN c ELSE 0)
      /\ V_index = x + (IF b = 1 THEN h ELSE c)
  BY <1>1, <1>2, DoneIs
<1>7. PICK chroma, byte :
         /\ chroma = IF b = 1 THEN U(dims) + U_index ELSE V(dims) + V_index
         /\ byte = i + (IF b = 1 THEN 1 ELSE 3)
         /\ yuv420' = [p \in DOMAIN yuv420 \cup {Y_index, Y_index + 1, chroma} |->
                          IF p = chroma THEN byte
                          ELSE IF p = Y_index + 1 THEN i + 2
                          ELSE IF p = Y_index THEN i
                          ELSE yuv420[p]]
  <2>1. dims \in [w : Width, h : Height] /\ Even(dims.w) /\ Convert
    BY <1>1
  <2>2. \E chroma, byte :
            /\ chroma = IF b = 1 THEN U(dims) + U_index ELSE V(dims) + V_index
            /\ byte = i + (IF b = 1 THEN 1 ELSE 3)
            /\ yuv420' = [p \in DOMAIN yuv420 \cup {Y_index, Y_index + 1, chroma} |->
                             IF p = chroma THEN byte
                             ELSE IF p = Y_index + 1 THEN i + 2
                             ELSE IF p = Y_index THEN i
                             ELSE yuv420[p]]
            /\ U_index' = IF b = 1 THEN U_index + 1 ELSE U_index
            /\ V_index' = IF b = 1 THEN V_index ELSE V_index + 1
    BY <1>2, <2>1, RoundIs
  <2> QED
    BY <2>2
<1>8. c \in 0..(h - 1)
  OBVIOUS
<1>9. h * m + c < y
  <2>1. x + c < y
    <3> HIDE DEF x, y, h
    <3> QED
      BY <1>3, <1>4, <1>5, <1>6, <1>8
  <2> QED
    BY <2>1
<1>10. /\ Planes(dims)[4 * y + x + c] = 8 * x + 4 * h + 4 * c + 1
       /\ Planes(dims)[5 * y + x + c] = 8 * x + 4 * c + 3
  BY <1>4, <1>9
<1> HIDE DEF x, y, h
<1>11. Y_index \in 0..(4 * y - 1) /\ Y_index + 1 \in 0..(4 * y - 1)
  BY <1>3, <1>4, <1>5, <1>6, <1>8
<1>12. i = 2 * Y_index /\ i + 2 = 2 * (Y_index + 1)
  BY <1>3, <1>6, <1>8
<1>13. Planes(dims)[Y_index] = i /\ Planes(dims)[Y_index + 1] = i + 2
  BY <1>4, <1>11, <1>12
<1>14. Planes(dims)[chroma] = byte
  <2>1. CASE b = 1
    <3>1. chroma = 4 * y + x + c /\ byte = 8 * x + 4 * h + 4 * c + 1
      BY <1>3, <1>4, <1>6, <1>7, <1>8, <2>1
    <3> QED
      BY <1>10, <3>1
  <2>2. CASE b = 0
    <3>1. chroma = 5 * y + x + c /\ byte = 8 * x + 4 * c + 3
      BY <1>3, <1>4, <1>6, <1>7, <1>8, <2>2
    <3> QED
      BY <1>10, <3>1
  <2> QED
    BY <2>1, <2>2
<1> QED
  BY <1>1, <1>7, <1>13, <1>14, Zenon

\* A round keeps it all.
LEMMA YuvKept == YuvInv /\ [Convert]_yuvvars => YuvInv'
<1> SUFFICES ASSUME YuvInv, [Convert]_yuvvars PROVE YuvInv'
  OBVIOUS
<1>1. CASE Convert
  <2>1. dims' = dims /\ dims \in [w : Width, h : Height]
    BY <1>1 DEF YuvInv, Convert
  <2>2. ASSUME Even(dims.w) PROVE \E m \in Nat, b \in {0, 1}, c \in 0..(Half' - 1) : Done(m, b, c)'
    <3>1. PICK m \in Nat, b \in {0, 1}, c \in 0..(Half - 1) : Done(m, b, c)
      BY <2>2 DEF YuvInv
    <3>2. Half' = Half
      BY <2>1 DEF Half
    <3> QED
      BY <1>1, <2>1, <2>2, <3>1, <3>2, MovesOn
  <2>3. ASSUME Even(dims.w) PROVE i' <= yuv2_length(dims)
    <3>1. PICK m \in Nat, b \in {0, 1}, c \in 0..(Half - 1) : Done(m, b, c)
      BY <2>3 DEF YuvInv
    <3> DEFINE z == Half * dims.h  x == Half * m
    <3>2. z \in Nat /\ yuv2_length(dims) = 4 * z /\ Half \in Nat
      BY <2>1, <2>3, SizesAre
    <3>3. x \in Nat /\ i = 4 * (2 * x + (IF b = 1 THEN Half ELSE 0) + c)
      BY <2>1, <2>3, <3>1, DoneIs
    <3> DEFINE k == 2 * x + (IF b = 1 THEN Half ELSE 0) + c
    <3> HIDE DEF z, x
    <3>4. k \in Nat /\ i = 4 * k
      BY <3>2, <3>3
    <3>5. i < 4 * z /\ i' = i + 4
      BY <1>1, <3>2 DEF Convert
    <3> HIDE DEF k
    <3> QED
      BY <3>2, <3>4, <3>5
  <2>4. ASSUME Even(dims.w)
        PROVE  DOMAIN yuv420' = (0..(Y_index' - 1))
                                  \cup (U(dims)..(U(dims) + U_index' - 1))
                                  \cup (V(dims)..(V(dims) + V_index' - 1))
    BY <1>1, <2>4, PlanesGrow
  <2>5. ASSUME Even(dims.w), Even(dims.h)
        PROVE  \A p \in DOMAIN yuv420' : yuv420'[p] = Planes(dims)[p]
    BY <1>1, <2>5, BytesStay
  <2>6. /\ yuv2_length(dims)' = yuv2_length(dims) /\ U(dims)' = U(dims)
        /\ V(dims)' = V(dims) /\ Planes(dims)' = Planes(dims)
        /\ Even(dims.w)' = Even(dims.w) /\ Even(dims.h)' = Even(dims.h)
    BY <2>1
  <2> QED
    BY <2>1, <2>2, <2>3, <2>4, <2>5, <2>6 DEF YuvInv
<1>2. CASE UNCHANGED yuvvars
  BY <1>2 DEF yuvvars, YuvInv, Done, Half
<1> QED
  BY <1>1, <1>2

\* At the end of a frame of even height the planes are full.
LEMMA FullAtTheEnd ==
  ASSUME YuvInv, Even(dims.w), Even(dims.h), i >= yuv2_length(dims)
  PROVE  DOMAIN yuv420 = DOMAIN Planes(dims)
<1> DEFINE h == Half  g == dims.h \div 2  y == h * g
<1>1. /\ dims \in [w : Width, h : Height] /\ i <= yuv2_length(dims)
      /\ DOMAIN yuv420 = (0..(Y_index - 1))
                           \cup (U(dims)..(U(dims) + U_index - 1))
                           \cup (V(dims)..(V(dims) + V_index - 1))
  BY DEF YuvInv
<1>2. PICK m \in Nat, b \in {0, 1}, c \in 0..(Half - 1) : Done(m, b, c)
  BY DEF YuvInv
<1> DEFINE x == h * m
<1>3. h \in Nat \ {0} /\ yuv2_length(dims) = 4 * (h * dims.h)
  BY <1>1, SizesAre
<1>4. /\ y \in Nat /\ g \in Nat /\ h * dims.h = 2 * y /\ U(dims) = 4 * y /\ V(dims) = 5 * y
      /\ DOMAIN Planes(dims) = 0..(6 * y - 1)
  BY <1>1, PlanesAre
<1>5. /\ x \in Nat
      /\ i = 4 * (2 * x + (IF b = 1 THEN h ELSE 0) + c)
      /\ Y_index = 2 * (2 * x + (IF b = 1 THEN h ELSE 0) + c)
      /\ U_index = x + (IF b = 1 THEN c ELSE 0)
      /\ V_index = x + (IF b = 1 THEN h ELSE c)
  BY <1>1, <1>2, DoneIs
<1>6. m < g => x + h <= y
  <2>1. ASSUME m < g PROVE h * (m + 1) <= h * g
    <3> HIDE DEF h, g
    <3>1. m + 1 <= g /\ m + 1 \in Nat
      BY <1>4, <2>1
    <3> QED
      BY <1>3, <1>4, <3>1, SMT
  <2>2. h * (m + 1) = h * m + h
    BY <1>3, SMT
  <2> QED
    BY <2>1, <2>2
<1>7. m >= g => x >= y
  BY <1>3, <1>4, SMT
<1>8. c \in 0..(h - 1)
  OBVIOUS
<1>9. i = 8 * y
  <2>1. yuv2_length(dims) = 4 * (2 * y) /\ i <= yuv2_length(dims)
    BY <1>1, <1>3, <1>4
  <2> HIDE DEF x, y, h, g
  <2>2. i \in Int
    BY <1>3, <1>5, <1>8
  <2> QED
    BY <1>4, <2>1, <2>2
<1> HIDE DEF x, y, h, g
<1>10. m >= g
  <2>1. SUFFICES ASSUME m < g PROVE FALSE
    BY <1>4
  <2>2. x + h <= y
    BY <1>6, <2>1
  <2> QED
    BY <1>3, <1>4, <1>5, <1>8, <1>9, <2>2
<1>11. x = y /\ b = 0 /\ c = 0
  BY <1>3, <1>4, <1>5, <1>7, <1>8, <1>9, <1>10
<1>12. Y_index = 4 * y /\ U_index = y /\ V_index = y
  BY <1>4, <1>5, <1>11
<1>13. DOMAIN yuv420 = (0..(4 * y - 1)) \cup ((4 * y)..(5 * y - 1)) \cup ((5 * y)..(6 * y - 1))
  <2>1. 4 * y + y - 1 = 5 * y - 1 /\ 5 * y + y - 1 = 6 * y - 1
    BY <1>4
  <2> QED
    BY <1>1, <1>4, <1>12, <2>1
<1> QED
  BY <1>4, <1>13

\* No byte of a frame of even height is behind the buffer.
LEMMA WithinBuffer ==
  ASSUME YuvInv, Even(dims.w), Even(dims.h), NEW p \in DOMAIN yuv420
  PROVE  p < Allocated(dims)
<1> DEFINE h == Half  g == dims.h \div 2  y == h * g
<1>1. /\ dims \in [w : Width, h : Height] /\ i <= yuv2_length(dims)
      /\ DOMAIN yuv420 = (0..(Y_index - 1))
                           \cup (U(dims)..(U(dims) + U_index - 1))
                           \cup (V(dims)..(V(dims) + V_index - 1))
  BY DEF YuvInv
<1>2. PICK m \in Nat, b \in {0, 1}, c \in 0..(Half - 1) : Done(m, b, c)
  BY DEF YuvInv
<1> DEFINE x == h * m
<1>3. h \in Nat \ {0} /\ yuv2_length(dims) = 4 * (h * dims.h)
  BY <1>1, SizesAre
<1>4. /\ y \in Nat /\ h * dims.h = 2 * y /\ U(dims) = 4 * y /\ V(dims) = 5 * y
      /\ Allocated(dims) = 6 * y /\ DOMAIN Planes(dims) = 0..(6 * y - 1)
  BY <1>1, PlanesAre
<1>5. /\ x \in Nat
      /\ i = 4 * (2 * x + (IF b = 1 THEN h ELSE 0) + c)
      /\ Y_index = 2 * (2 * x + (IF b = 1 THEN h ELSE 0) + c)
      /\ U_index = x + (IF b = 1 THEN c ELSE 0)
      /\ V_index = x + (IF b = 1 THEN h ELSE c)
  BY <1>1, <1>2, DoneIs
<1>6. c \in 0..(h - 1)
  OBVIOUS
<1>7. CASE i >= yuv2_length(dims)
  <2>1. p \in 0..(6 * y - 1)
    BY <1>4, <1>7, FullAtTheEnd
  <2> HIDE DEF y
  <2> QED
    BY <1>4, <2>1
<1>8. CASE i < yuv2_length(dims)
  <2>1. x + h <= y
    BY <1>2, <1>8, RoomLeft
  <2> HIDE DEF x, y, h
  <2>2. Y_index <= 4 * y /\ U_index <= 2 * y /\ V_index <= y
    BY <1>3, <1>4, <1>5, <1>6, <2>1
  <2>3. Y_index \in Nat /\ U_index \in Nat /\ V_index \in Nat
    BY <1>3, <1>5, <1>6
  <2> QED
    BY <1>1, <1>4, <2>2, <2>3
<1>9. i \in Int /\ yuv2_length(dims) \in Int
  <2> HIDE DEF x, y, h
  <2>1. i \in Int
    BY <1>3, <1>5, <1>6
  <2>2. yuv2_length(dims) = 4 * (2 * y)
    BY <1>3, <1>4
  <2> QED
    BY <1>4, <2>1, <2>2
<1> QED
  BY <1>7, <1>8, <1>9

\* An odd height: the last line gives the V plane the bytes it has no room for.
LEMMA OddBehind ==
  ASSUME YuvInv, Even(dims.w), dims.w > 2, ~Even(dims.h), i >= yuv2_length(dims)
  PROVE  \E p \in DOMAIN yuv420 : p >= Allocated(dims)
<1> DEFINE h == Half  z == h * dims.h
<1>1. /\ dims \in [w : Width, h : Height] /\ i <= yuv2_length(dims)
      /\ DOMAIN yuv420 = (0..(Y_index - 1))
                           \cup (U(dims)..(U(dims) + U_index - 1))
                           \cup (V(dims)..(V(dims) + V_index - 1))
  BY DEF YuvInv
<1>2. PICK m \in Nat, b \in {0, 1}, c \in 0..(Half - 1) : Done(m, b, c)
  BY DEF YuvInv
<1> DEFINE x == h * m
<1>3. /\ h \in Nat \ {0} /\ dims.w = 2 * h /\ dims.h \in Nat \ {0} /\ z \in Nat
      /\ yuv2_length(dims) = 4 * z /\ Points(dims) = 2 * z
  BY <1>1, SizesAre
<1>4. /\ x \in Nat
      /\ i = 4 * (2 * x + (IF b = 1 THEN h ELSE 0) + c)
      /\ V_index = x + (IF b = 1 THEN h ELSE c)
  BY <1>1, <1>2, DoneIs
<1>5. c \in 0..(h - 1) /\ i = 4 * z
  <2>1. c \in 0..(h - 1)
    OBVIOUS
  <2> HIDE DEF h, x, z
  <2>2. i \in Int
    BY <1>3, <1>4, <2>1
  <2> QED
    BY <1>1, <1>3, <2>1, <2>2
<1>6. i = 4 * (h * (2 * m + b) + c)
  BY <1>2 DEF Done
<1>7. 2 * m + b = dims.h
  <2> DEFINE H == dims.h  l == 2 * m + b
  <2>1. l \in Int /\ H \in Int /\ 0 \in 0..(h - 1) /\ c \in 0..(h - 1) /\ h \in Nat \ {0}
    BY <1>3, <1>5
  <2>2. h * l \in Int /\ h * H \in Int
    BY <2>1, SMT
  <2>3. h * l + c = h * H + 0
    <3> DEFINE p == h * l  q == h * H
    <3>1. p \in Int /\ q \in Int /\ i = 4 * (p + c) /\ i = 4 * q
      BY <1>5, <1>6, <2>2
    <3> HIDE DEF p, q
    <3>2. p + c = q + 0
      BY <2>1, <3>1
    <3> QED
      BY <3>2 DEF p, q
  <2> HIDE DEF H, l
  <2>4. (h * l + c) \div h = l /\ (h * H + 0) \div h = H
    <3> HIDE DEF h
    <3> QED
      BY <2>1, RemainderIs
  <2>5. l = H
    BY <2>3, <2>4, Zenon
  <2> QED
    BY <2>5 DEF l, H
<1>8. b = 1
  <2>1. dims.h % 2 # 0
    BY DEF Even
  <2>2. (2 * m + 0) % 2 = 0
    BY SMT
  <2>3. SUFFICES ASSUME b = 0 PROVE FALSE
    OBVIOUS
  <2> QED
    BY <1>7, <2>1, <2>2, <2>3
<1>9. h >= 2
  BY <1>3
<1> DEFINE q == (2 * z) \div 4
           t == (3 * (2 * z)) \div 2
           p == 2 * z + q + V_index - 1
<1>10. U(dims) = 2 * z /\ V(dims) = 2 * z + q /\ Allocated(dims) = t
  <2> HIDE DEF z
  <2> QED
    BY <1>3 DEF U, V, Allocated
<1> HIDE DEF x, h, z
<1>11. c = 0 /\ z = 2 * x + h
  <2>1. z = 2 * x + h + c
    BY <1>3, <1>4, <1>5, <1>8
  <2>2. h * dims.h = 2 * x + h
    <3>1. h * (2 * m + 1) = 2 * (h * m) + h
      BY <1>3, SMT
    <3> QED
      BY <1>7, <1>8, <3>1 DEF x
  <2>3. z = 2 * x + h
    BY <2>2 DEF z
  <2> QED
    BY <1>3, <1>4, <1>5, <2>1, <2>3
<1>12. q \in Int /\ 4 * q >= 2 * z - 3 /\ t = 3 * z
  <2>1. 2 * z = 4 * q + ((2 * z) % 4) /\ q \in Int /\ (2 * z) % 4 \in 0..3
    <3> DEFINE e == 2 * z
    <3>1. e \in Int
      BY <1>3
    <3> HIDE DEF e
    <3>2. e = 4 * (e \div 4) + (e % 4) /\ e \div 4 \in Int /\ e % 4 \in 0..(4 - 1)
      BY <3>1, Divided
    <3>3. e = 4 * (e \div 4) + (e % 4) /\ e \div 4 \in Int /\ e % 4 \in 0..3
      BY <3>2
    <3> QED
      BY <3>3 DEF e
  <2>2. t = 3 * z
    BY <1>3
  <2> HIDE DEF q
  <2> QED
    BY <1>3, <2>1, <2>2
<1>13. V_index = x + h
  BY <1>4, <1>8
<1> HIDE DEF q, t
<1>14. p \in Int /\ p >= t
  BY <1>3, <1>4, <1>9, <1>11, <1>12, <1>13
<1>15. p \in DOMAIN yuv420
  <2>1. p \in (2 * z + q)..(2 * z + q + V_index - 1)
    BY <1>3, <1>4, <1>12, <1>13
  <2> QED
    BY <1>1, <1>10, <2>1
<1> QED
  BY <1>10, <1>14, <1>15

\* A frame of even width and height, of any size, is converted into its planes: no byte
\* goes elsewhere, behind the buffer or into a wrong plane, on the way or at the end; an
\* odd height does end behind the buffer.
THEOREM ConversionIsSound == YuvSpec => []ConversionSound
<1>1. YuvInv => ConversionSound
  <2> SUFFICES ASSUME YuvInv PROVE ConversionSound
    OBVIOUS
  <2>1. ASSUME Even(dims.w), Even(dims.h), NEW p \in DOMAIN yuv420
        PROVE  p < Allocated(dims) /\ yuv420[p] = Planes(dims)[p]
    BY <2>1, WithinBuffer DEF YuvInv
  <2>2. ASSUME Even(dims.w), Even(dims.h), i >= yuv2_length(dims)
        PROVE  DOMAIN yuv420 = DOMAIN Planes(dims)
    BY <2>2, FullAtTheEnd
  <2>3. ASSUME Even(dims.w), dims.w > 2, ~Even(dims.h), i >= yuv2_length(dims)
        PROVE  \E p \in DOMAIN yuv420 : p >= Allocated(dims)
    BY <2>3, OddBehind
  <2> QED
    BY <2>1, <2>2, <2>3 DEF ConversionSound
<1> QED
  BY <1>1, YuvStart, YuvKept, PTL DEF YuvSpec
================================================================================
