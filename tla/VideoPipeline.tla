----------------------------- MODULE VideoPipeline -----------------------------
(***************************************************************************)
(* main (codes/scr/main.cpp) with the parts it drives: start-up, the loop  *)
(* that gets a frame, outputs it and counts it, and the way out.           *)
(*                                                                         *)
(* Each part appears with the outcomes main can see: the camera            *)
(* (CaptureQueue has the details), the sensor (SensorLink), the encoder    *)
(* (external: x264) and the RTP session (RtpSession).  Files that do not   *)
(* open and an encoder that does not open are not noticed by the code: the *)
(* first use of the null or wild pointer ends the program ("crashed").     *)
(*                                                                         *)
(* is_h264_out is 0 in every run (no option sets it), so that the writes   *)
(* of the H.264 file are not modelled; is_output_info is 0 or 1.           *)
(***************************************************************************)
EXTENDS Integers

CONSTANTS
  RunModes,         \* values of run_mode: 0 camera, 1 file, others do nothing
  EncodeModes,      \* values of encode_mode: 0 I frames, 1 IPPP, 2 optimization,
                    \* others leave the frame type alone
  Outputs,          \* output files that may be asked for: "yuv", "info"
  MaxFrameNumber,   \* the loop ends when frame_number exceeds it: 300 in the code
  StableNeeded,     \* equal samples before recording: 10 in the code
  InputFrames,      \* bound: whole frames in the input file
  MaxNals           \* bound: NAL units of a frame

ASSUME PipelineAssumption ==
  /\ RunModes \subseteq Nat /\ EncodeModes \subseteq Nat
  /\ Outputs \subseteq {"yuv", "info"}
  /\ MaxFrameNumber \in Nat /\ StableNeeded \in Nat \ {0}
  /\ InputFrames \in Nat /\ MaxNals \in Nat

VARIABLES
  pc,            \* where main is
  opt,           \* the parameters main and its callees test
  opened,        \* the files fopen could open
  camera,        \* "closed", "streaming", "off", or "error" after a failed call
  encoder,       \* "none", "open", "unopened" (x264_encoder_open failed), "closed"
  session,       \* "none", "created", "left"
  input,         \* frames left in the input file
  raw,           \* Raw_YUV420: "garbage", "new" or "output" already
  sensor_state,
  stable_num,
  frame_type,
  energy,        \* the pointer encode_frame leaves: "null", or "bogus" for 1
  nals,          \* NAL units of the encoded frame not sent yet
  frame_number,
  outputs        \* history: frames handed to the encoder or written to the file

vars == <<pc, opt, opened, camera, encoder, session, input, raw, sensor_state,
          stable_num, frame_type, energy, nals, frame_number, outputs>>
devices == <<opt, opened, camera, encoder, session>>
frame   == <<input, raw, outputs>>
sensor  == <<sensor_state, stable_num>>
coding  == <<frame_type, energy, nals>>

Ended == {"helped", "ended", "failed", "crashed"}

Options == [run_mode : RunModes, encode_mode : EncodeModes, out : SUBSET Outputs,
            energy_get : BOOLEAN, bad_ip : BOOLEAN]

yuv == "yuv" \in opt.out
Files == opt.out \cup (IF opt.run_mode = 1 THEN {"input"} ELSE {})

Init ==
  /\ pc = "params"
  /\ opt \in Options
  /\ opened = {}
  /\ camera = "closed"
  /\ encoder = "none"
  /\ session = "none"
  /\ input = InputFrames
  /\ raw = "garbage"
  /\ sensor_state = 0
  /\ stable_num = 0
  /\ frame_type = -1
  /\ energy = "null"
  /\ nals = 0
  /\ frame_number = 0
  /\ outputs = 0

-----------------------------------------------------------------------------
\* Start-up.  Asked for help, the program ends at once.
Global_Para_Init ==
  /\ pc = "params"
  /\ \/ pc' = "helped" /\ UNCHANGED opened
     \/ pc' = "video" /\ opened' \in SUBSET Files
  /\ UNCHANGED <<opt, camera, encoder, session, frame, sensor, coding, frame_number>>

\* The camera is opened in real-time mode only; a failing call ends the program.
Video_Init ==
  /\ pc = "video"
  /\ \/ opt.run_mode = 0 /\ camera' = "streaming" /\ pc' = "x264"
     \/ opt.run_mode = 0 /\ camera' = "error" /\ pc' = "failed"
     \/ opt.run_mode # 0 /\ camera' = camera /\ pc' = "x264"
  /\ UNCHANGED <<opt, opened, encoder, session, frame, sensor, coding, frame_number>>

X264_init ==
  /\ pc = "x264"
  /\ encoder' \in {"open", "unopened"}
  /\ pc' = "rtp"
  /\ UNCHANGED <<opt, opened, camera, session, frame, sensor, coding, frame_number>>

\* An address that does not parse is reported by a return value main ignores.
\* (The serial line and a first sample of the sensor follow.)
RTP_init ==
  /\ pc = "rtp"
  /\ \/ opt.bad_ip /\ session' = session /\ pc' = "loop"
     \/ ~opt.bad_ip /\ session' = "created" /\ pc' = "loop"
     \/ ~opt.bad_ip /\ session' = session /\ pc' = "failed"
  /\ UNCHANGED <<opt, opened, camera, encoder, frame, sensor, coding, frame_number>>

-----------------------------------------------------------------------------
\* The loop, first half: get a frame.

\* A sample that is close to the one before counts towards a stable sensor; the
\* first one is compared with uninitialized variables.
StableSample ==
  \/ stable_num' = stable_num + 1
  \/ stable_num' = 0

SensorGate ==
  /\ pc = "loop"
  /\ opt.run_mode = 0
  /\ \/ ~yuv /\ sensor_state' = 1 /\ UNCHANGED stable_num
     \/ /\ yuv /\ (~opt.energy_get \/ sensor_state = 1)
        /\ UNCHANGED sensor
     \/ /\ yuv /\ opt.energy_get /\ sensor_state = 0
        /\ StableSample
        /\ sensor_state' = IF stable_num' >= StableNeeded THEN 1 ELSE 0
  /\ pc' = "capture"
  /\ UNCHANGED <<devices, frame, coding, frame_number>>

Video_Capture ==
  /\ pc = "capture"
  /\ \/ raw' = "new" /\ pc' = "output" /\ UNCHANGED camera
     \/ camera' = "error" /\ pc' = "failed" /\ UNCHANGED raw
  /\ UNCHANGED <<opt, opened, encoder, session, input, outputs, sensor, coding,
                 frame_number>>

\* Bug: the end of the input is not noticed.
ReadInputNoEnd ==
  /\ pc = "loop"
  /\ opt.run_mode = 1
  /\ \/ /\ "input" \notin opened
        /\ pc' = "crashed"
        /\ UNCHANGED <<input, raw>>
     \/ /\ "input" \in opened /\ input = 0
        /\ pc' = "output"
        /\ UNCHANGED <<input, raw>>
     \/ /\ "input" \in opened /\ input > 0
        /\ input' = input - 1
        /\ raw' = "new"
        /\ pc' = "output"
  /\ UNCHANGED <<devices, outputs, sensor, coding, frame_number>>

ReadInput ==
  /\ pc = "loop"
  /\ opt.run_mode = 1
  /\ \/ /\ "input" \notin opened
        /\ pc' = "crashed"
        /\ UNCHANGED <<input, raw>>
     \/ /\ "input" \in opened /\ input = 0
        /\ pc' = "exit"
        /\ UNCHANGED <<input, raw>>
     \/ /\ "input" \in opened /\ input > 0
        /\ input' = input - 1
        /\ raw' = "new"
        /\ pc' = "output"
  /\ UNCHANGED <<devices, outputs, sensor, coding, frame_number>>

NoSource ==
  /\ pc = "loop"
  /\ opt.run_mode \notin {0, 1}
  /\ pc' = "output"
  /\ UNCHANGED <<devices, frame, sensor, coding, frame_number>>

-----------------------------------------------------------------------------
\* The loop, second half: output the frame.
WriteYUV ==
  /\ pc = "output"
  /\ yuv
  /\ \/ /\ sensor_state = 0
        /\ pc' = "mode"
        /\ UNCHANGED <<raw, outputs>>
     \/ /\ sensor_state = 1 /\ "yuv" \in opened
        /\ raw' = "output"
        /\ outputs' = outputs + 1
        /\ pc' = "mode"
     \/ /\ sensor_state = 1 /\ "yuv" \notin opened
        /\ pc' = "crashed"
        /\ UNCHANGED <<raw, outputs>>
  /\ UNCHANGED <<devices, input, sensor, coding, frame_number>>

\* encode_frame up to the sending: x264 may fail, which the frame count does not
\* notice.  What Get_Energy returns, 0 or 1, is stored as a pointer.
encode_frame ==
  /\ pc = "output"
  /\ ~yuv
  /\ \/ /\ encoder = "unopened"
        /\ pc' = "crashed"
        /\ UNCHANGED <<raw, outputs, energy, nals>>
     \/ /\ encoder = "open"
        /\ raw' = "output"
        /\ outputs' = outputs + 1
        /\ \/ pc' = "mode" /\ UNCHANGED <<energy, nals>>
           \/ /\ nals' \in 0..MaxNals
              /\ energy' = IF opt.energy_get THEN "bogus" ELSE "null"
              /\ pc' = "send"
  /\ UNCHANGED <<devices, input, sensor, frame_type, frame_number>>

\* One packet per NAL unit; any error, also a session that was never created,
\* ends the program in checkerror.
RTP_send ==
  /\ pc = "send"
  /\ \/ nals = 0 /\ pc' = "mode" /\ UNCHANGED nals
     \/ nals > 0 /\ session = "created" /\ nals' = nals - 1 /\ pc' = pc
     \/ nals > 0 /\ pc' = "failed" /\ UNCHANGED nals
  /\ UNCHANGED <<devices, frame, sensor, frame_type, energy, frame_number>>

\* Bug: IPPP mode falls into the test of optimization mode.
SetFrameTypeFalls ==
  /\ pc = "mode"
  /\ \/ /\ opt.encode_mode > 0
        /\ pc' = IF energy \in {"null", "bogus"} THEN "crashed" ELSE "count"
        /\ UNCHANGED frame_type
     \/ opt.encode_mode = 0 /\ frame_type' = 2 /\ pc' = "count"
  /\ UNCHANGED <<devices, frame, sensor, energy, nals, frame_number>>

\* The type asked for the next frame; optimization mode reads *energy.
SetFrameType ==
  /\ pc = "mode"
  /\ \/ /\ opt.encode_mode = 2
        /\ pc' = IF energy \in {"null", "bogus"} THEN "crashed" ELSE "count"
        /\ UNCHANGED frame_type
     \/ opt.encode_mode = 1 /\ frame_type' = -1 /\ pc' = "count"
     \/ opt.encode_mode = 0 /\ frame_type' = 2 /\ pc' = "count"
     \/ opt.encode_mode > 2 /\ UNCHANGED frame_type /\ pc' = "count"
  /\ UNCHANGED <<devices, frame, sensor, energy, nals, frame_number>>

\* Bug: every round counts.
CountedAlways == TRUE

\* Count the frame, print it to the info file, stop after frame 301.
Counted == ~yuv \/ sensor_state = 1

CountFrame ==
  /\ pc = "count"
  /\ frame_number' = IF Counted THEN frame_number + 1 ELSE frame_number
  /\ \/ /\ Counted /\ "info" \in opt.out \ opened
        /\ pc' = "crashed"
     \/ /\ ~Counted \/ "info" \notin opt.out \ opened
        /\ pc' = IF frame_number' > MaxFrameNumber THEN "exit" ELSE "loop"
  /\ UNCHANGED <<devices, frame, sensor, coding>>

-----------------------------------------------------------------------------
\* The way out: the same four calls in every mode.  fclose of a null pointer
\* crashes; only the input file is tested.
Globlal_Exit ==
  /\ pc = "exit"
  /\ pc' = IF opt.out \subseteq opened THEN "rtp_end" ELSE "crashed"
  /\ UNCHANGED <<devices, frame, sensor, coding, frame_number>>

\* BYEDestroy, for a session that RTP_init created.
RTP_end ==
  /\ pc = "rtp_end"
  /\ session' = IF session = "created" THEN "left" ELSE session
  /\ pc' = "x264_end"
  /\ UNCHANGED <<opt, opened, camera, encoder, frame, sensor, coding, frame_number>>

\* Without an encoder the picture that is cleaned was never initialized.
X264_end ==
  /\ pc = "x264_end"
  /\ encoder' = IF encoder = "open" THEN "closed" ELSE encoder
  /\ \/ pc' = "video_exit"
     \/ encoder = "unopened" /\ pc' = "crashed"
  /\ UNCHANGED <<opt, opened, camera, session, frame, sensor, coding, frame_number>>

\* STREAMOFF fails on a camera that was never opened.
Video_Exit ==
  /\ pc = "video_exit"
  /\ \/ camera = "streaming" /\ camera' = "off" /\ pc' = "ended"
     \/ camera' = "error" /\ pc' = "failed"
  /\ UNCHANGED <<opt, opened, encoder, session, frame, sensor, coding, frame_number>>

Next ==
  \/ Global_Para_Init \/ Video_Init \/ X264_init \/ RTP_init
  \/ SensorGate \/ Video_Capture \/ ReadInput \/ NoSource
  \/ WriteYUV \/ encode_frame \/ RTP_send \/ SetFrameType \/ CountFrame
  \/ Globlal_Exit \/ RTP_end \/ X264_end \/ Video_Exit

Spec == Init /\ [][Next]_vars

\* One thread that never waits for ever: the camera delivers (CaptureEnds of
\* CaptureQueue), the sensor answers (CallReturns of SensorLink), the user
\* presses the key that starts a recording.
FairSpec == Spec /\ WF_vars(Next)

-----------------------------------------------------------------------------
\* Types and ranges: main never counts beyond the limit plus one.
TypeOK ==
  /\ opt \in Options
  /\ camera \in {"closed", "streaming", "off", "error"}
  /\ encoder \in {"none", "open", "unopened", "closed"}
  /\ session \in {"none", "created", "left"}
  /\ input \in 0..InputFrames
  /\ raw \in {"garbage", "new", "output"}
  /\ sensor_state \in {0, 1}
  /\ stable_num \in 0..StableNeeded
  /\ frame_type \in {-1, 2}
  /\ energy \in {"null", "bogus"}
  /\ nals \in 0..MaxNals
  /\ frame_number \in 0..(MaxFrameNumber + 1)
  /\ outputs \in Nat

\* In the two documented modes every frame handed to the encoder or the file is
\* one that was captured or read since the last one: no frame goes out twice and
\* no uninitialized buffer goes out at all.
OutputsFreshFrame ==
  [][outputs' # outputs /\ opt.run_mode \in {0, 1} => raw = "new"]_vars

\* The frames counted towards the limit are those output, although counting and
\* output test different conditions: between iterations the numbers agree.
CountsOutputs ==
  pc \in {"loop", "capture", "exit"} => frame_number = outputs

\* The program runs into a null or wild pointer only for one of three reasons:
\* x264 did not open, a file did not open, or optimization mode.
CrashCauses ==
  pc = "crashed" =>
    \/ encoder = "unopened"
    \/ ~(Files \subseteq opened)
    \/ opt.encode_mode = 2

\* Coding stops: after 301 frames, at the end of the input or at an error.  Only
\* recording YUV from the camera may wait for ever, for a stable sensor.
Terminates ==
  ~yuv \/ opt.run_mode = 1 \/ sensor_state = 1 ~> pc \in Ended

\* When the loop ends the RTP session is left in the orderly way, in every mode,
\* unless an output file that is closed first was never opened.
LoopEndLeavesSession ==
  pc = "exit" /\ session = "created" ~> session = "left" \/ pc = "crashed"

\* The camera is closed after a run in real-time mode only; in test mode the exit
\* code fails in STREAMOFF, after everything else has been taken down.
OrderlyEnd ==
  /\ pc = "ended" => opt.run_mode = 0 /\ camera = "off"
  /\ opt.run_mode # 0 /\ camera = "error" => session # "created" /\ encoder # "open"

\* Recording needs the sensor and the camera: in test mode, or with the sensor
\* off, frames go round the loop and no YUV is ever written or counted.
RecordingNeedsSensor ==
  yuv /\ (opt.run_mode # 0 \/ ~opt.energy_get) => outputs = 0 /\ frame_number = 0

\* Optimization mode can be used: with its files and the encoder open it does not
\* end in a crash.
OptimizationModeRuns ==
  /\ opt.encode_mode = 2 /\ encoder = "open"
  /\ Files \subseteq opened
  => pc # "crashed"

\* The parts above in the form the run checks: what the loop counts, with the
\* types; how the program may end; and that it ends, the session first.
CountsSound == TypeOK /\ CountsOutputs /\ RecordingNeedsSensor
EndCauses == CrashCauses /\ OrderlyEnd
EndsLeavingSession == Terminates /\ LoopEndLeavesSession
=============================================================================
