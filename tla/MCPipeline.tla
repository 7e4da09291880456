------------------------------- MODULE MCPipeline -------------------------------
(***************************************************************************)
(* The program without its sessions under TLC.  A behaviour looks at one   *)
(* part, chosen at the start:                                              *)
(*   main     start-up, the loop and the way out                           *)
(*   options  the command line                                             *)
(*   frames   the conversion of one frame                                  *)
(***************************************************************************)
EXTENDS VideoPipeline, CommandLine, YuvTransform

VARIABLE focus

\* -s with both numbers, with the width alone, and with neither.
MCUnparsable == -100
MCSizes == {[w |-> 352, h |-> 288], [w |-> 352, h |-> MCUnparsable],
            [w |-> MCUnparsable, h |-> MCUnparsable]}

-----------------------------------------------------------------------------
MCInit ==
    /\ focus \in {"main", "options", "frames"}
    /\ Init /\ (focus # "main" => opt = CHOOSE o \in Options : TRUE)
    /\ OptionInit /\ (focus # "options" => platform = "ARM")
    /\ YuvInit /\ (focus # "frames" => dims = CHOOSE d \in [w : Width, h : Height] : TRUE)

MCNext ==
    /\ UNCHANGED focus
    /\ \/ focus = "main" /\ Next /\ UNCHANGED <<optionvars, yuvvars>>
       \/ focus = "options" /\ OptionNext /\ UNCHANGED <<vars, yuvvars>>
       \/ focus = "frames" /\ Convert /\ UNCHANGED <<vars, optionvars>>

\* Fairness of the main loop alone.
MCSpec ==
    /\ MCInit
    /\ [][MCNext]_<<focus, vars, optionvars, yuvvars>>
    /\ WF_vars(focus = "main" /\ Next)

-----------------------------------------------------------------------------
\* The program ends, and leaves its session first.
MainEnds == focus = "main" => EndsLeavingSession
=============================================================================
