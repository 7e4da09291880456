------------------------------ MODULE CommandLine ------------------------------
(***************************************************************************)
(* The parameters (option.cpp): defaults, then the options of the command  *)
(* line in their order, then a check that opens the files.  Options that   *)
(* only store a number (-q -p -c -r -l -g) are one option, "number".  -v   *)
(* has a case of its own in the switch and is missing in getopt's string:  *)
(* getopt answers '?', which has no case.                                  *)
(***************************************************************************)
EXTENDS Integers, Sequences

CONSTANTS
    Platform,     \* "ARM" or "PC"
    Sizes,        \* arguments of -s: width and height, or less that parses
    Numbers,      \* numbers given as arguments
    Unparsable,   \* what sscanf reads nothing from
    FileNames,    \* file names
    MaxOptions    \* bound on the options of a command line

\* "none" stands for an output that is off, so that no file has that name.
ASSUME OptionAssumption ==
    /\ "none" \notin FileNames
    /\ MaxOptions \in Nat

VARIABLES
    platform,
    para,      \* the parameters the options set
    files,     \* the files that were asked to be opened, by name
    stage,     \* "options", "checked" or "helped"
    given      \* history: the options so far

optionvars == <<platform, para, files, stage, given>>

\* Global_Para_Default
Defaults ==
    [width |-> IF platform = "ARM" THEN 176 ELSE 640,
     height |-> IF platform = "ARM" THEN 144 ELSE 480,
     number |-> 30, mv_range |-> -1, input |-> "/", run_mode |-> 0,
     energy_get |-> 0, info |-> "none", yuv |-> "none"]

Option ==
    [name : {"s"}, arg : Sizes]
    \cup [name : {"number", "m", "v"}, arg : Numbers \cup {Unparsable}]
    \cup [name : {"i", "o", "y"}, arg : FileNames]
    \cup [name : {"e", "h"}, arg : {Unparsable}]

OptionInit ==
    /\ platform \in Platform
    /\ para = Defaults
    /\ files = {} /\ stage = "options" /\ given = <<>>

-----------------------------------------------------------------------------
\* sscanf leaves what it cannot read.
Scanned(arg, old) == IF arg = Unparsable THEN old ELSE arg

\* Bug: only -m sets the run mode.
InputKeepsMode(name) == [para EXCEPT !.input = name]

\* -i
InputFile(name) == [para EXCEPT !.input = name, !.run_mode = 1]

\* The switch of Global_Para_Deal.
Deal(o) ==
    CASE o.name = "s" -> [para EXCEPT !.width = Scanned(o.arg.w, @), !.height = Scanned(o.arg.h, @)]
      [] o.name = "number" -> [para EXCEPT !.number = Scanned(o.arg, @)]
      [] o.name = "i" -> InputFile(o.arg)
      [] o.name = "m" -> [para EXCEPT !.run_mode = Scanned(o.arg, @)]
      [] o.name = "e" -> [para EXCEPT !.energy_get = 1]
      [] o.name = "o" -> [para EXCEPT !.info = o.arg]
      [] o.name = "y" -> [para EXCEPT !.yuv = o.arg]
      [] o.name \in {"v", "h"} -> para

NextOption(o) ==
    /\ stage = "options" /\ Len(given) < MaxOptions
    /\ para' = Deal(o)
    /\ given' = Append(given, o)
    /\ stage' = IF o.name = "h" THEN "helped" ELSE stage
    /\ UNCHANGED <<platform, files>>

\* Global_Para_Check, after the last option.
Global_Para_Check ==
    /\ stage = "options"
    /\ para' = IF platform = "PC" THEN [para EXCEPT !.energy_get = 0] ELSE para
    /\ files' = ({para.yuv, para.info} \ {"none"})
                   \cup (IF para.run_mode = 1 THEN {para.input} ELSE {})
    /\ stage' = "checked"
    /\ UNCHANGED <<platform, given>>

OptionNext ==
    \/ \E o \in Option : NextOption(o)
    \/ Global_Para_Check

OptionSpec == OptionInit /\ [][OptionNext]_optionvars

-----------------------------------------------------------------------------
\* The last of some places of the command line, or 0.
LastOf(places) == CHOOSE k \in places \cup {0} : \A l \in places : k >= l

\* The places that set an output file, and the mode, and a number of the size.
Named(name) == {k \in DOMAIN given : given[k].name = name}
Modes == Named("i") \cup {k \in Named("m") : given[k].arg # Unparsable}
Widths == {k \in Named("s") : given[k].arg.w # Unparsable}
Heights == {k \in Named("s") : given[k].arg.h # Unparsable}

\* What the command line as a whole says.
WidthSaid == IF Widths = {} THEN Defaults.width ELSE given[LastOf(Widths)].arg.w
HeightSaid == IF Heights = {} THEN Defaults.height ELSE given[LastOf(Heights)].arg.h
InputSaid == IF Named("i") = {} THEN Defaults.input ELSE given[LastOf(Named("i"))].arg
TestingSaid ==
    /\ Modes # {}
    /\ given[LastOf(Modes)].name = "i" \/ given[LastOf(Modes)].arg = 1
OutputsSaid ==
    {given[LastOf(Named(name))].arg : name \in {n \in {"o", "y"} : Named(n) # {}}}

\* What an option line means, whatever its order and repetitions:
\*  - test mode: the last option about the mode is -i, or -m with the number 1;
\*  - in test mode the file opened is that of the last -i, in real-time mode none;
\*  - width and height come from the last -s that gave them, not always the same;
\*  - -v has no effect; the sensor is never asked for on a PC;
\*  - a program that was asked for help has opened no file.
OptionsSound ==
    /\ stage = "checked" =>
          files = OutputsSaid \cup (IF TestingSaid THEN {InputSaid} ELSE {})
    /\ stage # "checked" => files = {}
    /\ para.width = WidthSaid
    /\ para.height = HeightSaid
    /\ para.mv_range = -1
    /\ stage = "checked" /\ platform = "PC" => para.energy_get = 0
=============================================================================
