---------------------------- MODULE CommandLine ----------------------------
(***************************************************************************)
(* parse_args_extended of cli.hpp: the arguments are read from left to      *)
(* right, each one changes the configuration, ends the program, or is       *)
(* rejected.  One action reads one argument; which ones the user gave, and  *)
(* in which order, is chosen as they are read.                              *)
(*                                                                         *)
(* Left out: no_color and quiet, which only change what is printed.         *)
(***************************************************************************)
EXTENDS Sizes

CONSTANTS
    MaxArgs,        \* bound on the number of arguments
    LogicalCores,   \* get_logical_core_count()
    UnsignedMod,    \* 2^32: the width to which --threads and --repeats are cut
    SizeArgs, ThreadArgs, TimeArgs, RepeatArgs, SocketArgs, PrecisionArgs

ASSUME CommandLineAssumption ==
    /\ MaxArgs \in Nat
    /\ LogicalCores \in Nat \ {0}
    /\ UnsignedMod \in Nat \ {0}
    /\ SizeArgs \subseteq Nat \X Nat \X Nat
    /\ ThreadArgs \subseteq Nat /\ RepeatArgs \subseteq Nat
    /\ TimeArgs \subseteq Int /\ SocketArgs \subseteq Int
    /\ PrecisionArgs \subseteq {"float", "double", "fp64", "fp16", "int8", "fp4"}

VARIABLES
    pc,           \* where main is; "exited" after it has returned
    exit,         \* the exit code of the process, "Running" before
    argc,         \* arguments read so far
    config,       \* ExtendedConfig, with the fields of its base Config
    onlyNeutral   \* only_neutral_flags

cliVars == <<pc, exit, argc, config, onlyNeutral>>

Modes   == {"mem", "stencil", "matmul3d", "compute", "cache"}
Outputs == {"text", "json", "csv"}

DefaultConfig ==
    [mode |-> "mem", size |-> DefaultSize, threads |-> 0, min_time |-> 3,
     precision |-> "float", repeats |-> 5, output |-> "text",
     run_all_precisions |-> FALSE, force_scalar |-> FALSE, auto_size |-> TRUE,
     explicit_size_set |-> FALSE, enable_warmup |-> TRUE,
     high_priority |-> FALSE, run_full_test |-> FALSE, selected_socket |-> -1,
     threads_modified |-> FALSE, time_modified |-> FALSE,
     repeats_modified |-> FALSE, precision_single_modified |-> FALSE]

CliInit ==
    /\ pc = "parse"
    /\ exit = "Running"
    /\ argc = 0
    /\ config = DefaultConfig
    /\ onlyNeutral = TRUE

Leave(code) == pc' = "exited" /\ exit' = code

ReadArg ==
    /\ pc = "parse"
    /\ argc < MaxArgs
    /\ argc' = argc + 1

\* The argument is accepted and changes the configuration to c.
Accept(c) ==
    /\ ReadArg
    /\ config' = c
    /\ UNCHANGED <<pc, exit>>

Neutral(c)    == Accept(c) /\ UNCHANGED onlyNeutral
NotNeutral(c) == Accept(c) /\ onlyNeutral' = FALSE

Stop(code) ==
    /\ ReadArg
    /\ Leave(code)
    /\ UNCHANGED <<config, onlyNeutral>>

ParseHelpOrVersion == Stop("Success")

\* An unknown argument, or a value that its parser throws on.
ParseRejected == Stop("InvalidArguments")

ParseFlag ==
    \/ Neutral(config)                                   \* --no-color, --quiet
    \/ Neutral([config EXCEPT !.force_scalar = TRUE])
    \/ \E b \in BOOLEAN : Neutral([config EXCEPT !.auto_size = b])
    \/ Neutral([config EXCEPT !.enable_warmup = FALSE])
    \/ Neutral([config EXCEPT !.high_priority = TRUE])

ParseSocket ==
    \E n \in SocketArgs :
        \/ n >= 0 /\ Neutral([config EXCEPT !.selected_socket = n])
        \/ n < 0 /\ Stop("InvalidArguments")

ParseMode == \E m \in Modes : NotNeutral([config EXCEPT !.mode = m])

ParseSize ==
    \E s \in SizeArgs :
        NotNeutral([config EXCEPT !.size = s, !.explicit_size_set = TRUE])

ParseThreads ==
    \E n \in ThreadArgs :
        NotNeutral([config EXCEPT !.threads = n % UnsignedMod,
                                  !.threads_modified = TRUE])

\* A fault: a changed time is thought not to change the test.
ParseTime_Neutral ==
    \E t \in TimeArgs :
        Neutral([config EXCEPT !.min_time = t, !.time_modified = TRUE])

ParseTime ==
    \E t \in TimeArgs :
        NotNeutral([config EXCEPT !.min_time = t, !.time_modified = TRUE])

ParsePrecision ==
    \/ NotNeutral([config EXCEPT !.run_all_precisions = TRUE,
                                 !.precision = "fp64",
                                 !.precision_single_modified = FALSE])
    \/ \E p \in PrecisionArgs :
        NotNeutral([config EXCEPT !.run_all_precisions = FALSE,
                                  !.precision = p,
                                  !.precision_single_modified = TRUE])

ParseRepeats ==
    \E n \in RepeatArgs :
        NotNeutral([config EXCEPT !.repeats = n % UnsignedMod,
                                  !.repeats_modified = TRUE])

\* --output leaves only_neutral_flags alone.
ParseOutput == \E f \in Outputs : Neutral([config EXCEPT !.output = f])

\* validate_config
SizeValid(c) ==
    /\ 0 \notin {c.size[1], c.size[2], c.size[3]}
    /\ ~ TotalOverflows(c.size)
    /\ c.mode = "stencil" => \A d \in 1 .. 3 : c.size[d] >= 3
    /\ c.mode = "matmul3d" => c.size[1] = c.size[2]

Valid(c) ==
    /\ SizeValid(c)
    /\ c.threads <= LogicalCores * 4
    /\ c.min_time > 0
    /\ c.repeats # 0

\* The arguments have all been read; their number is not used any more.
EndOfArgs ==
    /\ pc = "parse"
    /\ argc' = 0
    /\ config' = [config EXCEPT !.run_full_test = onlyNeutral]
    /\ IF Valid(config) THEN pc' = "start" /\ UNCHANGED exit
       ELSE Leave("InvalidArguments")
    /\ UNCHANGED onlyNeutral

ParseArgs ==
    \/ ParseHelpOrVersion \/ ParseRejected \/ ParseFlag \/ ParseSocket
    \/ ParseMode \/ ParseSize \/ ParseThreads \/ ParseTime \/ ParsePrecision
    \/ ParseRepeats \/ ParseOutput \/ EndOfArgs

is_submission_eligible(c) ==
    /\ ~ c.threads_modified /\ ~ c.time_modified /\ ~ c.repeats_modified
    /\ ~ c.explicit_size_set /\ ~ c.force_scalar
    /\ c.enable_warmup
    /\ c.run_full_test \/ ~ c.precision_single_modified
=============================================================================
