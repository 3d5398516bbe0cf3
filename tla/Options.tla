------------------------------ MODULE Options ------------------------------
(***************************************************************************)
(* From the command line to a running test: ProgramOptions::parse and      *)
(* to_config of utils/options.cpp, the configuration functions of          *)
(* utils/config.c and the steps of main of examples/cpp_test.cpp that use  *)
(* them.  The arguments are taken one at a time; an option may be given    *)
(* with a value, without one, or more than once.                           *)
(*                                                                         *)
(* The text of a numeric option is the number std::stoi reads in it, or    *)
(* NaN where std::stoi throws; the value of an option given without one    *)
(* is the text "true".  A value never begins with a minus sign, so it is   *)
(* never negative.  Fields of the configuration that nothing reads         *)
(* (inject_after_count, ramp_up_seconds, the logging limits) are left out. *)
(***************************************************************************)
EXTENDS Integers

CONSTANTS
  Inputs,     \* for each numeric option, the numbers users write
  FileNames   \* the file names users write

NaN == -1

NumberOptions == {"num-devices", "size", "rate", "threads", "duration"}
TextOptions == {"pattern", "error-scenario", "log-csv", "verbose"}

ASSUME OptionsAssumption ==
  /\ Inputs \in [NumberOptions -> SUBSET Nat]
  /\ "" \notin FileNames

Patterns == {"small-fast", "large-burst", "mixed", "custom"}
Scenarios == {"none", "timeout", "corruption", "overrun"}

VARIABLES
  phase,     \* where main is
  numbers,   \* values_ of the numeric options
  texts,     \* values_ of the others
  g_config   \* the configuration; before to_config, its defaults

options == <<phase, numbers, texts, g_config>>

-----------------------------------------------------------------------------
\* The predefined patterns.
Transfer(p, min, max, rate, burst) ==
  [pattern |-> p, min_size |-> min, max_size |-> max,
   rate_hz |-> rate, burst_count |-> burst]

SMALL_FAST_CONFIG == Transfer("small-fast", 64, 1024, 10000, 1)
LARGE_BURST_CONFIG == Transfer("large-burst", 1048576, 4194304, 100, 10)
MIXED_CONFIG == Transfer("mixed", 1024, 65536, 1000, 5)

\* The probability of an injected error is in thousandths.
config_init ==
  [num_devices |-> 1,
   transfer |-> MIXED_CONFIG,
   scenario |-> "none", probability |-> 0,
   num_threads |-> 1, duration_seconds |-> 10,
   flags |-> {}]

parse_pattern(s) == IF s \in Patterns THEN s ELSE "mixed"
parse_error_scenario(s) == IF s \in Scenarios THEN s ELSE "none"

\* Only called for a pattern other than custom.
set_pattern(c, p) ==
  [c EXCEPT !.transfer =
     CASE p = "small-fast" -> SMALL_FAST_CONFIG
       [] p = "large-burst" -> LARGE_BURST_CONFIG
       [] p = "mixed" -> MIXED_CONFIG]

\* Mutants: the burst count is not set; the smallest size is refused.
set_custom_pattern_burst_kept(c, size, rate) ==
  IF size >= 64 /\ size <= 4194304 /\ rate >= 1 /\ rate <= 10000
  THEN [c EXCEPT !.transfer = Transfer("custom", size, size, rate, @.burst_count)]
  ELSE c

set_custom_pattern_off_by_one(c, size, rate) ==
  IF size > 64 /\ size <= 4194304 /\ rate >= 1 /\ rate <= 10000
  THEN [c EXCEPT !.transfer = Transfer("custom", size, size, rate, 1)]
  ELSE c

\* An argument out of range leaves the configuration alone and returns -1,
\* which to_config ignores.
set_custom_pattern(c, size, rate) ==
  IF size >= 64 /\ size <= 4194304 /\ rate >= 1 /\ rate <= 10000
  THEN [c EXCEPT !.transfer = Transfer("custom", size, size, rate, 1)]
  ELSE c

Probability(s) ==
  CASE s = "none" -> 0 [] s = "timeout" -> 10
    [] s = "corruption" -> 5 [] s = "overrun" -> 20

set_error_scenario(c, s) ==
  [c EXCEPT !.scenario = s, !.probability = Probability(s),
            !.flags = IF s = "none" THEN @ \ {"errors"} ELSE @ \cup {"errors"}]

config_validate(c) ==
  /\ c.num_devices >= 1 /\ c.num_devices <= 8
  /\ c.transfer.min_size >= 64 /\ c.transfer.max_size <= 4194304
  /\ c.transfer.min_size <= c.transfer.max_size
  /\ c.transfer.rate_hz >= 1 /\ c.transfer.rate_hz <= 10000
  /\ c.probability >= 0 /\ c.probability <= 1000
  /\ c.num_threads <= 64
  /\ c.duration_seconds <= 3600

-----------------------------------------------------------------------------
\* The defaults of create_otpu_options; log-csv has none and is absent,
\* which get<std::string> reads as the empty string.
DefaultNumber == [o \in NumberOptions |->
  CASE o = "num-devices" -> 1 [] o = "size" -> 4096 [] o = "rate" -> 1000
    [] o = "threads" -> 1 [] o = "duration" -> 10]

Absent == ""

DefaultText == [o \in TextOptions |->
  CASE o = "pattern" -> "mixed" [] o = "error-scenario" -> "none"
    [] o = "log-csv" -> Absent [] o = "verbose" -> "false"]

number_validator(o, n) ==
  \/ o = "num-devices" /\ n >= 1 /\ n <= 8
  \/ o = "size" /\ n >= 64 /\ n <= 4194304
  \/ o = "rate" /\ n >= 1 /\ n <= 10000
  \/ o = "threads" /\ n >= 1 /\ n <= 64
  \/ o = "duration" /\ n >= 1 /\ n <= 3600

text_validator(o, s) ==
  CASE o = "pattern" -> s \in Patterns
    [] o = "error-scenario" -> s \in Scenarios
    [] OTHER -> TRUE

\* What users write for a text option: every name it knows, and one it does
\* not know.
TextInputs(o) ==
  CASE o = "pattern" -> Patterns \cup {"other"}
    [] o = "error-scenario" -> Scenarios \cup {"other"}
    [] o = "log-csv" -> FileNames
    [] o = "verbose" -> {"true", "false"}

OptionsInit ==
  /\ phase = "parse"
  /\ numbers = DefaultNumber
  /\ texts = DefaultText
  /\ g_config = config_init

-----------------------------------------------------------------------------
\* --help, an unknown option or alias, and an argument that is no option end
\* the program.
parse_stop ==
  /\ phase = "parse"
  /\ phase' = "exit"
  /\ UNCHANGED <<numbers, texts, g_config>>

\* A numeric option with a value.  The validator runs std::stoi on it, and
\* what that throws leaves main.
parse_number(o, n) ==
  /\ phase = "parse"
  /\ phase' = CASE n = NaN -> "terminated"
                [] n # NaN /\ ~number_validator(o, n) -> "exit"
                [] OTHER -> "parse"
  /\ numbers' = IF phase' = "parse" THEN [numbers EXCEPT ![o] = n] ELSE numbers
  /\ UNCHANGED <<texts, g_config>>

parse_text(o, s) ==
  /\ phase = "parse"
  /\ IF text_validator(o, s)
     THEN texts' = [texts EXCEPT ![o] = s] /\ phase' = phase
     ELSE texts' = texts /\ phase' = "exit"
  /\ UNCHANGED <<numbers, g_config>>

\* An option without a value gets the text "true", whatever the option: no
\* validator runs, and std::stoi will throw on it.
parse_bare(o) ==
  /\ phase = "parse"
  /\ IF o \in NumberOptions
     THEN numbers' = [numbers EXCEPT ![o] = NaN] /\ texts' = texts
     ELSE texts' = [texts EXCEPT ![o] = "true"] /\ numbers' = numbers
  /\ UNCHANGED <<phase, g_config>>

\* The arguments are used up; no option is required.
parse_end ==
  /\ phase = "parse"
  /\ phase' = "convert"
  /\ UNCHANGED <<numbers, texts, g_config>>

\* The options to_config reads with get<int>: size and rate only for a custom
\* pattern, the duration only when there is more than one thread.
Read ==
  {"num-devices", "threads"}
    \cup (IF parse_pattern(texts["pattern"]) = "custom" THEN {"size", "rate"} ELSE {})
    \cup (IF numbers["threads"] > 1 THEN {"duration"} ELSE {})

\* Each part of to_config, in its order.
Pattern(c) ==
  LET p == parse_pattern(texts["pattern"]) IN
    IF p = "custom" THEN set_custom_pattern(c, numbers["size"], numbers["rate"])
                    ELSE set_pattern(c, p)

Stress(c) ==
  IF numbers["threads"] > 1
  THEN [c EXCEPT !.num_threads = numbers["threads"],
                 !.duration_seconds = numbers["duration"],
                 !.flags = @ \cup {"stress"}]
  ELSE c

Logging(c) ==
  IF texts["log-csv"] # "" THEN [c EXCEPT !.flags = @ \cup {"logging"}] ELSE c

\* has_option: the option has a value, and verbose always has its default.
Verbosity(c) ==
  IF texts["verbose"] # Absent THEN [c EXCEPT !.flags = @ \cup {"verbose"}] ELSE c

to_config ==
  LET c0 == [config_init EXCEPT !.num_devices = numbers["num-devices"]]
      c1 == set_error_scenario(Pattern(c0),
                               parse_error_scenario(texts["error-scenario"]))
  IN  Verbosity(Logging(Stress(c1)))

convert ==
  /\ phase = "convert"
  /\ IF \E o \in Read : numbers[o] = NaN
     THEN phase' = "terminated" /\ g_config' = g_config
     ELSE phase' = "validate" /\ g_config' = to_config
  /\ UNCHANGED <<numbers, texts>>

validate ==
  /\ phase = "validate"
  /\ phase' = IF config_validate(g_config) THEN "run" ELSE "invalid"
  /\ UNCHANGED <<numbers, texts, g_config>>

OptionsNext ==
  \/ parse_stop
  \/ \E o \in NumberOptions : \E n \in Inputs[o] \cup {NaN} : parse_number(o, n)
  \/ \E o \in TextOptions : \E s \in TextInputs(o) : parse_text(o, s)
  \/ \E o \in NumberOptions \cup TextOptions : parse_bare(o)
  \/ parse_end
  \/ convert
  \/ validate

OptionsSpec == OptionsInit /\ [][OptionsNext]_options

-----------------------------------------------------------------------------
\* What the tests divide by: the rate (pattern_based_transfer_test), the rate
\* of bursts and the burst count (stress_test_worker), and the number of
\* devices (run_stress_tests).
pattern_test_divisors(c) ==
  IF c.transfer.pattern = "large-burst" THEN {} ELSE {c.transfer.rate_hz}

burst_rate(c) ==
  IF c.transfer.burst_count = 0 THEN 0
  ELSE c.transfer.rate_hz \div c.transfer.burst_count

stress_test_divisors(c) ==
  IF "stress" \in c.flags
  THEN {c.num_devices, c.transfer.burst_count, burst_rate(c)}
  ELSE {}

-----------------------------------------------------------------------------
\* The types of the options and of the configuration: parse stores only texts
\* and numbers its validators let through, or what a bare option stands for
\* (options.cpp:37-52), and to_config makes a configuration of the struct's
\* shape whatever the options are.
TypeOK ==
  /\ phase \in {"parse", "exit", "terminated", "convert", "validate", "run", "invalid"}
  /\ DOMAIN numbers = NumberOptions
  /\ \A o \in NumberOptions : numbers[o] = NaN \/ number_validator(o, numbers[o])
  /\ DOMAIN texts = TextOptions
  /\ \A o \in TextOptions : texts[o] \in TextInputs(o) \cup {Absent, "true"}
  /\ g_config.transfer.pattern \in Patterns
  /\ g_config.scenario \in Scenarios
  /\ g_config.flags \subseteq {"errors", "stress", "logging", "verbose"}

\* A test that runs divides by no configured number that is zero and draws its
\* sizes from an interval that is not empty: the pauses between transfers and
\* bursts and the assignment of threads to devices (cpp_test.cpp:118, 127, 238,
\* 292) are defined for every configuration that parse, to_config and validate
\* let through, although validate never looks at burst_count.  (The average of
\* line 243 divides by a number of transfers; it is the business of Session.)
RunsAreDefined ==
  phase = "run" =>
    /\ 0 \notin pattern_test_divisors(g_config) \cup stress_test_divisors(g_config)
    /\ g_config.transfer.min_size <= g_config.transfer.max_size
    /\ "stress" \in g_config.flags => g_config.duration_seconds >= 1

\* A test that runs is the one asked for: devices, pattern, error scenario,
\* threads, duration and log are those that parse has stored, the last value given.
\* to_config ignores the -1 of pcie_sim_config_set_custom_pattern
\* (options.cpp:158), which would leave the mixed pattern in place: the ranges
\* of the validators and those of config.c:101 agree, so that never happens.
\* Errors are injected exactly when a scenario was asked for, and then with a
\* positive probability; the stress test is made exactly when more than one
\* thread was asked for.  And options that parse accepts and to_config converts
\* pass the validation that main makes next (cpp_test.cpp:323).
OptionsAreHonoured ==
  /\ TypeOK
  /\ phase # "invalid"
  /\ phase = "run" =>
    /\ g_config.num_devices = numbers["num-devices"]
    /\ texts["pattern"] = "custom" =>
         /\ g_config.transfer.pattern = "custom"
         /\ g_config.transfer.min_size = numbers["size"]
         /\ g_config.transfer.max_size = numbers["size"]
         /\ g_config.transfer.rate_hz = numbers["rate"]
    /\ texts["pattern"] \in Patterns => g_config.transfer.pattern = texts["pattern"]
    /\ texts["error-scenario"] \in Scenarios => g_config.scenario = texts["error-scenario"]
    /\ "errors" \in g_config.flags <=> texts["error-scenario"] \in Scenarios \ {"none"}
    /\ "errors" \in g_config.flags <=> g_config.probability > 0
    /\ "stress" \in g_config.flags <=> numbers["threads"] > 1
    /\ "stress" \in g_config.flags =>
         /\ g_config.num_threads = numbers["threads"]
         /\ g_config.duration_seconds = numbers["duration"]
    /\ "logging" \in g_config.flags <=> texts["log-csv"] # Absent
=============================================================================
