------------------------- MODULE TestProgramProofs -------------------------
(***************************************************************************)
(* Theorems about the test program: Options, for any numbers and file      *)
(* names users write, and Session, for any configurations and any number   *)
(* of transfers, and that the first makes configurations that the second   *)
(* assumes.                                                                *)
(*                                                                         *)
(* The inductive invariant OptionsInv says what parse has stored and that  *)
(* the configuration is one that to_config makes of it; the lemmas say     *)
(* what each part of to_config does to a configuration.  The inductive     *)
(* invariant of the session, SessionInv, ties each thread's place in its   *)
(* test to its handle, its counts and its record, main's place to those of *)
(* the workers, and the mutex of the log to the threads between row and    *)
(* count; a row is new because it bears the number of an attempt that no   *)
(* row of its thread has yet.                                              *)
(***************************************************************************)
EXTENDS Options, Session, FiniteSetTheorems, TLAPS

-----------------------------------------------------------------------------
(***************************************************************************)
(* The options.                                                            *)
(***************************************************************************)

Flags == {"errors", "stress", "logging", "verbose"}

TransferType == [pattern : Patterns, min_size : Nat, max_size : Nat, rate_hz : Nat,
                 burst_count : Nat]

ConfigType == [num_devices : Int, transfer : TransferType, scenario : Scenarios,
               probability : Nat, num_threads : Int, duration_seconds : Int,
               flags : SUBSET Flags]

\* What parse stores.
Parsed ==
  /\ numbers \in [NumberOptions -> Int]
  /\ \A o \in NumberOptions : numbers[o] = NaN \/ number_validator(o, numbers[o])
  /\ texts = [o \in TextOptions |-> texts[o]]
  /\ \A o \in TextOptions : texts[o] \in TextInputs(o) \cup {Absent, "true"}

\* Every option that to_config reads is a number.
Readable == \A o \in Read : numbers[o] # NaN

-----------------------------------------------------------------------------
\* The ranges of the validators.
DeviceRange(n) == n >= 1 /\ n <= 8
SizeRange(n) == n >= 64 /\ n <= 4194304
RateRange(n) == n >= 1 /\ n <= 10000
ThreadRange(n) == n >= 1 /\ n <= 64
DurationRange(n) == n >= 1 /\ n <= 3600

LEMMA ValidatorRanges ==
  ASSUME NEW n \in Int
  PROVE  /\ number_validator("num-devices", n) <=> DeviceRange(n)
         /\ number_validator("size", n) <=> SizeRange(n)
         /\ number_validator("rate", n) <=> RateRange(n)
         /\ number_validator("threads", n) <=> ThreadRange(n)
         /\ number_validator("duration", n) <=> DurationRange(n)
<1>1. number_validator("num-devices", n) <=> DeviceRange(n)
  BY SMT DEF number_validator, DeviceRange
<1>2. number_validator("size", n) <=> SizeRange(n)
  BY SMT DEF number_validator, SizeRange
<1>3. number_validator("rate", n) <=> RateRange(n)
  BY SMT DEF number_validator, RateRange
<1>4. number_validator("threads", n) <=> ThreadRange(n)
  BY SMT DEF number_validator, ThreadRange
<1>5. number_validator("duration", n) <=> DurationRange(n)
  BY SMT DEF number_validator, DurationRange
<1> QED BY <1>1, <1>2, <1>3, <1>4, <1>5, Zenon

LEMMA Ranges ==
  ASSUME Parsed
  PROVE  /\ numbers["num-devices"] # NaN => DeviceRange(numbers["num-devices"])
         /\ numbers["size"] # NaN => SizeRange(numbers["size"])
         /\ numbers["rate"] # NaN => RateRange(numbers["rate"])
         /\ numbers["threads"] # NaN => ThreadRange(numbers["threads"])
         /\ numbers["duration"] # NaN => DurationRange(numbers["duration"])
<1>1. \A o \in NumberOptions : /\ numbers[o] \in Int
                               /\ numbers[o] # NaN => number_validator(o, numbers[o])
  BY Zenon DEF Parsed
<1>2. {"num-devices", "size", "rate", "threads", "duration"} \subseteq NumberOptions
  BY Zenon DEF NumberOptions
<1> QED BY <1>1, <1>2, ValidatorRanges, Zenon

LEMMA InitialConfig == config_init \in ConfigType
<1>1. MIXED_CONFIG \in TransferType
  BY SMT DEF MIXED_CONFIG, Transfer, TransferType, Patterns
<1> QED BY <1>1, SMT DEF config_init, ConfigType, Scenarios

\* What setting one field does.
LEMMA SetDevices ==
  ASSUME NEW c \in ConfigType, NEW n \in Int
  PROVE  LET d == [c EXCEPT !.num_devices = n] IN
         /\ d \in ConfigType /\ d.num_devices = n /\ d.transfer = c.transfer
         /\ d.scenario = c.scenario /\ d.probability = c.probability
         /\ d.num_threads = c.num_threads /\ d.duration_seconds = c.duration_seconds
         /\ d.flags = c.flags
BY Zenon DEF ConfigType

LEMMA SetTransfer ==
  ASSUME NEW c \in ConfigType, NEW t \in TransferType
  PROVE  LET d == [c EXCEPT !.transfer = t] IN
         /\ d \in ConfigType /\ d.num_devices = c.num_devices /\ d.transfer = t
         /\ d.scenario = c.scenario /\ d.probability = c.probability
         /\ d.num_threads = c.num_threads /\ d.duration_seconds = c.duration_seconds
         /\ d.flags = c.flags
BY Zenon DEF ConfigType

ErrorFields(c, d, s, p, f) ==
  /\ d \in ConfigType /\ d.num_devices = c.num_devices /\ d.transfer = c.transfer
  /\ d.scenario = s /\ d.probability = p
  /\ d.num_threads = c.num_threads /\ d.duration_seconds = c.duration_seconds
  /\ d.flags = f

LEMMA SetErrors ==
  ASSUME NEW c \in ConfigType, NEW s \in Scenarios, NEW p \in Nat, NEW f \in SUBSET Flags
  PROVE  ErrorFields(c, [c EXCEPT !.scenario = s, !.probability = p, !.flags = f], s, p, f)
BY Zenon DEF ConfigType, ErrorFields

ThreadFields(c, d, n, s, f) ==
  /\ d \in ConfigType /\ d.num_devices = c.num_devices /\ d.transfer = c.transfer
  /\ d.scenario = c.scenario /\ d.probability = c.probability
  /\ d.num_threads = n /\ d.duration_seconds = s /\ d.flags = f

LEMMA SetThreads ==
  ASSUME NEW c \in ConfigType, NEW n \in Int, NEW s \in Int, NEW f \in SUBSET Flags
  PROVE  ThreadFields(c, [c EXCEPT !.num_threads = n, !.duration_seconds = s, !.flags = f],
                      n, s, f)
BY Zenon DEF ConfigType, ThreadFields

LEMMA SetFlags ==
  ASSUME NEW c \in ConfigType, NEW f \in SUBSET Flags
  PROVE  LET d == [c EXCEPT !.flags = f] IN
         /\ d \in ConfigType /\ d.num_devices = c.num_devices /\ d.transfer = c.transfer
         /\ d.scenario = c.scenario /\ d.probability = c.probability
         /\ d.num_threads = c.num_threads /\ d.duration_seconds = c.duration_seconds
         /\ d.flags = f
BY Zenon DEF ConfigType

-----------------------------------------------------------------------------
\* A transfer configuration that validate accepts and the tests can divide by.
SizesFit(t) == t.min_size >= 64 /\ t.max_size <= 4194304

GoodTransfer(t) ==
  /\ t \in TransferType
  /\ SizesFit(t)
  /\ t.min_size <= t.max_size
  /\ RateRange(t.rate_hz)
  /\ t.burst_count >= 1
  /\ t.rate_hz \div t.burst_count >= 1

LEMMA PredefinedTransfers ==
  /\ GoodTransfer(SMALL_FAST_CONFIG) /\ SMALL_FAST_CONFIG.pattern = "small-fast"
  /\ GoodTransfer(LARGE_BURST_CONFIG) /\ LARGE_BURST_CONFIG.pattern = "large-burst"
  /\ GoodTransfer(MIXED_CONFIG) /\ MIXED_CONFIG.pattern = "mixed"
<1>1. GoodTransfer(SMALL_FAST_CONFIG) /\ SMALL_FAST_CONFIG.pattern = "small-fast"
  BY SMT DEF SMALL_FAST_CONFIG, Transfer, GoodTransfer, TransferType, Patterns, RateRange,
    SizesFit
<1>2. GoodTransfer(LARGE_BURST_CONFIG) /\ LARGE_BURST_CONFIG.pattern = "large-burst"
  BY SMT DEF LARGE_BURST_CONFIG, Transfer, GoodTransfer, TransferType, Patterns, RateRange,
    SizesFit
<1>3. GoodTransfer(MIXED_CONFIG) /\ MIXED_CONFIG.pattern = "mixed"
  BY SMT DEF MIXED_CONFIG, Transfer, GoodTransfer, TransferType, Patterns, RateRange,
    SizesFit
<1> QED BY <1>1, <1>2, <1>3, Zenon

LEMMA CustomTransfer ==
  ASSUME NEW size \in Int, NEW rate \in Int, SizeRange(size), RateRange(rate)
  PROVE  LET t == Transfer("custom", size, size, rate, 1) IN
         /\ GoodTransfer(t) /\ t.pattern = "custom"
         /\ t.min_size = size /\ t.max_size = size /\ t.rate_hz = rate
BY SMT DEF Transfer, GoodTransfer, TransferType, Patterns, SizeRange, RateRange, SizesFit

\* The transfer configuration that to_config chooses.
LEMMA PatternTransfer ==
  ASSUME NEW c \in ConfigType, Parsed, Readable
  PROVE  \E t : /\ Pattern(c) = [c EXCEPT !.transfer = t]
                /\ GoodTransfer(t)
                /\ t.pattern = parse_pattern(texts["pattern"])
                /\ t.pattern = "custom" => /\ t.min_size = numbers["size"]
                                           /\ t.max_size = numbers["size"]
                                           /\ t.rate_hz = numbers["rate"]
<1>1. PICK p : p = parse_pattern(texts["pattern"])
  BY Zenon
<1>2. p \in {"small-fast", "large-burst", "mixed", "custom"}
  BY <1>1, Zenon DEF parse_pattern, Patterns
<1>3. CASE p = "custom"
  <2>1. "size" \in Read /\ "rate" \in Read
    BY <1>1, <1>3, Zenon DEF Read
  <2>2. numbers["size"] # NaN /\ numbers["rate"] # NaN
    BY <2>1, Zenon DEF Readable
  <2>3. PICK size \in Int, rate \in Int : size = numbers["size"] /\ rate = numbers["rate"]
    BY Zenon DEF Parsed, NumberOptions
  <2>4. SizeRange(size) /\ RateRange(rate)
    BY <2>2, <2>3, Ranges, Zenon
  <2>5. Pattern(c) = set_custom_pattern(c, size, rate)
    BY <1>1, <1>3, <2>3, Zenon DEF Pattern
  <2>6. size >= 64 /\ size <= 4194304 /\ rate >= 1 /\ rate <= 10000
    BY <2>4, SMT DEF SizeRange, RateRange
  <2>7. set_custom_pattern(c, size, rate)
          = [c EXCEPT !.transfer = Transfer("custom", size, size, rate, 1)]
    BY <2>6, SMT DEF set_custom_pattern
  <2> HIDE <2>6
  <2>8. PICK t : t = Transfer("custom", size, size, rate, 1)
    BY Zenon
  <2>9. /\ GoodTransfer(t) /\ t.pattern = "custom"
        /\ t.min_size = size /\ t.max_size = size /\ t.rate_hz = rate
    BY <2>4, <2>8, CustomTransfer, Zenon
  <2>10. Pattern(c) = [c EXCEPT !.transfer = t]
    BY <2>5, <2>7, <2>8, Zenon
  <2> QED BY <1>1, <1>3, <2>3, <2>9, <2>10, Zenon
<1>4. CASE p # "custom"
  <2>1. Pattern(c) = set_pattern(c, p)
    BY <1>1, <1>4, Zenon DEF Pattern
  <2>2. CASE p = "small-fast"
    <3>1. set_pattern(c, p) = [c EXCEPT !.transfer = SMALL_FAST_CONFIG]
      BY <2>2, Zenon DEF set_pattern
    <3> QED BY <1>1, <2>1, <2>2, <3>1, PredefinedTransfers, Zenon
  <2>3. CASE p = "large-burst"
    <3>1. set_pattern(c, p) = [c EXCEPT !.transfer = LARGE_BURST_CONFIG]
      BY <2>3, Zenon DEF set_pattern
    <3> QED BY <1>1, <2>1, <2>3, <3>1, PredefinedTransfers, Zenon
  <2>4. CASE p = "mixed"
    <3>1. set_pattern(c, p) = [c EXCEPT !.transfer = MIXED_CONFIG]
      BY <2>4, Zenon DEF set_pattern
    <3> QED BY <1>1, <2>1, <2>4, <3>1, PredefinedTransfers, Zenon
  <2> QED BY <1>2, <1>4, <2>2, <2>3, <2>4, Zenon
<1> QED BY <1>3, <1>4, Zenon

ProbabilityRange(p) == p >= 0 /\ p <= 1000

\* An error scenario has a positive probability exactly when it is one.
LEMMA ProbabilityOf ==
  ASSUME NEW s \in Scenarios
  PROVE  /\ Probability(s) \in Nat
         /\ ProbabilityRange(Probability(s))
         /\ Probability(s) > 0 <=> s # "none"
<1>1. Probability("none") = 0
  BY Zenon DEF Probability
<1>2. Probability("timeout") = 10
  BY Zenon DEF Probability
<1>3. Probability("corruption") = 5
  BY Zenon DEF Probability
<1>4. Probability("overrun") = 20
  BY Zenon DEF Probability
<1>5. s \in {"none", "timeout", "corruption", "overrun"}
  BY Zenon DEF Scenarios
<1>6. PICK p : p = Probability(s)
  BY Zenon
<1>7. (s = "none" /\ p = 0) \/ (s = "timeout" /\ p = 10)
        \/ (s = "corruption" /\ p = 5) \/ (s = "overrun" /\ p = 20)
  BY <1>1, <1>2, <1>3, <1>4, <1>5, <1>6, Zenon
<1>8. p \in Nat /\ ProbabilityRange(p) /\ (p > 0 <=> s # "none")
  BY <1>7, SMT DEF ProbabilityRange
<1> QED BY <1>6, <1>8, Zenon

-----------------------------------------------------------------------------
\* What to_config makes of the options parse has stored.
Converted(c) ==
  /\ c \in ConfigType
  /\ c.num_devices = numbers["num-devices"] /\ DeviceRange(c.num_devices)
  /\ GoodTransfer(c.transfer)
  /\ c.transfer.pattern = parse_pattern(texts["pattern"])
  /\ c.transfer.pattern = "custom" =>
       /\ c.transfer.min_size = numbers["size"]
       /\ c.transfer.max_size = numbers["size"]
       /\ c.transfer.rate_hz = numbers["rate"]
  /\ c.scenario = parse_error_scenario(texts["error-scenario"])
  /\ c.probability = Probability(c.scenario)
  /\ "errors" \in c.flags <=> c.scenario # "none"
  /\ ThreadRange(c.num_threads)
  /\ DurationRange(c.duration_seconds)
  /\ "stress" \in c.flags <=> c.num_threads > 1
  /\ "stress" \in c.flags <=> numbers["threads"] > 1
  /\ "stress" \in c.flags => /\ c.num_threads = numbers["threads"]
                             /\ c.duration_seconds = numbers["duration"]

LogAsked(c) == "logging" \in c.flags <=> texts["log-csv"] # Absent

\* The same without the parts that Stress and Logging set.
BeforeStress(c) ==
  /\ c \in ConfigType
  /\ c.num_devices = numbers["num-devices"] /\ DeviceRange(c.num_devices)
  /\ GoodTransfer(c.transfer)
  /\ c.transfer.pattern = parse_pattern(texts["pattern"])
  /\ c.transfer.pattern = "custom" =>
       /\ c.transfer.min_size = numbers["size"]
       /\ c.transfer.max_size = numbers["size"]
       /\ c.transfer.rate_hz = numbers["rate"]
  /\ c.scenario = parse_error_scenario(texts["error-scenario"])
  /\ c.probability = Probability(c.scenario)
  /\ "errors" \in c.flags <=> c.scenario # "none"
  /\ c.num_threads = 1 /\ c.duration_seconds = 10
  /\ "stress" \notin c.flags /\ "logging" \notin c.flags

LEMMA ErrorsSet ==
  ASSUME NEW c \in ConfigType, Parsed,
         c.num_devices = numbers["num-devices"], DeviceRange(c.num_devices),
         GoodTransfer(c.transfer),
         c.transfer.pattern = parse_pattern(texts["pattern"]),
         c.transfer.pattern = "custom" =>
           /\ c.transfer.min_size = numbers["size"]
           /\ c.transfer.max_size = numbers["size"]
           /\ c.transfer.rate_hz = numbers["rate"],
         c.num_threads = 1, c.duration_seconds = 10, c.flags = {}
  PROVE  BeforeStress(set_error_scenario(c, parse_error_scenario(texts["error-scenario"])))
<1>1. PICK s \in Scenarios : s = parse_error_scenario(texts["error-scenario"])
  BY Zenon DEF parse_error_scenario, Scenarios
<1>2. PICK p \in Nat : p = Probability(s)
  BY ProbabilityOf, Zenon
<1>3. PICK f \in SUBSET Flags :
        f = IF s = "none" THEN c.flags \ {"errors"} ELSE c.flags \cup {"errors"}
  BY Zenon DEF Flags
<1>4. "stress" \notin f /\ "logging" \notin f /\ ("errors" \in f <=> s # "none")
  BY <1>3, Zenon
<1> DEFINE d == [c EXCEPT !.scenario = s, !.probability = p, !.flags = f]
<1>6. set_error_scenario(c, s) = d
  BY <1>2, <1>3, Zenon DEF set_error_scenario
<1>7. ErrorFields(c, d, s, p, f)
  BY SetErrors, Zenon
<1> HIDE DEF d
<1>8. BeforeStress(d)
  BY <1>1, <1>2, <1>4, <1>7, Zenon DEF BeforeStress, ErrorFields
<1> QED BY <1>1, <1>6, <1>8, Zenon

LEMMA StressSet ==
  ASSUME NEW c, BeforeStress(c), Parsed, Readable
  PROVE  Converted(Stress(c)) /\ "logging" \notin Stress(c).flags
<1>1. "threads" \in Read
  BY Zenon DEF Read
<1>2. PICK n \in Int, s \in Int : n = numbers["threads"] /\ s = numbers["duration"]
  BY Zenon DEF Parsed, NumberOptions
<1>3. ThreadRange(n)
  BY <1>1, <1>2, Ranges, Zenon DEF Readable
<1>4. CASE n > 1
  <2>1. "duration" \in Read
    BY <1>2, <1>4, Zenon DEF Read
  <2>2. DurationRange(s)
    BY <2>1, <1>2, Ranges, Zenon DEF Readable
  <2>3. PICK f \in SUBSET Flags : f = c.flags \cup {"stress"}
    BY Zenon DEF Flags, BeforeStress, ConfigType
  <2>4. "stress" \in f /\ "logging" \notin f /\ ("errors" \in f <=> "errors" \in c.flags)
    BY <2>3, Zenon DEF BeforeStress
  <2> DEFINE d == [c EXCEPT !.num_threads = n, !.duration_seconds = s, !.flags = f]
  <2>6. Stress(c) = d
    BY <1>2, <1>4, <2>3, Zenon DEF Stress
  <2>7. c \in ConfigType
    BY Zenon DEF BeforeStress
  <2>8. ThreadFields(c, d, n, s, f)
    BY <2>7, SetThreads, Zenon
  <2> HIDE DEF d
  <2>9. Converted(d) /\ "logging" \notin d.flags
    BY <1>2, <1>3, <1>4, <2>2, <2>4, <2>8, Zenon DEF BeforeStress, Converted, ThreadFields
  <2> QED BY <2>6, <2>9, Zenon
<1>5. CASE ~(n > 1)
  <2>1. Stress(c) = c
    BY <1>2, <1>5, Zenon DEF Stress
  <2>2. ThreadRange(1) /\ DurationRange(10) /\ ~(1 > 1)
    BY SMT DEF ThreadRange, DurationRange
  <2>3. Converted(c) /\ "logging" \notin c.flags
    BY <1>2, <1>5, <2>2, Zenon DEF BeforeStress, Converted
  <2> QED BY <2>1, <2>3, Zenon
<1> QED BY <1>4, <1>5, Zenon

LEMMA FlagAdded ==
  ASSUME NEW c, Converted(c), NEW g \in {"logging", "verbose"}
  PROVE  /\ Converted([c EXCEPT !.flags = @ \cup {g}])
         /\ [c EXCEPT !.flags = @ \cup {g}].flags = c.flags \cup {g}
<1>1. c \in ConfigType
  BY Zenon DEF Converted
<1>2. PICK f \in SUBSET Flags : f = c.flags \cup {g}
  BY <1>1, Zenon DEF Flags, ConfigType
<1>3. ("stress" \in f <=> "stress" \in c.flags) /\ ("errors" \in f <=> "errors" \in c.flags)
  BY <1>2, Zenon
<1>4. PICK d : d = [c EXCEPT !.flags = f]
  BY Zenon
<1>5. [c EXCEPT !.flags = @ \cup {g}] = d
  BY <1>2, <1>4, Zenon
<1>6. /\ d \in ConfigType /\ d.num_devices = c.num_devices /\ d.transfer = c.transfer
      /\ d.scenario = c.scenario /\ d.probability = c.probability
      /\ d.num_threads = c.num_threads /\ d.duration_seconds = c.duration_seconds
      /\ d.flags = f
  BY <1>1, <1>4, SetFlags, Zenon
<1>7. Converted(d)
  BY <1>3, <1>6, Zenon DEF Converted
<1> QED BY <1>2, <1>5, <1>6, <1>7, Zenon

LEMMA ToConfig ==
  ASSUME Parsed, Readable
  PROVE  Converted(to_config) /\ LogAsked(to_config)
<1>1. PICK n \in Int : n = numbers["num-devices"]
  BY Zenon DEF Parsed, NumberOptions
<1>2. DeviceRange(n)
  <2>1. "num-devices" \in Read
    BY Zenon DEF Read
  <2> QED BY <1>1, <2>1, Ranges, Zenon DEF Readable
<1>3. PICK c0 : c0 = [config_init EXCEPT !.num_devices = n]
  BY Zenon
<1>4. /\ c0 \in ConfigType /\ c0.num_devices = n
      /\ c0.num_threads = config_init.num_threads
      /\ c0.duration_seconds = config_init.duration_seconds
      /\ c0.flags = config_init.flags
  BY <1>3, InitialConfig, SetDevices, Zenon
<1>5. config_init.num_threads = 1 /\ config_init.duration_seconds = 10 /\ config_init.flags = {}
  BY Zenon DEF config_init
<1>6. PICK t : /\ Pattern(c0) = [c0 EXCEPT !.transfer = t]
               /\ GoodTransfer(t)
               /\ t.pattern = parse_pattern(texts["pattern"])
               /\ t.pattern = "custom" => /\ t.min_size = numbers["size"]
                                          /\ t.max_size = numbers["size"]
                                          /\ t.rate_hz = numbers["rate"]
  BY <1>4, PatternTransfer, Zenon
<1>7. t \in TransferType
  BY <1>6, Zenon DEF GoodTransfer
<1>8. PICK c1 : c1 = [c0 EXCEPT !.transfer = t]
  BY Zenon
<1>9. /\ c1 \in ConfigType /\ c1.num_devices = c0.num_devices /\ c1.transfer = t
      /\ c1.num_threads = c0.num_threads /\ c1.duration_seconds = c0.duration_seconds
      /\ c1.flags = c0.flags
  BY <1>4, <1>7, <1>8, SetTransfer, Zenon
<1>10. PICK c2 : c2 = set_error_scenario(c1, parse_error_scenario(texts["error-scenario"]))
  BY Zenon
<1>11. BeforeStress(c2)
  <2>1. c1.num_devices = numbers["num-devices"] /\ DeviceRange(c1.num_devices)
    BY <1>1, <1>2, <1>4, <1>9, Zenon
  <2>2. GoodTransfer(c1.transfer)
    BY <1>6, <1>9, Zenon
  <2>3. c1.transfer.pattern = parse_pattern(texts["pattern"])
    BY <1>6, <1>9, Zenon
  <2>4. c1.transfer.pattern = "custom" =>
          /\ c1.transfer.min_size = numbers["size"]
          /\ c1.transfer.max_size = numbers["size"]
          /\ c1.transfer.rate_hz = numbers["rate"]
    BY <1>6, <1>9, Zenon
  <2>5. c1.num_threads = 1 /\ c1.duration_seconds = 10 /\ c1.flags = {}
    BY <1>4, <1>5, <1>9, Zenon
  <2>6. BeforeStress(set_error_scenario(c1, parse_error_scenario(texts["error-scenario"])))
    BY <1>9, <2>1, <2>2, <2>3, <2>4, <2>5, ErrorsSet, Zenon
  <2> QED BY <1>10, <2>6, Zenon
<1>12. PICK c3 : c3 = Stress(c2)
  BY Zenon
<1>13. Converted(c3) /\ "logging" \notin c3.flags
  BY <1>11, <1>12, StressSet, Zenon
<1>14. PICK c4 : c4 = Logging(c3)
  BY Zenon
<1>15. Converted(c4) /\ LogAsked(c4)
  <2>1. /\ Converted([c3 EXCEPT !.flags = @ \cup {"logging"}])
        /\ "logging" \in [c3 EXCEPT !.flags = @ \cup {"logging"}].flags
    BY <1>13, FlagAdded, Zenon
  <2> QED BY <1>13, <1>14, <2>1, Zenon DEF Logging, LogAsked, Absent
<1>16. Converted(Verbosity(c4)) /\ LogAsked(Verbosity(c4))
  <2>1. PICK d : d = [c4 EXCEPT !.flags = @ \cup {"verbose"}]
    BY Zenon
  <2>2. Converted(d) /\ d.flags = c4.flags \cup {"verbose"}
    BY <1>15, <2>1, FlagAdded, Zenon
  <2>3. LogAsked(d)
    BY <1>15, <2>2, Zenon DEF LogAsked
  <2> QED BY <1>15, <2>1, <2>2, <2>3, Zenon DEF Verbosity
<1>17. to_config = Verbosity(c4)
  BY <1>1, <1>3, <1>6, <1>8, <1>10, <1>12, <1>14, Zenon DEF to_config
<1> QED BY <1>16, <1>17, Zenon

\* validate accepts every configuration that to_config makes.
LEMMA ConvertedIsValid ==
  ASSUME NEW c, Converted(c)
  PROVE  config_validate(c)
<1>1. c.scenario \in Scenarios
  BY Zenon DEF Converted, ConfigType
<1>2. c.probability \in Nat /\ ProbabilityRange(c.probability)
  <2>1. c.probability = Probability(c.scenario)
    BY Zenon DEF Converted
  <2> QED BY <1>1, <2>1, ProbabilityOf, Zenon
<1>3. c.probability >= 0 /\ c.probability <= 1000
  BY <1>2, SMT DEF ProbabilityRange
<1>4. DeviceRange(c.num_devices) /\ ThreadRange(c.num_threads)
        /\ DurationRange(c.duration_seconds) /\ GoodTransfer(c.transfer)
  BY Zenon DEF Converted
<1>5. c.num_devices >= 1 /\ c.num_devices <= 8 /\ c.num_threads <= 64
        /\ c.duration_seconds <= 3600
  BY <1>4, SMT DEF DeviceRange, ThreadRange, DurationRange
<1>6. /\ c.transfer.min_size >= 64 /\ c.transfer.max_size <= 4194304
      /\ c.transfer.min_size <= c.transfer.max_size
      /\ c.transfer.rate_hz >= 1 /\ c.transfer.rate_hz <= 10000
  BY <1>4, SMT DEF GoodTransfer, RateRange, SizesFit
<1> QED BY <1>3, <1>5, <1>6, SMT DEF config_validate

-----------------------------------------------------------------------------
\* Once to_config has run the configuration is what the options ask for, and
\* validate then accepts it.
OptionsInv ==
  /\ phase \in {"parse", "exit", "terminated", "convert", "validate", "run"}
  /\ Parsed
  /\ phase \in {"parse", "exit", "terminated", "convert"} => g_config = config_init
  /\ phase \in {"validate", "run"} => Converted(g_config) /\ LogAsked(g_config)

LEMMA DefaultsAreValid ==
  /\ DefaultNumber \in [NumberOptions -> Int]
  /\ \A o \in NumberOptions : number_validator(o, DefaultNumber[o])
<1> DEFINE value(o) ==
      CASE o = "num-devices" -> 1 [] o = "size" -> 4096 [] o = "rate" -> 1000
        [] o = "threads" -> 1 [] o = "duration" -> 10
<1>0. DefaultNumber = [o \in NumberOptions |-> value(o)]
  BY SMT DEF DefaultNumber
<1> HIDE DEF value
<1>1. DefaultNumber = [o \in NumberOptions |-> DefaultNumber[o]]
  BY <1>0, Zenon
<1>2. DefaultNumber["num-devices"] = 1
  BY SMT DEF DefaultNumber, NumberOptions
<1>3. DefaultNumber["size"] = 4096
  BY SMT DEF DefaultNumber, NumberOptions
<1>4. DefaultNumber["rate"] = 1000
  BY SMT DEF DefaultNumber, NumberOptions
<1>5. DefaultNumber["threads"] = 1
  BY SMT DEF DefaultNumber, NumberOptions
<1>6. DefaultNumber["duration"] = 10
  BY SMT DEF DefaultNumber, NumberOptions
<1>7. ASSUME NEW o \in NumberOptions
      PROVE  DefaultNumber[o] \in Int /\ number_validator(o, DefaultNumber[o])
  <2>1. o \in {"num-devices", "size", "rate", "threads", "duration"}
    BY Zenon DEF NumberOptions
  <2>2. PICK n : n = DefaultNumber[o]
    BY Zenon
  <2>3. (o = "num-devices" /\ n = 1) \/ (o = "size" /\ n = 4096) \/ (o = "rate" /\ n = 1000)
          \/ (o = "threads" /\ n = 1) \/ (o = "duration" /\ n = 10)
    BY <1>2, <1>3, <1>4, <1>5, <1>6, <2>1, <2>2, SMT
  <2>4. n \in Int /\ number_validator(o, n)
    BY <2>3, SMT DEF number_validator
  <2> QED BY <2>2, <2>4, Zenon
<1> QED BY <1>1, <1>7, Zenon

LEMMA DefaultTexts ==
  /\ DefaultText = [o \in TextOptions |-> DefaultText[o]]
  /\ \A o \in TextOptions : DefaultText[o] \in TextInputs(o) \cup {Absent, "true"}
<1> DEFINE value(o) ==
      CASE o = "pattern" -> "mixed" [] o = "error-scenario" -> "none"
        [] o = "log-csv" -> Absent [] o = "verbose" -> "false"
<1>0. DefaultText = [o \in TextOptions |-> value(o)]
  BY Zenon DEF DefaultText
<1> HIDE DEF value
<1>1. DefaultText = [o \in TextOptions |-> DefaultText[o]]
  BY <1>0, Zenon
<1>2. DefaultText["pattern"] = "mixed" /\ "mixed" \in TextInputs("pattern")
  BY Zenon DEF DefaultText, TextOptions, TextInputs, Patterns
<1>3. DefaultText["error-scenario"] = "none" /\ "none" \in TextInputs("error-scenario")
  BY Zenon DEF DefaultText, TextOptions, TextInputs, Scenarios
<1>4. DefaultText["log-csv"] = Absent
  BY Zenon DEF DefaultText, TextOptions
<1>5. DefaultText["verbose"] = "false" /\ "false" \in TextInputs("verbose")
  BY Zenon DEF DefaultText, TextOptions, TextInputs
<1> QED BY <1>1, <1>2, <1>3, <1>4, <1>5, Zenon DEF TextOptions

LEMMA OptionsInvInit == OptionsInit => OptionsInv
<1> SUFFICES ASSUME OptionsInit PROVE OptionsInv
  OBVIOUS
<1>1. phase = "parse" /\ numbers = DefaultNumber /\ texts = DefaultText /\ g_config = config_init
  BY Zenon DEF OptionsInit
<1>2. Parsed
  BY <1>1, DefaultsAreValid, DefaultTexts, Zenon DEF Parsed
<1> QED BY <1>1, <1>2, Zenon DEF OptionsInv

\* A step of parse leaves the configuration at its defaults.
LEMMA ParseKeepsInv ==
  ASSUME OptionsInv, phase = "parse", Parsed',
         phase' \in {"parse", "exit", "terminated", "convert"}, g_config' = g_config
  PROVE  OptionsInv'
BY Zenon DEF OptionsInv

\* Only the phase and the configuration change.
LEMMA ParsedKept ==
  ASSUME Parsed, UNCHANGED <<numbers, texts>>
  PROVE  Parsed'
BY Zenon DEF Parsed

LEMMA NumberStored ==
  ASSUME Parsed, NEW o \in NumberOptions, NEW n \in Int,
         n = NaN \/ number_validator(o, n),
         numbers' = [numbers EXCEPT ![o] = n], texts' = texts
  PROVE  Parsed'
<1>1. numbers' \in [NumberOptions -> Int]
  BY Zenon DEF Parsed
<1>2. ASSUME NEW q \in NumberOptions
      PROVE  numbers'[q] = NaN \/ number_validator(q, numbers'[q])
  <2>1. CASE q = o
    BY <2>1, Zenon DEF Parsed
  <2>2. CASE q # o
    BY <2>2, Zenon DEF Parsed
  <2> QED BY <2>1, <2>2, Zenon
<1> QED BY <1>1, <1>2, Zenon DEF Parsed

LEMMA TextStored ==
  ASSUME Parsed, NEW o \in TextOptions, NEW s \in TextInputs(o) \cup {Absent, "true"},
         texts' = [texts EXCEPT ![o] = s], numbers' = numbers
  PROVE  Parsed'
<1>1. texts' = [q \in TextOptions |-> texts'[q]]
  BY Zenon DEF Parsed
<1>2. ASSUME NEW q \in TextOptions
      PROVE  texts'[q] \in TextInputs(q) \cup {Absent, "true"}
  <2>1. CASE q = o
    BY <2>1, Zenon DEF Parsed
  <2>2. CASE q # o
    BY <2>2, Zenon DEF Parsed
  <2> QED BY <2>1, <2>2, Zenon
<1> QED BY <1>1, <1>2, Zenon DEF Parsed

LEMMA OptionsInvStep == OptionsInv /\ [OptionsNext]_options => OptionsInv'
<1> SUFFICES ASSUME OptionsInv, [OptionsNext]_options PROVE OptionsInv'
  OBVIOUS
<1>1. Parsed
  BY Zenon DEF OptionsInv
<1>2. CASE parse_stop
  BY <1>1, <1>2, ParsedKept, ParseKeepsInv, Zenon DEF parse_stop
<1>3. ASSUME NEW o \in NumberOptions, NEW n \in Inputs[o] \cup {NaN}, parse_number(o, n)
      PROVE  OptionsInv'
  <2>1. n \in Int
    <3>1. Inputs[o] \in SUBSET Nat
      BY OptionsAssumption, Zenon
    <3>2. CASE n \in Inputs[o]
      BY <3>1, <3>2, SMT
    <3>3. CASE n = NaN
      BY <3>3, SMT DEF NaN
    <3> QED BY <3>2, <3>3, Zenon
  <2>2. /\ phase = "parse" /\ texts' = texts /\ g_config' = g_config
        /\ phase' \in {"parse", "exit", "terminated"}
    BY <1>3, Zenon DEF parse_number
  <2>3. CASE phase' = "parse"
    <3>1. numbers' = [numbers EXCEPT ![o] = n] /\ number_validator(o, n)
      BY <1>3, <2>3, Zenon DEF parse_number
    <3>2. Parsed'
      BY <1>1, <2>1, <2>2, <3>1, NumberStored, Zenon
    <3> QED BY <2>2, <3>2, ParseKeepsInv, Zenon
  <2>4. CASE phase' # "parse"
    <3>1. numbers' = numbers
      BY <1>3, <2>4, Zenon DEF parse_number
    <3>2. Parsed'
      BY <1>1, <2>2, <3>1, ParsedKept, Zenon
    <3> QED BY <2>2, <3>2, ParseKeepsInv, Zenon
  <2> QED BY <2>3, <2>4, Zenon
<1>4. ASSUME NEW o \in TextOptions, NEW s \in TextInputs(o), parse_text(o, s)
      PROVE  OptionsInv'
  <2>1. phase = "parse" /\ numbers' = numbers /\ g_config' = g_config
    BY <1>4, Zenon DEF parse_text
  <2>2. CASE text_validator(o, s)
    <3>1. texts' = [texts EXCEPT ![o] = s] /\ phase' = phase
      BY <1>4, <2>2, Zenon DEF parse_text
    <3>2. s \in TextInputs(o) \cup {Absent, "true"}
      BY Zenon
    <3>3. Parsed'
      BY <1>1, <2>1, <3>1, <3>2, TextStored, Zenon
    <3> QED BY <2>1, <3>1, <3>3, ParseKeepsInv, Zenon
  <2>3. CASE ~text_validator(o, s)
    <3>1. texts' = texts /\ phase' = "exit"
      BY <1>4, <2>3, Zenon DEF parse_text
    <3>2. Parsed'
      BY <1>1, <2>1, <3>1, ParsedKept, Zenon
    <3> QED BY <2>1, <3>1, <3>2, ParseKeepsInv, Zenon
  <2> QED BY <2>2, <2>3, Zenon
<1>5. ASSUME NEW o \in NumberOptions \cup TextOptions, parse_bare(o)
      PROVE  OptionsInv'
  <2>1. phase = "parse" /\ phase' = phase /\ g_config' = g_config
    BY <1>5, Zenon DEF parse_bare
  <2>2. CASE o \in NumberOptions
    <3>1. numbers' = [numbers EXCEPT ![o] = NaN] /\ texts' = texts
      BY <1>5, <2>2, Zenon DEF parse_bare
    <3>2. NaN \in Int
      BY SMT DEF NaN
    <3>3. Parsed'
      BY <1>1, <2>2, <3>1, <3>2, NumberStored, Zenon
    <3> QED BY <2>1, <3>3, ParseKeepsInv, Zenon
  <2>3. CASE o \notin NumberOptions
    <3>1. texts' = [texts EXCEPT ![o] = "true"] /\ numbers' = numbers
      BY <1>5, <2>3, Zenon DEF parse_bare
    <3>2. o \in TextOptions /\ "true" \in TextInputs(o) \cup {Absent, "true"}
      BY <2>3, Zenon
    <3>3. Parsed'
      BY <1>1, <3>1, <3>2, TextStored, Zenon
    <3> QED BY <2>1, <3>3, ParseKeepsInv, Zenon
  <2> QED BY <2>2, <2>3, Zenon
<1>6. CASE parse_end
  BY <1>1, <1>6, ParsedKept, ParseKeepsInv, Zenon DEF parse_end
<1>7. CASE convert
  <2>1. phase = "convert" /\ numbers' = numbers /\ texts' = texts
    BY <1>7, Zenon DEF convert
  <2>2. Parsed'
    BY <1>1, <2>1, ParsedKept, Zenon
  <2>3. CASE \E o \in Read : numbers[o] = NaN
    BY <1>7, <2>1, <2>2, <2>3, Zenon DEF convert, OptionsInv
  <2>4. CASE ~\E o \in Read : numbers[o] = NaN
    <3>1. Readable
      BY <2>4, Zenon DEF Readable
    <3>2. phase' = "validate" /\ g_config' = to_config
      BY <1>7, <2>4, Zenon DEF convert
    <3>3. Converted(g_config') /\ LogAsked(g_config')
      BY <1>1, <3>1, <3>2, ToConfig, Zenon
    <3>4. Converted(g_config)' /\ LogAsked(g_config)'
      BY <2>1, <3>3, Zenon DEF Converted, GoodTransfer, LogAsked
    <3> QED BY <2>2, <3>2, <3>4, Zenon DEF OptionsInv
  <2> QED BY <2>3, <2>4, Zenon
<1>8. CASE validate
  <2>1. /\ phase = "validate" /\ numbers' = numbers /\ texts' = texts /\ g_config' = g_config
        /\ phase' = IF config_validate(g_config) THEN "run" ELSE "invalid"
    BY <1>8, Zenon DEF validate
  <2>2. Parsed'
    BY <1>1, <2>1, ParsedKept, Zenon
  <2>3. Converted(g_config) /\ LogAsked(g_config)
    BY <2>1, Zenon DEF OptionsInv
  <2>4. phase' = "run"
    BY <2>1, <2>3, ConvertedIsValid, Zenon
  <2>5. Converted(g_config)' /\ LogAsked(g_config)'
    BY <2>1, <2>3, Zenon DEF Converted, GoodTransfer, LogAsked
  <2> QED BY <2>2, <2>4, <2>5, Zenon DEF OptionsInv
<1>9. CASE UNCHANGED options
  <2>1. phase' = phase /\ numbers' = numbers /\ texts' = texts /\ g_config' = g_config
    BY <1>9, Zenon DEF options
  <2>2. Parsed'
    BY <1>1, <2>1, ParsedKept, Zenon
  <2>3. phase \in {"validate", "run"} => Converted(g_config)' /\ LogAsked(g_config)'
    BY <2>1, Zenon DEF OptionsInv, Converted, LogAsked
  <2> QED BY <2>1, <2>2, <2>3, Zenon DEF OptionsInv
<1> QED BY <1>2, <1>3, <1>4, <1>5, <1>6, <1>7, <1>8, <1>9, Zenon DEF OptionsNext

-----------------------------------------------------------------------------
LEMMA ConvertedIsTyped ==
  ASSUME NEW c, Converted(c)
  PROVE  /\ c.transfer.pattern \in Patterns
         /\ c.scenario \in Scenarios
         /\ c.flags \subseteq {"errors", "stress", "logging", "verbose"}
<1>1. c.transfer \in TransferType
  BY Zenon DEF Converted, GoodTransfer
<1> QED BY <1>1, Zenon DEF Converted, ConfigType, TransferType, Flags

LEMMA InvTypeOK ==
  ASSUME OptionsInv
  PROVE  TypeOK
<1>1. /\ g_config.transfer.pattern \in Patterns
      /\ g_config.scenario \in Scenarios
      /\ g_config.flags \subseteq {"errors", "stress", "logging", "verbose"}
  <2>1. CASE g_config = config_init
    <3>1. /\ config_init.transfer = MIXED_CONFIG /\ config_init.scenario = "none"
          /\ config_init.flags = {}
      BY Zenon DEF config_init
    <3>2. MIXED_CONFIG.pattern \in Patterns
      BY PredefinedTransfers, Zenon DEF Patterns
    <3> QED BY <2>1, <3>1, <3>2, Zenon DEF Scenarios
  <2>2. CASE Converted(g_config)
    BY <2>2, ConvertedIsTyped, Zenon
  <2> QED BY <2>1, <2>2, Zenon DEF OptionsInv
<1>2. DOMAIN numbers = NumberOptions /\ DOMAIN texts = TextOptions
  BY Zenon DEF OptionsInv, Parsed
<1> QED BY <1>1, <1>2, Zenon DEF OptionsInv, Parsed, TypeOK

\* Nothing that a test divides by is zero.
LEMMA DivisorsArePositive ==
  ASSUME NEW c, Converted(c)
  PROVE  0 \notin pattern_test_divisors(c) \cup stress_test_divisors(c)
<1>1. /\ c.num_devices \in Int /\ c.transfer.rate_hz \in Nat /\ c.transfer.burst_count \in Nat
  BY Zenon DEF Converted, GoodTransfer, ConfigType, TransferType
<1>2. DeviceRange(c.num_devices) /\ RateRange(c.transfer.rate_hz)
        /\ c.transfer.burst_count >= 1 /\ c.transfer.rate_hz \div c.transfer.burst_count >= 1
  BY Zenon DEF Converted, GoodTransfer
<1>3. PICK n, r, b, q : /\ n = c.num_devices /\ r = c.transfer.rate_hz
                        /\ b = c.transfer.burst_count
                        /\ q = c.transfer.rate_hz \div c.transfer.burst_count
  BY Zenon
<1>4. n # 0 /\ r # 0 /\ b # 0
  BY <1>1, <1>2, <1>3, SMT DEF DeviceRange, RateRange
<1>5. q # 0
  <2>1. q \in Int
    BY <1>1, <1>2, <1>3, SMT
  <2> QED BY <1>2, <1>3, <2>1, SMT
<1>6. burst_rate(c) = q
  BY <1>3, <1>4, Zenon DEF burst_rate
<1>7. 0 \notin pattern_test_divisors(c)
  BY <1>3, <1>4, Zenon DEF pattern_test_divisors
<1>8. 0 \notin stress_test_divisors(c)
  BY <1>3, <1>4, <1>5, <1>6, Zenon DEF stress_test_divisors
<1> QED BY <1>7, <1>8, Zenon

LEMMA InvRunsAreDefined ==
  ASSUME OptionsInv
  PROVE  RunsAreDefined
<1> SUFFICES ASSUME phase = "run"
             PROVE  /\ 0 \notin pattern_test_divisors(g_config) \cup stress_test_divisors(g_config)
                    /\ g_config.transfer.min_size <= g_config.transfer.max_size
                    /\ "stress" \in g_config.flags => g_config.duration_seconds >= 1
  BY Zenon DEF RunsAreDefined
<1>1. Converted(g_config)
  BY Zenon DEF OptionsInv
<1>2. g_config.transfer.min_size <= g_config.transfer.max_size
  BY <1>1, Zenon DEF Converted, GoodTransfer
<1>3. DurationRange(g_config.duration_seconds)
  BY <1>1, Zenon DEF Converted
<1>4. g_config.duration_seconds >= 1
  BY <1>3, SMT DEF DurationRange
<1> QED BY <1>1, <1>2, <1>4, DivisorsArePositive, Zenon

LEMMA InvOptionsAreHonoured ==
  ASSUME OptionsInv
  PROVE  OptionsAreHonoured
<1>1. TypeOK /\ phase # "invalid"
  BY InvTypeOK, Zenon DEF OptionsInv
<1>2. ASSUME phase = "run"
      PROVE  /\ g_config.num_devices = numbers["num-devices"]
             /\ texts["pattern"] = "custom" =>
                  /\ g_config.transfer.pattern = "custom"
                  /\ g_config.transfer.min_size = numbers["size"]
                  /\ g_config.transfer.max_size = numbers["size"]
                  /\ g_config.transfer.rate_hz = numbers["rate"]
             /\ texts["pattern"] \in Patterns => g_config.transfer.pattern = texts["pattern"]
             /\ texts["error-scenario"] \in Scenarios =>
                  g_config.scenario = texts["error-scenario"]
             /\ "errors" \in g_config.flags <=> texts["error-scenario"] \in Scenarios \ {"none"}
             /\ "errors" \in g_config.flags <=> g_config.probability > 0
             /\ "stress" \in g_config.flags <=> numbers["threads"] > 1
             /\ "stress" \in g_config.flags =>
                  /\ g_config.num_threads = numbers["threads"]
                  /\ g_config.duration_seconds = numbers["duration"]
             /\ "logging" \in g_config.flags <=> texts["log-csv"] # Absent
  <2>1. Converted(g_config)
    BY <1>2, Zenon DEF OptionsInv
  <2>2. texts["pattern"] \in Patterns => g_config.transfer.pattern = texts["pattern"]
    BY <2>1, Zenon DEF Converted, parse_pattern
  <2>3. texts["pattern"] = "custom" => /\ g_config.transfer.pattern = "custom"
                                       /\ g_config.transfer.min_size = numbers["size"]
                                       /\ g_config.transfer.max_size = numbers["size"]
                                       /\ g_config.transfer.rate_hz = numbers["rate"]
    BY <2>1, <2>2, Zenon DEF Converted, Patterns
  <2>4. "errors" \in g_config.flags <=> g_config.scenario # "none"
    BY <2>1, Zenon DEF Converted
  <2>5. g_config.scenario # "none" <=> texts["error-scenario"] \in Scenarios \ {"none"}
    BY <2>1, Zenon DEF Converted, parse_error_scenario
  <2>6. g_config.scenario \in Scenarios /\ g_config.probability = Probability(g_config.scenario)
    BY <2>1, Zenon DEF Converted, ConfigType
  <2>7. g_config.probability > 0 <=> g_config.scenario # "none"
    BY <2>6, ProbabilityOf, SMT
  <2>8. /\ g_config.num_devices = numbers["num-devices"]
        /\ "stress" \in g_config.flags <=> numbers["threads"] > 1
        /\ "stress" \in g_config.flags =>
             /\ g_config.num_threads = numbers["threads"]
             /\ g_config.duration_seconds = numbers["duration"]
    BY <2>1, Zenon DEF Converted
  <2>9. texts["error-scenario"] \in Scenarios => g_config.scenario = texts["error-scenario"]
    BY <2>1, Zenon DEF Converted, parse_error_scenario
  <2>10. "logging" \in g_config.flags <=> texts["log-csv"] # Absent
    BY <1>2, Zenon DEF OptionsInv, LogAsked
  <2> QED BY <2>2, <2>3, <2>4, <2>5, <2>7, <2>8, <2>9, <2>10, Zenon
<1> QED BY <1>1, <1>2, Zenon DEF OptionsAreHonoured

\* Whatever numbers and texts users write, in whatever order and however
\* often, a test that runs divides by no configured number that is zero and draws
\* its sizes from an interval that is not empty (cpp_test.cpp:118, 127, 238, 292), although
\* pcie_sim_config_validate (config.c:155-187) never looks at the burst count.
THEOREM RunsHaveNoZeroDivisor == OptionsSpec => []RunsAreDefined
<1>1. OptionsInv => RunsAreDefined
  BY InvRunsAreDefined
<1> QED BY <1>1, OptionsInvInit, OptionsInvStep, PTL DEF OptionsSpec

\* Whatever users write, a test that runs is the one asked for: devices, pattern,
\* error scenario, threads, duration and log are those parse has stored
\* (options.cpp:146-193), the -1 of pcie_sim_config_set_custom_pattern that to_config ignores (options.cpp:158)
\* is never returned, since parse has refused every size and rate that
\* config.c:101 refuses, and the validation main makes next
\* (cpp_test.cpp:323) never fails.
THEOREM TheTestRunIsTheOneAskedFor == OptionsSpec => []OptionsAreHonoured
<1>1. OptionsInv => OptionsAreHonoured
  BY InvOptionsAreHonoured
<1> QED BY <1>1, OptionsInvInit, OptionsInvStep, PTL DEF OptionsSpec

-----------------------------------------------------------------------------
\* What the session reads in g_config (cpp_test.cpp:257, 272, 278 and 329), on a backend.
SessionConfig(windows) ==
  [devices |-> g_config.num_devices,
   threads |-> IF "stress" \in g_config.flags THEN g_config.num_threads ELSE 0,
   logging |-> "logging" \in g_config.flags,
   errors |-> g_config.scenario # "none",
   windows |-> windows]

SessionConfigs ==
  [devices : 1 .. 8, threads : {0} \cup 2 .. 64, logging : BOOLEAN, errors : BOOLEAN,
   windows : BOOLEAN]

ConfigurationFits == phase = "run" => \A w \in BOOLEAN : SessionConfig(w) \in SessionConfigs

\* The two halves of main fit together: what parse, to_config and validate let
\* through is a configuration a session can start with, with a device to test and
\* with no stress test or one of several workers (cpp_test.cpp:316-347), as
\* ConfigsAssumption asks; the theorems on Session then hold for it.
THEOREM RunsAreSessions ==
  /\ OptionsSpec => []ConfigurationFits
  /\ \A c \in SessionConfigs : /\ c.devices \in Nat \ {0} /\ c.threads \in Nat
                               /\ {c.logging, c.errors, c.windows} \subseteq BOOLEAN
<1>1. OptionsInv => ConfigurationFits
  <2> SUFFICES ASSUME OptionsInv, phase = "run", NEW w \in BOOLEAN
               PROVE  SessionConfig(w) \in SessionConfigs
    BY Zenon DEF ConfigurationFits
  <2>1. Converted(g_config)
    BY Zenon DEF OptionsInv
  <2>2. /\ g_config.num_devices \in Int /\ g_config.num_threads \in Int
        /\ DeviceRange(g_config.num_devices) /\ ThreadRange(g_config.num_threads)
        /\ "stress" \in g_config.flags <=> g_config.num_threads > 1
    BY <2>1, Zenon DEF Converted, ConfigType
  <2>3. /\ g_config.num_devices \in 1 .. 8
        /\ "stress" \in g_config.flags => g_config.num_threads \in 2 .. 64
    BY <2>2 DEF DeviceRange, ThreadRange
  <2>4. (IF "stress" \in g_config.flags THEN g_config.num_threads ELSE 0) \in {0} \cup 2 .. 64
    BY <2>3, Zenon
  <2>5. ("logging" \in g_config.flags) \in BOOLEAN /\ (g_config.scenario # "none") \in BOOLEAN
    OBVIOUS
  <2> QED BY <2>3, <2>4, <2>5, Zenon DEF SessionConfig, SessionConfigs
<1>2. OptionsSpec => []ConfigurationFits
  BY <1>1, OptionsInvInit, OptionsInvStep, PTL DEF OptionsSpec
<1>3. ASSUME NEW c \in SessionConfigs
      PROVE  /\ c.devices \in Nat \ {0} /\ c.threads \in Nat
             /\ {c.logging, c.errors, c.windows} \subseteq BOOLEAN
  <2>1. c.devices \in 1 .. 8 /\ c.threads \in {0} \cup 2 .. 64
    BY Zenon DEF SessionConfigs
  <2>2. c.devices \in Nat \ {0} /\ c.threads \in Nat
    BY <2>1
  <2>3. {c.logging, c.errors, c.windows} \subseteq BOOLEAN
    BY Zenon DEF SessionConfigs
  <2> QED BY <2>2, <2>3
<1> QED BY <1>2, <1>3

-----------------------------------------------------------------------------
(***************************************************************************)
(* The session.                                                            *)
(***************************************************************************)

\* Where a thread is while it tests a device, and where its Device has a handle.
Owning == {"check", "write", "lock", "row", "count", "average", "close"}
Testing == {"open"} \cup Owning
Writing == {"lock", "row", "count"}
Ending == {"report", "exit", "exited"}

Statuses == {"SUCCESS", "INJECTED", "EXCEPTION"}

MainLabels == (Testing \ {"average"}) \cup {"start", "stress", "wait", "unwind"} \cup Ending
WorkerLabels == Testing \cup {"none", "done"}

RecordType == [thread : Int, device : Int, status : Statuses \cup {"none"}, number : Nat]

ThreadType ==
  [pc : MainLabels \cup WorkerLabels, device : Nat, handle : Int, tries : Nat,
   record : RecordType, seen : Nat, attempts : Nat, refused : {"no", "busy", "memory"}]

CsvType ==
  [log : {"none", "null", "open", "closed"}, mutex : Int, rows : SUBSET RecordType,
   record_count : Nat, footer : Int]

Types ==
  /\ config \in Configs
  /\ thread \in [Threads -> ThreadType]
  /\ counted \in [Devices -> Nat]
  /\ csv \in CsvType
  /\ crashed \in BOOLEAN

\* What thread t, in state s, knows about its own test.
SelfOK(t, s) ==
  /\ s.pc \in IF t = Main THEN MainLabels ELSE WorkerLabels
  /\ s.device < config.devices
  /\ s.handle = IF s.pc \in Owning THEN s.device ELSE Closed
  /\ t # Main => s.tries = s.attempts
  /\ s.pc \in {"none", "start"} => s.attempts = 0 /\ s.tries = 0 /\ s.refused = "no"
  /\ s.pc # "none" => t <= config.threads
  /\ s.pc \in {"lock", "row"} =>
       /\ s.record.thread = t /\ s.record.device = s.device
       /\ s.record.number = s.attempts /\ s.record.status \in Statuses

\* The workers while main tests, and after main has waited for them.
Phases ==
  /\ thread[Main].pc \in Testing \cup {"start"} => \A w \in Workers : At(w, "none")
  /\ thread[Main].pc \in Ending => \A w \in Workers : thread[w].pc \in {"none", "done"}

\* The log as a whole, and who may be writing to it.
LogInv ==
  /\ csv.log = "closed" <=> csv.footer # NoFooter
  /\ csv.log = "closed" => At(Main, "exited")
  /\ At(Main, "start") => csv.log = "none" /\ csv.rows = {} /\ \A d \in Devices : counted[d] = 0
  /\ \A t \in Threads :
       /\ thread[t].pc \in Writing => csv.log = "open"
       /\ csv.mutex = t <=> thread[t].pc \in {"row", "count"}
       /\ At(t, "count") => thread[t].seen = csv.record_count

\* A row was written for an attempt that is over.
RowsInv ==
  /\ IsFiniteSet(csv.rows)
  /\ \A r \in csv.rows :
       /\ r.thread \in Threads
       /\ r.number <= thread[r.thread].attempts
       /\ Unwritten(r.thread) => r.number < thread[r.thread].attempts

SessionInv ==
  /\ Types
  /\ \A t \in Threads : SelfOK(t, thread[t])
  /\ Phases
  /\ LogInv
  /\ RowsInv
  /\ RecordsAreComplete
  /\ RowsMatchDevices
  /\ BusyOnlyIfShared
  /\ DiesOnlyOf

-----------------------------------------------------------------------------
LEMMA Numbers ==
  ASSUME config \in Configs
  PROVE  /\ config.devices \in Nat \ {0} /\ config.threads \in Nat
         /\ \A d \in Nat : d < config.devices => d \in Devices
         /\ \A t \in Nat : t <= config.threads => t \in Threads
         /\ Main \in Threads /\ Threads \subseteq Nat /\ Devices \subseteq Nat
         /\ Nobody \notin Threads /\ Closed \notin Devices
<1>1. config.devices \in Nat \ {0} /\ config.threads \in Nat
  BY ConfigsAssumption
<1>2. ASSUME NEW d \in Nat, d < config.devices PROVE d \in Devices
  BY <1>1, <1>2 DEF Devices
<1>3. ASSUME NEW t \in Nat, t <= config.threads PROVE t \in Threads
  BY <1>1, <1>3 DEF Threads
<1>4. Threads \subseteq Nat
  BY ConfigsAssumption DEF Threads
<1>5. Devices \subseteq Nat
  BY ConfigsAssumption DEF Devices
<1>6. Main \in Threads
  BY <1>1, <1>3 DEF Main
<1>7. Nobody \notin Threads /\ Closed \notin Devices
  BY <1>4, <1>5 DEF Nobody, Closed
<1> QED BY <1>1, <1>2, <1>3, <1>4, <1>5, <1>6, <1>7

\* After a step that changes the state of thread t alone, to s.
Becomes(t, s) ==
  /\ thread' \in [Threads -> ThreadType]
  /\ thread'[t] = s
  /\ \A u \in Threads : u # t => thread'[u] = thread[u]

LEMMA OneThread ==
  ASSUME thread \in [Threads -> ThreadType], NEW t \in Threads, NEW s \in ThreadType,
         thread' = [thread EXCEPT ![t] = s]
  PROVE  Becomes(t, s)
BY Zenon DEF Becomes

\* The state of a thread that has gone to another label.
At_(s, label) == [s EXCEPT !.pc = label]

LEMMA GotoStep ==
  ASSUME Types, NEW t \in Threads, NEW label \in MainLabels \cup WorkerLabels, Goto(t, label)
  PROVE  /\ At_(thread[t], label) \in ThreadType
         /\ Becomes(t, At_(thread[t], label))
<1>1. thread[t] \in ThreadType
  BY Zenon DEF Types
<1>2. At_(thread[t], label) \in ThreadType
  BY <1>1 DEF At_, ThreadType
<1>3. thread' = [thread EXCEPT ![t] = At_(thread[t], label)]
  BY Zenon DEF Goto, At_, Types
<1> QED BY <1>2, <1>3, OneThread, Zenon DEF Types

\* The threads that have a test under way are finitely many.
LEMMA FiniteTests ==
  ASSUME SessionInv, NEW d
  PROVE  IsFiniteSet({t \in Threads : Unwritten(t) /\ Done(thread[t].record, d)})
<1> DEFINE A == {t \in Threads : Unwritten(t) /\ Done(thread[t].record, d)}
<1>1. config \in Configs
  BY Zenon DEF SessionInv, Types
<1>2. config.threads \in Nat /\ Threads \subseteq Nat
  BY <1>1, Numbers, Zenon
<1>3. \A t \in A : t \in 0 .. config.threads
  <2> SUFFICES ASSUME NEW t \in A PROVE t \in 0 .. config.threads
    OBVIOUS
  <2>1. t \in Threads /\ thread[t].pc # "none"
    BY DEF Unwritten
  <2>2. t <= config.threads
    BY <2>1, Zenon DEF SessionInv, SelfOK
  <2> QED BY <1>2, <2>1, <2>2
<1>4. IsFiniteSet(0 .. config.threads)
  BY <1>2, FS_Interval
<1>5. A \subseteq 0 .. config.threads
  BY <1>3, Zenon
<1> QED BY <1>4, <1>5, FS_Subset, Zenon

-----------------------------------------------------------------------------
\* The parts of RecordsAreComplete.
AttemptsLogged ==
  Logged => \A t \in Threads :
    thread[t].attempts = Cardinality(RowsOf(t)) + IF Unwritten(t) THEN 1 ELSE 0

RowsCounted ==
  Cardinality(csv.rows) = csv.record_count + Cardinality({t \in Threads : At(t, "count")})

FooterTotals == csv.footer # NoFooter => csv.footer = Cardinality(csv.rows)

LEMMA RecordsParts == RecordsAreComplete <=> AttemptsLogged /\ RowsCounted /\ FooterTotals
BY Zenon DEF RecordsAreComplete, AttemptsLogged, RowsCounted, FooterTotals

LEMMA RecordsPartsNext ==
  AttemptsLogged' /\ RowsCounted' /\ FooterTotals' => RecordsAreComplete'
BY Zenon DEF RecordsAreComplete, AttemptsLogged, RowsCounted, FooterTotals

\* A step that leaves alone what the rows have to do with the threads.
SameRecords ==
  /\ \A u \in Threads :
       /\ Unwritten(u)' <=> Unwritten(u)
       /\ thread'[u].attempts = thread[u].attempts
       /\ Unwritten(u) => thread'[u].record = thread[u].record
  /\ csv'.rows = csv.rows /\ counted' = counted

LEMMA RecordsFrame ==
  ASSUME RowsInv, AttemptsLogged, RowsMatchDevices, SameRecords, Logged' => Logged
  PROVE  RowsInv' /\ AttemptsLogged' /\ RowsMatchDevices'
<1>1. RowsInv'
  BY Zenon DEF RowsInv, SameRecords
<1>2. AttemptsLogged'
  <2> SUFFICES ASSUME Logged', NEW t \in Threads
               PROVE  thread'[t].attempts = Cardinality(RowsOf(t)') + IF Unwritten(t)' THEN 1 ELSE 0
    BY Zenon DEF AttemptsLogged
  <2>1. RowsOf(t)' = RowsOf(t)
    BY Zenon DEF RowsOf, SameRecords
  <2>2. thread[t].attempts = Cardinality(RowsOf(t)) + IF Unwritten(t) THEN 1 ELSE 0
    BY Zenon DEF AttemptsLogged
  <2>3. (Unwritten(t)' <=> Unwritten(t)) /\ thread'[t].attempts = thread[t].attempts
    BY Zenon DEF SameRecords
  <2> QED BY <2>1, <2>2, <2>3, Zenon
<1>3. RowsMatchDevices'
  <2> DEFINE A(d) == {t \in Threads : Unwritten(t) /\ Done(thread[t].record, d)}
  <2> SUFFICES ASSUME Logged', NEW d \in Devices
               PROVE  counted'[d] = Cardinality(RowsDone(d)') + Cardinality(A(d)')
    BY Zenon DEF RowsMatchDevices
  <2>1. RowsDone(d)' = RowsDone(d)
    BY Zenon DEF RowsDone, Done, SameRecords
  <2>2. A(d)' = A(d)
    <3>1. \A t \in Threads :
            (Unwritten(t) /\ Done(thread[t].record, d))' <=> Unwritten(t) /\ Done(thread[t].record, d)
      BY Zenon DEF SameRecords, Done
    <3> QED BY <3>1, Zenon
  <2>3. counted[d] = Cardinality(RowsDone(d)) + Cardinality(A(d))
    BY Zenon DEF RowsMatchDevices
  <2> QED BY <2>1, <2>2, <2>3, Zenon DEF SameRecords
<1> QED BY <1>1, <1>2, <1>3

\* A step that leaves alone who is between the row and its count.
LEMMA CountFrame ==
  ASSUME RowsCounted, FooterTotals, \A u \in Threads : At(u, "count")' <=> At(u, "count"),
         csv'.rows = csv.rows, csv'.record_count = csv.record_count, csv'.footer = csv.footer
  PROVE  RowsCounted' /\ FooterTotals'
<1>1. {u \in Threads : At(u, "count")}' = {u \in Threads : At(u, "count")}
  BY Zenon
<1> QED BY <1>1, Zenon DEF RowsCounted, FooterTotals

\* A step of t, to s, that has nothing to do with the log.
Aside(t, s) ==
  /\ Becomes(t, s)
  /\ thread[t].pc \notin Writing /\ s.pc \notin Writing
  /\ s.attempts = thread[t].attempts
  /\ t = Main => thread[t].pc # "exited" /\ s.pc # "start"
  /\ UNCHANGED <<config, counted, csv>>

LEMMA AsideFrame ==
  ASSUME SessionInv, NEW t \in Threads, NEW s, Aside(t, s)
  PROVE  LogInv' /\ RowsInv' /\ RecordsAreComplete' /\ RowsMatchDevices'
<1>0. /\ Becomes(t, s) /\ thread'[t] = s
      /\ \A u \in Threads : u # t => thread'[u] = thread[u]
      /\ thread[t].pc \notin Writing /\ s.pc \notin Writing
      /\ s.attempts = thread[t].attempts
      /\ counted' = counted /\ csv' = csv
  BY Zenon DEF Aside, Becomes
<1>1. Main \in Threads /\ Nobody \notin Threads
  BY Numbers, Zenon DEF SessionInv, Types
<1>2. thread[t].pc \notin {"lock", "row", "count"} /\ s.pc \notin {"lock", "row", "count"}
  BY <1>0, Zenon DEF Writing
<1>3. \A u \in Threads :
        /\ Unwritten(u)' <=> Unwritten(u)
        /\ At(u, "count")' <=> At(u, "count")
        /\ thread'[u].attempts = thread[u].attempts
        /\ Unwritten(u) => thread'[u].record = thread[u].record
  BY <1>0, <1>2, Zenon DEF Unwritten, At
<1>4. SameRecords
  BY <1>0, <1>3, Zenon DEF SameRecords
<1>5. Logged' => Logged
  BY <1>0, Zenon DEF Logged
<1>6. RowsInv' /\ AttemptsLogged' /\ RowsMatchDevices'
  BY <1>4, <1>5, RecordsFrame, RecordsParts, Zenon DEF SessionInv
<1>7. RowsCounted' /\ FooterTotals'
  BY <1>0, <1>3, CountFrame, RecordsParts, Zenon DEF SessionInv
<1>8. LogInv'
  <2>1. csv.log = "closed" => At(Main, "exited")'
    BY <1>0, <1>1, Zenon DEF SessionInv, LogInv, Aside, At
  <2>2. At(Main, "start")' => At(Main, "start")
    BY <1>0, <1>1, Zenon DEF Aside, At
  <2>3. \A u \in Threads :
          /\ thread'[u].pc \in Writing => thread[u].pc \in Writing
          /\ thread'[u].pc \in {"row", "count"} <=> thread[u].pc \in {"row", "count"}
          /\ At(u, "count")' => thread'[u].seen = thread[u].seen
    BY <1>0, <1>2, Zenon DEF At
  <2>4. \A u \in Threads :
          /\ thread'[u].pc \in Writing => csv.log = "open"
          /\ csv.mutex = u <=> thread'[u].pc \in {"row", "count"}
          /\ At(u, "count")' => thread'[u].seen = csv.record_count
    BY <1>3, <2>3, Zenon DEF SessionInv, LogInv
  <2> QED BY <1>0, <2>1, <2>2, <2>4, Zenon DEF SessionInv, LogInv
<1> QED BY <1>6, <1>7, <1>8, RecordsPartsNext

-----------------------------------------------------------------------------
LEMMA SessionInvInit == Init => SessionInv
<1> SUFFICES ASSUME Init PROVE SessionInv
  OBVIOUS
<1> DEFINE first(t) == [pc |-> IF t = Main THEN "start" ELSE "none", device |-> 0,
                        handle |-> Closed, tries |-> 0, record |-> NoRecord, seen |-> 0,
                        attempts |-> 0, refused |-> "no"]
<1>0. config \in Configs /\ crashed = FALSE /\ counted = [d \in Devices |-> 0]
      /\ thread = [t \in Threads |-> first(t)]
      /\ csv = [log |-> "none", mutex |-> Nobody, rows |-> {}, record_count |-> 0,
                footer |-> NoFooter]
  BY Zenon DEF Init
<1>1. /\ config.devices \in Nat \ {0} /\ config.threads \in Nat
      /\ Main \in Threads /\ Threads \subseteq Nat /\ Nobody \notin Threads
  BY <1>0, Numbers, Zenon
<1>2. \A t \in Threads : thread[t] = first(t)
  BY <1>0, Zenon
<1>3. NoRecord \in RecordType
  BY DEF NoRecord, RecordType, Nobody, Closed
<1>4. \A t \in Threads : first(t) \in ThreadType
  BY <1>3 DEF ThreadType, MainLabels, WorkerLabels, Testing, Closed
<1>5. csv \in CsvType
  BY <1>0 DEF CsvType, Nobody, NoFooter
<1>6. thread \in [Threads -> ThreadType]
  <2> HIDE DEF first
  <2> QED BY <1>0, <1>4, Zenon
<1>7. counted \in [Devices -> Nat] /\ \A d \in Devices : counted[d] = 0
  BY <1>0
<1>8. Types
  BY <1>0, <1>5, <1>6, <1>7, Zenon DEF Types
<1>9. ASSUME NEW t \in Threads PROVE SelfOK(t, thread[t])
  <2>1. first(t).pc \in IF t = Main THEN MainLabels ELSE WorkerLabels
    BY DEF MainLabels, WorkerLabels
  <2>2. first(t).pc = IF t = Main THEN "start" ELSE "none"
    OBVIOUS
  <2>3. first(t).pc \notin Owning /\ first(t).pc \notin {"lock", "row"}
    BY <2>2 DEF Owning
  <2>4. first(t).pc # "none" => t <= config.threads
    BY <1>1, <2>2 DEF Main
  <2>5. first(t).device < config.devices
    BY <1>1
  <2>6. /\ first(t).handle = Closed /\ first(t).tries = first(t).attempts
        /\ first(t).attempts = 0 /\ first(t).tries = 0 /\ first(t).refused = "no"
    OBVIOUS
  <2>7. SelfOK(t, first(t))
    <3> HIDE DEF first
    <3> QED BY <2>1, <2>3, <2>4, <2>5, <2>6, Zenon DEF SelfOK
  <2> QED BY <1>2, <2>7, Zenon
<1>10. \A t \in Threads : thread[t].pc \in {"start", "none"} /\ thread[t].refused = "no"
                          /\ thread[t].handle = Closed /\ thread[t].attempts = 0
  <2>1. \A t \in Threads : first(t).pc \in {"start", "none"} /\ first(t).refused = "no"
                           /\ first(t).handle = Closed /\ first(t).attempts = 0
    OBVIOUS
  <2> HIDE DEF first
  <2> QED BY <1>2, <2>1, Zenon
<1>11. \A t \in Threads : thread[t].pc \notin Writing /\ ~Unwritten(t) /\ ~At(t, "count")
  BY <1>10 DEF Writing, Unwritten, At
<1>12. At(Main, "start") /\ \A w \in Workers : At(w, "none")
  <2>1. first(Main).pc = "start" /\ \A w \in Workers : first(w).pc = "none"
    BY DEF Workers
  <2> HIDE DEF first
  <2> QED BY <1>1, <1>2, <2>1, Zenon DEF At, Workers
<1>13. Phases
  <2>1. thread[Main].pc \notin Ending
    BY <1>12 DEF At, Ending
  <2> QED BY <1>12, <2>1, Zenon DEF Phases
<1>14. /\ csv.log = "none" /\ csv.mutex = Nobody /\ csv.rows = {} /\ csv.record_count = 0
       /\ csv.footer = NoFooter
  BY <1>0
<1>15. LogInv
  <2>1. \A t \in Threads : thread[t].pc \notin {"row", "count"}
    BY <1>10
  <2>2. csv.log # "closed"
    BY <1>14
  <2> QED BY <1>1, <1>7, <1>11, <1>14, <2>1, <2>2, Zenon DEF LogInv
<1>16. RowsInv
  BY <1>14, FS_EmptySet, Zenon DEF RowsInv
<1>17. ~Logged
  BY <1>14 DEF Logged
<1>18. RecordsAreComplete
  <2>1. {t \in Threads : At(t, "count")} = {}
    BY <1>11, Zenon
  <2>2. Cardinality({}) = 0
    BY FS_EmptySet, Zenon
  <2>3. 0 = 0 + 0
    OBVIOUS
  <2> QED BY <1>14, <1>17, <2>1, <2>2, <2>3, Zenon DEF RecordsAreComplete
<1>19. RowsMatchDevices
  BY <1>17, Zenon DEF RowsMatchDevices
<1>20. BusyOnlyIfShared
  BY <1>10 DEF BusyOnlyIfShared
<1>21. DiesOnlyOf
  BY <1>0, <1>10, Zenon DEF DiesOnlyOf
<1> QED BY <1>8, <1>9, <1>13, <1>15, <1>16, <1>18, <1>19, <1>20, <1>21, Zenon DEF SessionInv

-----------------------------------------------------------------------------
\* Thread t is a worker and shares its device with another one.
Shared(t) ==
  /\ t # Main /\ config.windows
  /\ \E w \in Started \ {t} : thread[w].device = thread[t].device

\* A step that refuses a shared device only, and leaves the workers' devices alone.
Kept(t, s) ==
  /\ s.refused = "busy" => thread[t].refused = "busy" \/ (thread[t].pc # "none" /\ Shared(t))
  /\ t # Main /\ thread[t].pc # "none" => s.pc # "none" /\ s.device = thread[t].device

LEMMA BusyFrame ==
  ASSUME SessionInv, NEW t \in Threads, NEW s, Becomes(t, s), Kept(t, s), config' = config
  PROVE  BusyOnlyIfShared'
<1> SUFFICES ASSUME NEW u \in Threads, thread'[u].refused = "busy"
             PROVE  /\ u # Main /\ config'.windows
                    /\ \E w \in Started' \ {u} : thread'[w].device = thread'[u].device
  BY Zenon DEF BusyOnlyIfShared
<1>1. thread[u].pc # "none" /\ Shared(u)
  <2>1. CASE thread[u].refused = "busy"
    <3>1. thread[u].pc # "none"
      BY <2>1 DEF SessionInv, SelfOK
    <3> QED BY <2>1, <3>1, Zenon DEF SessionInv, BusyOnlyIfShared, Shared
  <2>2. CASE thread[u].refused # "busy"
    <3>1. u = t /\ s.refused = "busy"
      BY <2>2, Zenon DEF Becomes
    <3> QED BY <2>2, <3>1, Zenon DEF Kept
  <2> QED BY <2>1, <2>2
<1>2. u # Main /\ config.windows
  BY <1>1, Zenon DEF Shared
<1>3. PICK w \in Started \ {u} : thread[w].device = thread[u].device
  BY <1>1, Zenon DEF Shared
<1>4. w \in Threads /\ w # Main /\ thread[w].pc # "none"
  BY <1>3, Zenon DEF Started, Workers, At
<1>6. \A x \in Threads : x # Main /\ thread[x].pc # "none" =>
        thread'[x].pc # "none" /\ thread'[x].device = thread[x].device
  <2> SUFFICES ASSUME NEW x \in Threads, x # Main, thread[x].pc # "none"
               PROVE  thread'[x].pc # "none" /\ thread'[x].device = thread[x].device
    BY Zenon
  <2>1. CASE x = t
    BY <2>1, Zenon DEF Becomes, Kept
  <2>2. CASE x # t
    BY <2>2, Zenon DEF Becomes
  <2> QED BY <2>1, <2>2
<1>7. w \in Started' \ {u}
  BY <1>3, <1>4, <1>6, Zenon DEF Started, Workers, At
<1>8. thread'[w].device = thread'[u].device
  BY <1>1, <1>2, <1>3, <1>4, <1>6, Zenon
<1> QED BY <1>2, <1>7, <1>8, Zenon

\* Nobody does anything any more once the file is closed.
LEMMA ClosedLast ==
  ASSUME SessionInv, NEW t \in Threads, thread[t].pc \notin {"none", "done", "exited"}
  PROVE  csv.log # "closed"
<1> SUFFICES ASSUME csv.log = "closed" PROVE FALSE
  OBVIOUS
<1>1. thread[Main].pc = "exited"
  BY Zenon DEF SessionInv, LogInv, At
<1>2. t # Main
  BY <1>1, Zenon
<1>3. thread[Main].pc \in Ending
  BY <1>1 DEF Ending
<1>4. thread[t].pc \in {"none", "done"}
  BY <1>2, <1>3, Zenon DEF SessionInv, Phases, Workers
<1> QED BY <1>4, Zenon

\* The parts of SessionInv', for a step that ends in no crash and closes no file.
LEMMA Assemble ==
  ASSUME SessionInv, NEW t \in Threads, NEW s, Becomes(t, s), SelfOK(t, s), config' = config,
         counted' \in [Devices -> Nat], csv' \in CsvType, ~crashed, crashed' = crashed,
         Phases', LogInv', RowsInv', RecordsAreComplete', RowsMatchDevices', BusyOnlyIfShared',
         csv'.log # "closed"
  PROVE  SessionInv'
<1>1. Types'
  BY Zenon DEF SessionInv, Types, Becomes
<1>2. \A u \in Threads : SelfOK(u, thread[u])'
  <2> SUFFICES ASSUME NEW u \in Threads PROVE SelfOK(u, thread[u])'
    OBVIOUS
  <2>1. SelfOK(u, thread'[u])
    <3>1. CASE u = t
      BY <3>1, Zenon DEF Becomes
    <3>2. CASE u # t
      BY <3>2, Zenon DEF Becomes, SessionInv
    <3> QED BY <3>1, <3>2
  <2> QED BY <2>1, Zenon DEF SelfOK
<1>3. DiesOnlyOf'
  BY Zenon DEF DiesOnlyOf
<1> QED BY <1>1, <1>2, <1>3, Zenon DEF SessionInv

-----------------------------------------------------------------------------
LEMMA AsideStep ==
  ASSUME SessionInv, NEW t \in Threads, NEW s, Aside(t, s), SelfOK(t, s), Phases',
         BusyOnlyIfShared', csv.log # "closed", ~crashed, crashed' = crashed
  PROVE  SessionInv'
<1>1. LogInv' /\ RowsInv' /\ RecordsAreComplete' /\ RowsMatchDevices'
  BY AsideFrame
<1>2. Becomes(t, s) /\ config' = config /\ counted' = counted /\ csv' = csv
  BY Zenon DEF Aside
<1>3. counted' \in [Devices -> Nat] /\ csv' \in CsvType /\ csv'.log # "closed"
  BY <1>2, Zenon DEF SessionInv, Types
<1> QED BY <1>1, <1>2, <1>3, Assemble, Zenon

\* A step of a test starts no worker, and main waits for none.
LEMMA TestPhases ==
  ASSUME SessionInv, NEW t \in Threads, NEW s, Becomes(t, s),
         thread[t].pc \in Testing, s.pc \in Testing \cup {"stress", "done"}
  PROVE  Phases'
<1>1. Main \in Threads
  BY Numbers, Zenon DEF SessionInv, Types
<1>2. \A x \in Testing \cup {"stress", "done"} : x \notin Ending
  BY DEF Testing, Owning, Ending
<1>3. CASE t = Main
  <2>1. \A w \in Workers : thread'[w] = thread[w] /\ thread[w].pc = "none"
    BY <1>3, Zenon DEF Becomes, Workers, SessionInv, Phases, At
  <2>2. thread'[Main].pc \notin Ending
    BY <1>2, <1>3, Zenon DEF Becomes
  <2> QED BY <2>1, <2>2, Zenon DEF Phases, At
<1>4. CASE t # Main
  <2>1. thread[t].pc \notin {"none", "done"} /\ t \in Workers
    BY <1>4 DEF Testing, Owning, Workers
  <2>2. thread[Main].pc \notin Testing \cup {"start"} /\ thread[Main].pc \notin Ending
    BY <2>1, Zenon DEF SessionInv, Phases, At
  <2>3. thread'[Main] = thread[Main]
    BY <1>1, <1>4, Zenon DEF Becomes
  <2> QED BY <2>2, <2>3, Zenon DEF Phases
<1> QED BY <1>3, <1>4

\* A step of a test that has nothing to do with the log.
LEMMA TestStep ==
  ASSUME SessionInv, NEW t \in Threads, NEW s, Becomes(t, s), SelfOK(t, s),
         thread[t].pc \in Testing \ Writing, s.pc \in (Testing \cup {"stress", "done"}) \ Writing,
         s.attempts = thread[t].attempts, BusyOnlyIfShared',
         ~crashed, UNCHANGED <<config, counted, csv, crashed>>
  PROVE  SessionInv'
<1>1. thread[t].pc \notin {"none", "done", "exited"} /\ s.pc # "start"
  BY DEF Testing, Owning
<1>2. csv.log # "closed"
  BY <1>1, ClosedLast, Zenon
<1>3. Phases'
  BY TestPhases, Zenon
<1>4. Aside(t, s)
  BY <1>1, Zenon DEF Aside
<1> QED BY <1>2, <1>3, <1>4, AsideStep, Zenon

\* The thread goes on within its test.
LEMMA GotoTest ==
  ASSUME SessionInv, NEW t \in Threads, NEW label \in Owning \ Writing,
         t = Main => label # "average", thread[t].pc \in Owning \ Writing, Goto(t, label),
         ~crashed, UNCHANGED <<config, counted, csv, crashed>>
  PROVE  SessionInv'
<1> DEFINE s == At_(thread[t], label)
<1>1. label \in IF t = Main THEN MainLabels ELSE WorkerLabels
  BY DEF Owning, MainLabels, WorkerLabels, Testing
<1>2. s \in ThreadType /\ Becomes(t, s)
  BY <1>1, GotoStep, Zenon DEF SessionInv
<1>3. thread[t] \in ThreadType
  BY Zenon DEF SessionInv, Types
<1>4. /\ s.pc = label /\ s.device = thread[t].device /\ s.handle = thread[t].handle
      /\ s.tries = thread[t].tries /\ s.attempts = thread[t].attempts
      /\ s.refused = thread[t].refused
  BY <1>3 DEF At_, ThreadType
<1>5. thread[t].pc \notin {"none", "start"} /\ label \notin {"none", "start", "lock", "row"}
  BY DEF Owning, Writing
<1> HIDE DEF s
<1>6. SelfOK(t, thread[t])
  BY Zenon DEF SessionInv
<1>7. SelfOK(t, s)
  BY <1>1, <1>4, <1>5, <1>6, Zenon DEF SelfOK
<1>8. Kept(t, s)
  BY <1>4, <1>5, Zenon DEF Kept
<1>9. BusyOnlyIfShared'
  BY <1>2, <1>8, BusyFrame, Zenon
<1>10. thread[t].pc \in Testing \ Writing /\ s.pc \in (Testing \cup {"stress", "done"}) \ Writing
  BY <1>4, Zenon DEF Testing
<1> QED BY <1>2, <1>4, <1>7, <1>9, <1>10, TestStep, Zenon

LEMMA loop_againStep ==
  ASSUME SessionInv, NEW t \in Threads, ~crashed, loop_again(t)
  PROVE  SessionInv'
<1>1. "write" \in Owning \ Writing /\ "check" \in Owning \ Writing /\ "write" # "average"
  BY DEF Owning, Writing
<1> QED BY <1>1, GotoTest, Zenon DEF loop_again, At

LEMMA loop_overStep ==
  ASSUME SessionInv, NEW t \in Threads, ~crashed, loop_over(t)
  PROVE  SessionInv'
<1> DEFINE label == IF t = Main THEN "close" ELSE "average"
<1>1. label \in Owning \ Writing /\ "check" \in Owning \ Writing /\ (t = Main => label # "average")
  BY DEF Owning, Writing
<1>2. /\ thread[t].pc \in Owning \ Writing /\ Goto(t, label)
      /\ UNCHANGED <<config, counted, csv, crashed>>
  BY <1>1, Zenon DEF loop_over, At
<1> HIDE DEF label
<1> QED BY <1>1, <1>2, GotoTest, Zenon

LEMMA bad_allocStep ==
  ASSUME SessionInv, NEW t \in Threads, ~crashed, bad_alloc(t)
  PROVE  SessionInv'
<1>1. "write" \in Owning \ Writing /\ "close" \in Owning \ Writing /\ "close" # "average"
  BY DEF Owning, Writing
<1> QED BY <1>1, GotoTest, Zenon DEF bad_alloc, At

LEMMA DeviceStep ==
  ASSUME SessionInv, NEW t \in Threads, ~crashed, Device(t)
  PROVE  SessionInv'
<1> DEFINE s == [thread[t] EXCEPT !.pc = "check", !.handle = thread[t].device]
<1>1. thread[t] \in ThreadType
  BY Zenon DEF SessionInv, Types
<1>2. "check" \in MainLabels /\ "check" \in WorkerLabels /\ "check" \in Owning \ Writing
  BY DEF MainLabels, WorkerLabels, Testing, Owning, Writing
<1>3. s \in ThreadType
  <2>1. "check" \in MainLabels \cup WorkerLabels /\ thread[t].device \in Int
    BY <1>1, <1>2 DEF ThreadType
  <2> QED BY <1>1, <2>1 DEF ThreadType
<1>4. /\ s.pc = "check" /\ s.device = thread[t].device /\ s.handle = thread[t].device
      /\ s.tries = thread[t].tries /\ s.attempts = thread[t].attempts
      /\ s.refused = thread[t].refused
  BY <1>1 DEF ThreadType
<1>5. thread' = [thread EXCEPT ![t] = s]
  BY Zenon DEF Device, SessionInv, Types
<1> HIDE DEF s
<1>6. Becomes(t, s)
  BY <1>3, <1>5, OneThread, Zenon DEF SessionInv, Types
<1>7. thread[t].pc = "open" /\ SelfOK(t, thread[t])
  BY Zenon DEF Device, At, SessionInv
<1>8. SelfOK(t, s)
  BY <1>2, <1>4, <1>7, Zenon DEF SelfOK
<1>9. Kept(t, s)
  BY <1>4, <1>7, Zenon DEF Kept
<1>10. BusyOnlyIfShared'
  BY <1>6, <1>9, BusyFrame, Zenon DEF Device
<1>11. thread[t].pc \in Testing \ Writing /\ s.pc \in (Testing \cup {"stress", "done"}) \ Writing
  BY <1>4, <1>7 DEF Testing, Owning, Writing
<1> QED BY <1>4, <1>6, <1>8, <1>10, <1>11, TestStep, Zenon DEF Device

-----------------------------------------------------------------------------
\* The end of a test, whose Device is destroyed or was never made.
LEMMA TestedStep ==
  ASSUME SessionInv, NEW t \in Threads, NEW self \in ThreadType,
         thread[t].pc \in Testing \ Writing, self.device = thread[t].device,
         self.handle = Closed, self.tries = thread[t].tries,
         self.attempts = thread[t].attempts,
         self.refused = "busy" => thread[t].refused = "busy" \/ Shared(t),
         thread' = [thread EXCEPT ![t] = Tested(self, t)],
         ~crashed, UNCHANGED <<config, counted, csv, crashed>>
  PROVE  SessionInv'
<1> DEFINE s == Tested(self, t)
<1>1. /\ {"done", "open", "stress"} \subseteq MainLabels \cup WorkerLabels
      /\ "done" \in WorkerLabels /\ "open" \in MainLabels /\ "stress" \in MainLabels
      /\ \A x \in {"done", "open", "stress"} :
           x \notin Owning /\ x \notin {"none", "start", "lock", "row"}
      /\ \A x \in {"done", "open", "stress"} : x \in (Testing \cup {"stress", "done"}) \ Writing
      /\ thread[t].pc \notin {"none", "start"}
  BY DEF MainLabels, WorkerLabels, Testing, Owning, Writing
<1>2. SelfOK(t, thread[t])
  BY Zenon DEF SessionInv
<1>3. config.devices \in Nat
  BY Numbers, Zenon DEF SessionInv, Types
<1>4. /\ s \in ThreadType
      /\ s.pc = (IF t # Main THEN "done"
                 ELSE IF self.device + 1 < config.devices THEN "open" ELSE "stress")
      /\ s.handle = Closed /\ s.attempts = self.attempts /\ s.refused = self.refused
      /\ s.device < config.devices
      /\ t # Main => s.device = self.device /\ s.tries = self.tries
  <2>0. self.device < config.devices
    BY <1>2, Zenon DEF SelfOK
  <2>1. CASE t # Main
    <3>1. s = [self EXCEPT !.pc = "done"]
      BY <2>1, Zenon DEF Tested
    <3> HIDE DEF s
    <3> QED BY <1>1, <2>0, <2>1, <3>1 DEF ThreadType
  <2>2. CASE t = Main /\ self.device + 1 < config.devices
    <3>1. s = [self EXCEPT !.pc = "open", !.device = @ + 1, !.tries = 0]
      BY <2>2, Zenon DEF Tested
    <3>2. self.device \in Nat /\ self.device + 1 \in Nat
      BY DEF ThreadType
    <3> HIDE DEF s
    <3>3. /\ s.pc = "open" /\ s.handle = Closed /\ s.attempts = self.attempts
          /\ s.refused = self.refused /\ s.device = self.device + 1
      BY <3>1 DEF ThreadType
    <3>4. s \in ThreadType
      BY <1>1, <3>1, <3>2 DEF ThreadType
    <3> QED BY <2>2, <3>3, <3>4
  <2>3. CASE t = Main /\ ~(self.device + 1 < config.devices)
    <3>1. s = [self EXCEPT !.pc = "stress"]
      BY <2>3, Zenon DEF Tested
    <3> HIDE DEF s
    <3> QED BY <1>1, <2>0, <2>3, <3>1 DEF ThreadType
  <2> QED BY <2>1, <2>2, <2>3
<1> HIDE DEF s
<1>5. Becomes(t, s)
  <2>1. thread' = [thread EXCEPT ![t] = s]
    BY Zenon DEF s
  <2> QED BY <1>4, <2>1, OneThread, Zenon DEF SessionInv, Types
<1>6. s.pc \in {"done", "open", "stress"} /\ (t # Main => s.pc = "done")
      /\ (t = Main => s.pc \in {"open", "stress"})
  BY <1>4, Zenon
<1>7. SelfOK(t, s)
  <2>1. s.pc \in IF t = Main THEN MainLabels ELSE WorkerLabels
    BY <1>1, <1>6, Zenon
  <2>2. s.handle = IF s.pc \in Owning THEN s.device ELSE Closed
    BY <1>1, <1>4, <1>6, Zenon
  <2>3. t # Main => s.tries = s.attempts
    BY <1>2, <1>4, Zenon DEF SelfOK
  <2>4. t <= config.threads
    BY <1>1, <1>2, Zenon DEF SelfOK
  <2> QED BY <1>1, <1>4, <1>6, <2>1, <2>2, <2>3, <2>4, Zenon DEF SelfOK
<1>8. Kept(t, s)
  BY <1>1, <1>4, <1>6, Zenon DEF Kept
<1>9. BusyOnlyIfShared'
  BY <1>5, <1>8, BusyFrame, Zenon
<1>10. s.pc \in (Testing \cup {"stress", "done"}) \ Writing /\ s.attempts = thread[t].attempts
  BY <1>1, <1>4, <1>6, Zenon
<1> QED BY <1>5, <1>7, <1>9, <1>10, TestStep, Zenon

\* The Device that makes a device busy belongs to another worker: the Devices of
\* main's tests are destroyed before the next test and before the workers start.
LEMMA BusyShared ==
  ASSUME SessionInv, NEW t \in Threads, At(t, "open"), Busy(thread[t].device)
  PROVE  Shared(t)
<1>1. PICK u \in Threads : thread[u].handle = thread[t].device
  BY Zenon DEF Busy
<1>2. thread[t] \in ThreadType /\ thread[u] \in ThreadType
  BY Zenon DEF SessionInv, Types
<1>3. thread[u].handle # Closed
  BY <1>1, <1>2 DEF ThreadType, Closed
<1>4. thread[u].pc \in Owning /\ thread[u].device = thread[t].device
  BY <1>1, <1>3, Zenon DEF SessionInv, SelfOK
<1>5. u # t
  BY <1>4 DEF At, Owning
<1>6. thread[u].pc # "none" /\ thread[t].pc # "none" /\ {thread[u].pc, thread[t].pc} \subseteq Testing
  BY <1>4 DEF At, Owning, Testing
<1>7. u # Main /\ t # Main
  BY <1>5, <1>6, Zenon DEF SessionInv, Phases, Workers, At
<1>8. u \in Started \ {t}
  BY <1>5, <1>6, <1>7, Zenon DEF Started, Workers, At
<1> QED BY <1>4, <1>7, <1>8, Zenon DEF Shared, Busy

LEMMA DeviceErrorStep ==
  ASSUME SessionInv, NEW t \in Threads, ~crashed, NEW why \in {"busy", "memory"},
         DeviceError(t, why)
  PROVE  SessionInv'
<1> DEFINE self == [thread[t] EXCEPT !.refused = why]
<1>1. thread[t] \in ThreadType /\ SelfOK(t, thread[t]) /\ thread[t].pc = "open"
  BY Zenon DEF SessionInv, Types, DeviceError, At
<1>2. "open" \in Testing \ Writing /\ "open" \notin Owning
  BY DEF Testing, Owning, Writing
<1>3. thread[t].handle = Closed
  BY <1>1, <1>2, Zenon DEF SelfOK
<1>4. /\ self \in ThreadType /\ self.device = thread[t].device /\ self.handle = Closed
      /\ self.tries = thread[t].tries /\ self.attempts = thread[t].attempts
      /\ self.refused = why
  BY <1>1, <1>3 DEF ThreadType
<1>5. thread' = [thread EXCEPT ![t] = Tested(self, t)]
  BY Zenon DEF DeviceError, SessionInv, Types
<1>6. why = "busy" => Shared(t)
  BY BusyShared, Zenon DEF DeviceError
<1>7. UNCHANGED <<config, counted, csv, crashed>>
  BY Zenon DEF DeviceError
<1> HIDE DEF self
<1> QED BY <1>1, <1>2, <1>4, <1>5, <1>6, <1>7, TestedStep, Zenon

LEMMA closeStep ==
  ASSUME SessionInv, NEW t \in Threads, ~crashed, close(t)
  PROVE  SessionInv'
<1> DEFINE self == [thread[t] EXCEPT !.handle = Closed]
<1>1. thread[t] \in ThreadType /\ thread[t].pc = "close"
  BY Zenon DEF SessionInv, Types, close, At
<1>2. "close" \in Testing \ Writing /\ Closed \in Int
  BY DEF Testing, Owning, Writing, Closed
<1>4. /\ self \in ThreadType /\ self.device = thread[t].device /\ self.handle = Closed
      /\ self.tries = thread[t].tries /\ self.attempts = thread[t].attempts
      /\ self.refused = thread[t].refused
  BY <1>1, <1>2 DEF ThreadType
<1>5. thread' = [thread EXCEPT ![t] = Tested(self, t)]
  BY Zenon DEF close, SessionInv, Types
<1>6. UNCHANGED <<config, counted, csv, crashed>>
  BY Zenon DEF close
<1> HIDE DEF self
<1> QED BY <1>1, <1>2, <1>4, <1>5, <1>6, TestedStep, Zenon

-----------------------------------------------------------------------------
LEMMA CrashStep ==
  ASSUME SessionInv, crashed' = TRUE, UNCHANGED <<config, thread, counted, csv>>,
         csv.log # "closed",
         \/ csv.log = "null" /\ At(Main, "report") /\ \A w \in Started : At(w, "done")
         \/ \E w \in Started : thread[w].attempts = 0 /\ thread[w].handle # Closed
  PROVE  SessionInv'
<1>1. Types' /\ \A t \in Threads : SelfOK(t, thread[t])'
  BY Zenon DEF SessionInv, Types, SelfOK
<1>2. Phases' /\ LogInv' /\ RowsInv'
  BY Zenon DEF SessionInv, Phases, LogInv, RowsInv, At, Unwritten
<1>3. RecordsAreComplete' /\ RowsMatchDevices'
  BY Zenon DEF SessionInv, RecordsAreComplete, RowsMatchDevices, At, Unwritten, Logged, RowsOf,
               RowsDone, Done
<1>4. BusyOnlyIfShared'
  BY Zenon DEF SessionInv, BusyOnlyIfShared, Started, At
<1>5. csv.footer = NoFooter
  BY Zenon DEF SessionInv, LogInv
<1>6. DiesOnlyOf'
  BY <1>5, Zenon DEF DiesOnlyOf, Started, At
<1> QED BY <1>1, <1>2, <1>3, <1>4, <1>6, Zenon DEF SessionInv

LEMMA averageStep ==
  ASSUME SessionInv, NEW t \in Threads, ~crashed, average(t)
  PROVE  SessionInv'
<1>1. /\ "average" \in Owning \ Writing /\ "close" \in Owning \ Writing /\ "close" # "average"
      /\ "average" \notin MainLabels /\ "average" \notin {"none", "done", "exited"}
  BY DEF Owning, Writing, MainLabels, Testing, Ending
<1>2. thread[t].pc = "average" /\ SelfOK(t, thread[t]) /\ thread[t] \in ThreadType
  BY Zenon DEF average, At, SessionInv, Types
<1>3. CASE thread[t].tries = 0
  <2>1. crashed' = TRUE /\ UNCHANGED <<config, thread, counted, csv>>
    BY <1>3, Zenon DEF average
  <2>2. t # Main /\ thread[t].attempts = 0 /\ thread[t].handle = thread[t].device
    BY <1>1, <1>2, <1>3, Zenon DEF SelfOK
  <2>3. thread[t].handle # Closed
    BY <1>2, <2>2 DEF ThreadType, Closed
  <2>4. t \in Started
    BY <1>1, <1>2, <2>2, Zenon DEF Started, Workers, At
  <2>5. csv.log # "closed"
    BY <1>1, <1>2, ClosedLast, Zenon
  <2> QED BY <2>1, <2>2, <2>3, <2>4, <2>5, CrashStep, Zenon
<1>4. CASE thread[t].tries # 0
  <2>1. Goto(t, "close") /\ UNCHANGED <<config, counted, csv, crashed>>
    BY <1>4, Zenon DEF average
  <2> QED BY <1>1, <1>2, <2>1, GotoTest, Zenon
<1> QED BY <1>3, <1>4

\* main goes on after its tests.
LEMMA MainGoto ==
  ASSUME SessionInv, NEW label \in {"wait", "unwind", "report", "exit", "exited"},
         thread[Main].pc \in {"stress", "wait", "unwind", "report", "exit"}, Goto(Main, label),
         label \in Ending => \A w \in Workers : thread[w].pc \in {"none", "done"}
  PROVE  /\ Main \in Threads
         /\ Becomes(Main, At_(thread[Main], label))
         /\ SelfOK(Main, At_(thread[Main], label))
         /\ Kept(Main, At_(thread[Main], label))
         /\ At_(thread[Main], label).pc = label
         /\ At_(thread[Main], label).attempts = thread[Main].attempts
         /\ At_(thread[Main], label).handle = Closed
         /\ {thread[Main].pc, label} \cap (Writing \cup {"start", "none", "done"}) = {}
         /\ Phases'
<1> DEFINE s == At_(thread[Main], label)
<1>1. Main \in Threads /\ Types
  BY Numbers, Zenon DEF SessionInv, Types
<1>2. label \in MainLabels
  BY DEF MainLabels, Ending
<1>3. Becomes(Main, s)
  BY <1>1, <1>2, GotoStep, Zenon
<1>4. thread[Main] \in ThreadType /\ SelfOK(Main, thread[Main])
  BY <1>1, Zenon DEF SessionInv, Types
<1>5. /\ s.pc = label /\ s.device = thread[Main].device /\ s.handle = thread[Main].handle
      /\ s.tries = thread[Main].tries /\ s.attempts = thread[Main].attempts
      /\ s.refused = thread[Main].refused
  BY <1>4 DEF At_, ThreadType
<1>6. /\ {thread[Main].pc, label} \cap (Writing \cup {"start", "none", "done"}) = {}
      /\ {thread[Main].pc, label} \cap Testing = {}
      /\ label \notin {"none", "start", "lock", "row"} /\ thread[Main].pc # "none"
      /\ thread[Main].pc \notin Owning /\ label \notin Owning
  BY DEF Writing, Testing, Owning
<1> HIDE DEF s
<1>7. SelfOK(Main, s)
  BY <1>2, <1>4, <1>5, <1>6, Zenon DEF SelfOK
<1>8. Kept(Main, s)
  BY <1>5, Zenon DEF Kept
<1>9. s.handle = Closed
  BY <1>5, <1>6, <1>7, Zenon DEF SelfOK
<1>10. Phases'
  <2>1. \A w \in Workers : thread'[w] = thread[w]
    BY <1>3, Zenon DEF Becomes, Workers
  <2>2. thread'[Main].pc = label
    BY <1>3, <1>5, Zenon DEF Becomes
  <2>3. thread'[Main].pc \notin Testing \cup {"start"}
    BY <1>6, <2>2, Zenon
  <2>4. ASSUME thread'[Main].pc \in Ending, NEW w \in Workers
        PROVE  thread'[w].pc \in {"none", "done"}
    BY <2>1, <2>2, <2>4, Zenon
  <2> QED BY <2>3, <2>4, Zenon DEF Phases
<1> QED BY <1>1, <1>3, <1>5, <1>6, <1>7, <1>8, <1>9, <1>10, Zenon DEF s

LEMMA MainStep ==
  ASSUME SessionInv, NEW label \in {"wait", "unwind", "report", "exit", "exited"},
         thread[Main].pc \in {"stress", "wait", "unwind", "report", "exit"}, Goto(Main, label),
         label \in Ending => \A w \in Workers : thread[w].pc \in {"none", "done"},
         ~crashed, UNCHANGED <<config, counted, csv, crashed>>
  PROVE  SessionInv'
<1> DEFINE s == At_(thread[Main], label)
<1>1. /\ Main \in Threads /\ Becomes(Main, s) /\ SelfOK(Main, s) /\ Kept(Main, s)
      /\ s.pc = label /\ s.attempts = thread[Main].attempts
      /\ {thread[Main].pc, label} \cap (Writing \cup {"start", "none", "done"}) = {}
      /\ Phases'
  BY MainGoto, Zenon
<1> HIDE DEF s
<1>2. thread[Main].pc \notin {"none", "done", "exited"}
  OBVIOUS
<1>3. Aside(Main, s)
  BY <1>1, <1>2, Zenon DEF Aside
<1>4. BusyOnlyIfShared'
  BY <1>1, BusyFrame, Zenon
<1>5. csv.log # "closed"
  BY <1>1, <1>2, ClosedLast, Zenon
<1> QED BY <1>1, <1>3, <1>4, <1>5, AsideStep, Zenon

LEMMA asyncStep ==
  ASSUME SessionInv, NEW w \in Workers, ~crashed, async(w)
  PROVE  SessionInv'
<1> DEFINE s == [thread[w] EXCEPT !.pc = "open", !.device = (w - 1) % config.devices]
<1>1. /\ Main \in Threads /\ Threads \subseteq Nat /\ config.devices \in Nat \ {0}
      /\ thread \in [Threads -> ThreadType]
  BY Numbers, Zenon DEF SessionInv, Types
<1>2. w \in Threads /\ w # Main /\ w \in Nat \ {0} /\ w <= config.threads
  BY <1>1 DEF Workers, Main, async
<1>3. w \notin 1 .. w - 1
  BY <1>2
<1>4. thread[w].pc = "none" /\ thread[Main].pc = "stress"
  BY <1>2, <1>3, Zenon DEF async, Started, At
<1>5. thread[w] \in ThreadType /\ SelfOK(w, thread[w])
  BY <1>1, <1>2, Zenon DEF SessionInv
<1>6. /\ "open" \in WorkerLabels /\ "open" \in MainLabels \cup WorkerLabels
      /\ "open" \notin Owning /\ "open" \notin Writing
      /\ "none" \notin Owning /\ "none" \notin Writing
      /\ "stress" \notin Testing \cup {"start"} /\ "stress" \notin Ending
  BY DEF WorkerLabels, Testing, Owning, Writing, Ending
<1>7. (w - 1) % config.devices \in Nat /\ (w - 1) % config.devices < config.devices
  BY <1>1, <1>2
<1>8. s \in ThreadType
  BY <1>5, <1>6, <1>7 DEF ThreadType
<1>9. /\ s.pc = "open" /\ s.device = (w - 1) % config.devices /\ s.handle = thread[w].handle
      /\ s.tries = thread[w].tries /\ s.attempts = thread[w].attempts
      /\ s.refused = thread[w].refused
  BY <1>5 DEF ThreadType
<1>10. thread' = [thread EXCEPT ![w] = s]
  BY <1>1, <1>2, Zenon DEF async
<1> HIDE DEF s
<1>11. Becomes(w, s)
  BY <1>1, <1>2, <1>8, <1>10, OneThread, Zenon
<1>12. SelfOK(w, s)
  BY <1>2, <1>4, <1>5, <1>6, <1>7, <1>9, Zenon DEF SelfOK
<1>13. Kept(w, s)
  BY <1>4, <1>9, Zenon DEF Kept
<1>14. BusyOnlyIfShared'
  BY <1>2, <1>11, <1>13, BusyFrame, Zenon DEF async
<1>15. Phases'
  <2>1. thread'[Main].pc = "stress"
    BY <1>1, <1>2, <1>4, <1>11, Zenon DEF Becomes
  <2> QED BY <1>6, <2>1, Zenon DEF Phases
<1>16. Aside(w, s)
  BY <1>2, <1>4, <1>6, <1>9, <1>11, Zenon DEF Aside, async
<1>17. csv.log # "closed"
  BY <1>1, <1>4, ClosedLast, Zenon
<1> QED BY <1>2, <1>12, <1>14, <1>15, <1>16, <1>17, AsideStep, Zenon DEF async

LEMMA async_endStep ==
  ASSUME SessionInv, ~crashed, async_end
  PROVE  SessionInv'
<1>1. "wait" \notin Ending /\ "unwind" \notin Ending
  BY DEF Ending
<1>2. thread[Main].pc = "stress" /\ UNCHANGED <<config, counted, csv, crashed>>
  BY Zenon DEF async_end, At
<1>3. CASE Goto(Main, "wait")
  BY <1>1, <1>2, <1>3, MainStep, Zenon
<1>4. CASE Goto(Main, "unwind")
  BY <1>1, <1>2, <1>4, MainStep, Zenon
<1> QED BY <1>3, <1>4, Zenon DEF async_end

LEMMA future_waitStep ==
  ASSUME SessionInv, ~crashed, future_wait
  PROVE  SessionInv'
<1>1. UNCHANGED <<config, counted, csv, crashed>>
  BY Zenon DEF future_wait
<1>2. \A w \in Workers : thread[w].pc \in {"none", "done"}
  BY Zenon DEF future_wait, Started, At
<1>3. CASE thread[Main].pc = "wait" /\ Goto(Main, "report")
  BY <1>1, <1>2, <1>3, MainStep, Zenon
<1>4. CASE thread[Main].pc = "unwind" /\ Goto(Main, "exit")
  BY <1>1, <1>2, <1>4, MainStep, Zenon
<1> QED BY <1>3, <1>4, Zenon DEF future_wait, At

LEMMA reportStep ==
  ASSUME SessionInv, ~crashed, report
  PROVE  SessionInv'
<1>1. thread[Main].pc = "report"
  BY Zenon DEF report, At
<1>2. "report" \in Ending
  BY DEF Ending
<1>3. \A w \in Workers : thread[w].pc \in {"none", "done"}
  BY <1>1, <1>2, Zenon DEF SessionInv, Phases
<1>4. CASE csv.log = "null"
  <2>1. \A w \in Started : At(w, "done")
    BY <1>3, Zenon DEF Started, At
  <2>2. crashed' = TRUE /\ UNCHANGED <<config, thread, counted, csv>>
    BY <1>4, Zenon DEF report
  <2>3. csv.log # "closed"
    BY <1>4
  <2> QED BY <1>1, <1>4, <2>1, <2>2, <2>3, CrashStep, Zenon DEF At
<1>5. CASE csv.log # "null"
  <2>1. Goto(Main, "exit") /\ UNCHANGED <<config, counted, csv, crashed>>
    BY <1>5, Zenon DEF report
  <2> QED BY <1>1, <1>3, <2>1, MainStep, Zenon
<1> QED BY <1>4, <1>5

-----------------------------------------------------------------------------
\* A step of a test during which the log stays as it was: open, null or none.
LEMMA TestLogInv ==
  ASSUME SessionInv, NEW t \in Threads, NEW s, Becomes(t, s),
         thread[t].pc \in Testing, s.pc \in Testing,
         csv'.log = csv.log, csv'.footer = csv.footer,
         \A u \in Threads :
           /\ thread'[u].pc \in Writing => csv.log = "open"
           /\ csv'.mutex = u <=> thread'[u].pc \in {"row", "count"}
           /\ At(u, "count")' => thread'[u].seen = csv'.record_count
  PROVE  LogInv' /\ csv.log # "closed"
<1>1. Main \in Threads
  BY Numbers, Zenon DEF SessionInv, Types
<1>2. thread[t].pc \notin {"none", "done", "exited"} /\ "start" \notin Testing
  BY DEF Testing, Owning
<1>3. csv.log # "closed"
  BY <1>2, ClosedLast, Zenon
<1>4. thread'[Main].pc # "start"
  <2>1. CASE t = Main
    BY <1>2, <2>1, Zenon DEF Becomes
  <2>2. CASE t # Main
    <3>1. thread[Main].pc # "start"
      BY <1>2, <2>2, Zenon DEF SessionInv, Phases, Workers, At
    <3> QED BY <1>1, <2>2, <3>1, Zenon DEF Becomes
  <2> QED BY <2>1, <2>2
<1>5. (csv'.log = "closed" <=> csv'.footer # NoFooter) /\ csv'.log # "closed"
  BY <1>3, Zenon DEF SessionInv, LogInv
<1>6. LogInv'
  BY <1>4, <1>5, Zenon DEF LogInv, At
<1> QED BY <1>3, <1>6

\* A step of log_transfer.
LEMMA LogStep ==
  ASSUME SessionInv, NEW t \in Threads, NEW s, Becomes(t, s), ~crashed,
         thread[t].pc \in Writing, s.pc \in {"row", "count", "check"},
         s.device = thread[t].device, s.handle = thread[t].handle, s.tries = thread[t].tries,
         s.attempts = thread[t].attempts, s.refused = thread[t].refused,
         s.pc = "row" => thread[t].pc = "lock" /\ s.record = thread[t].record,
         csv' \in CsvType, csv'.log = csv.log, UNCHANGED <<config, counted, crashed>>,
         LogInv', RowsInv', RecordsAreComplete', RowsMatchDevices'
  PROVE  SessionInv'
<1>1. /\ {thread[t].pc, s.pc} \subseteq Owning \cap Testing \cap MainLabels \cap WorkerLabels
      /\ thread[t].pc \notin {"none", "done", "exited", "start"}
      /\ s.pc \notin {"none", "start", "lock"}
  BY DEF Writing, Owning, Testing, MainLabels, WorkerLabels
<1>2. SelfOK(t, thread[t])
  BY Zenon DEF SessionInv
<1>3. SelfOK(t, s)
  <2>1. s.pc \in IF t = Main THEN MainLabels ELSE WorkerLabels
    BY <1>1, Zenon
  <2>2. s.pc \in {"lock", "row"} =>
          /\ s.record.thread = t /\ s.record.device = s.device
          /\ s.record.number = s.attempts /\ s.record.status \in Statuses
    BY <1>1, <1>2, Zenon DEF SelfOK
  <2> QED BY <1>1, <1>2, <2>1, <2>2, Zenon DEF SelfOK
<1>4. Phases'
  BY <1>1, TestPhases, Zenon
<1>5. Kept(t, s)
  BY <1>1, Zenon DEF Kept
<1>6. BusyOnlyIfShared'
  BY <1>5, BusyFrame, Zenon
<1>7. csv'.log # "closed"
  BY <1>1, ClosedLast, Zenon
<1>8. counted' \in [Devices -> Nat]
  BY Zenon DEF SessionInv, Types
<1> QED BY <1>3, <1>4, <1>6, <1>7, <1>8, Assemble, Zenon

\* The thread that holds the mutex is the only one between its lock and its count.
LEMMA Holder ==
  ASSUME SessionInv, NEW t \in Threads, thread[t].pc \in {"row", "count"}
  PROVE  \A u \in Threads : u # t => thread[u].pc \notin {"row", "count"}
BY Zenon DEF SessionInv, LogInv

LEMMA log_lockStep ==
  ASSUME SessionInv, NEW t \in Threads, ~crashed, log_lock(t)
  PROVE  SessionInv'
<1> DEFINE s == At_(thread[t], "row")
<1>1. /\ {"lock", "row"} \subseteq Testing \cap Writing
      /\ "row" \in MainLabels \cup WorkerLabels
  BY DEF Testing, Owning, Writing, MainLabels
<1>2. thread[t] \in ThreadType /\ thread[t].pc = "lock" /\ csv.mutex = Nobody /\ Types
  BY Zenon DEF log_lock, At, SessionInv, Types
<1>3. Becomes(t, s)
  BY <1>1, <1>2, GotoStep, Zenon DEF log_lock
<1>4. /\ s.pc = "row" /\ s.device = thread[t].device /\ s.handle = thread[t].handle
      /\ s.tries = thread[t].tries /\ s.attempts = thread[t].attempts
      /\ s.refused = thread[t].refused /\ s.record = thread[t].record
  BY <1>2 DEF At_, ThreadType
<1> HIDE DEF s
<1>5. t \in Int /\ Nobody \notin Threads
  <2>1. Threads \subseteq Nat /\ Nobody \notin Threads
    BY <1>2, Numbers, Zenon DEF Types
  <2> QED BY <2>1
<1>6. csv \in CsvType /\ csv' = [csv EXCEPT !.mutex = t]
  BY <1>2, Zenon DEF Types, log_lock
<1>7. /\ csv' \in CsvType /\ csv'.log = csv.log /\ csv'.footer = csv.footer
      /\ csv'.rows = csv.rows /\ csv'.record_count = csv.record_count /\ csv'.mutex = t
  BY <1>5, <1>6 DEF CsvType
<1>8. \A u \in Threads : thread[u].pc \notin {"row", "count"}
  BY <1>2, <1>5, Zenon DEF SessionInv, LogInv
<1>9. \A u \in Threads : u # t => thread'[u] = thread[u]
  BY <1>3, Zenon DEF Becomes
<1>10. thread'[t] = s
  BY <1>3, Zenon DEF Becomes
<1>11. \A u \in Threads :
         /\ Unwritten(u)' <=> Unwritten(u)
         /\ thread'[u].attempts = thread[u].attempts
         /\ Unwritten(u) => thread'[u].record = thread[u].record
         /\ ~At(u, "count") /\ ~At(u, "count")'
  <2>1. "row" # "count"
    OBVIOUS
  <2> QED BY <1>2, <1>4, <1>8, <1>9, <1>10, <2>1, Zenon DEF Unwritten, At
<1>12. csv.log = "open"
  BY <1>1, <1>2, Zenon DEF SessionInv, LogInv
<1>13. LogInv'
  <2>1. \A u \in Threads :
          /\ csv'.mutex = u <=> thread'[u].pc \in {"row", "count"}
          /\ At(u, "count")' => thread'[u].seen = csv'.record_count
    BY <1>4, <1>7, <1>8, <1>9, <1>10, <1>11, Zenon
  <2> QED BY <1>1, <1>2, <1>3, <1>4, <1>7, <1>12, <2>1, TestLogInv, Zenon
<1>14. RowsInv' /\ AttemptsLogged' /\ RowsMatchDevices'
  <2>1. SameRecords
    BY <1>7, <1>11, Zenon DEF SameRecords, log_lock
  <2>2. Logged' => Logged
    BY <1>7, Zenon DEF Logged
  <2> QED BY <2>1, <2>2, RecordsFrame, RecordsParts, Zenon DEF SessionInv
<1>15. RowsCounted' /\ FooterTotals'
  BY <1>7, <1>11, CountFrame, RecordsParts, Zenon DEF SessionInv
<1>16. RecordsAreComplete'
  BY <1>14, <1>15, RecordsPartsNext
<1> QED BY <1>1, <1>2, <1>3, <1>4, <1>7, <1>13, <1>14, <1>16, LogStep, Zenon DEF log_lock

LEMMA log_countStep ==
  ASSUME SessionInv, NEW t \in Threads, ~crashed, log_count(t)
  PROVE  SessionInv'
<1> DEFINE s == [thread[t] EXCEPT !.pc = "check", !.record = NoRecord, !.seen = 0]
<1>1. /\ "check" \in Testing /\ "count" \in Testing /\ "count" \in Writing /\ "check" \notin Writing
      /\ "check" \in MainLabels \cup WorkerLabels /\ "check" \notin {"lock", "row", "count"}
      /\ "count" \notin {"lock", "row"}
  BY DEF Testing, Owning, Writing, MainLabels
<1>2. thread[t] \in ThreadType /\ thread[t].pc = "count" /\ thread \in [Threads -> ThreadType]
  BY Zenon DEF log_count, At, SessionInv, Types
<1>3. NoRecord \in RecordType
  BY DEF NoRecord, RecordType, Nobody, Closed
<1>4. s \in ThreadType
  BY <1>1, <1>2, <1>3 DEF ThreadType
<1>5. /\ s.pc = "check" /\ s.device = thread[t].device /\ s.handle = thread[t].handle
      /\ s.tries = thread[t].tries /\ s.attempts = thread[t].attempts
      /\ s.refused = thread[t].refused
  BY <1>2 DEF ThreadType
<1>6. thread' = [thread EXCEPT ![t] = s]
  BY <1>2, Zenon DEF log_count
<1> HIDE DEF s
<1>7. Becomes(t, s) /\ thread'[t] = s /\ \A u \in Threads : u # t => thread'[u] = thread[u]
  BY <1>2, <1>4, <1>6, OneThread, Zenon DEF Becomes
<1>8. Nobody \notin Threads /\ csv.log = "open" /\ thread[t].seen = csv.record_count
  <2>1. Nobody \notin Threads
    BY Numbers, Zenon DEF SessionInv, Types
  <2> QED BY <1>1, <1>2, <2>1, Zenon DEF SessionInv, LogInv, At
<1>9. csv \in CsvType /\ csv' = [csv EXCEPT !.record_count = csv.record_count + 1, !.mutex = Nobody]
  BY <1>8, Zenon DEF SessionInv, Types, log_count
<1>10. /\ csv' \in CsvType /\ csv'.log = csv.log /\ csv'.footer = csv.footer
       /\ csv'.rows = csv.rows /\ csv'.record_count = csv.record_count + 1
       /\ csv'.mutex = Nobody /\ csv.record_count \in Nat
  <2>1. csv.record_count \in Nat /\ Nobody \in Int
    BY <1>9 DEF CsvType, Nobody
  <2>2. csv.record_count + 1 \in Nat
    BY <2>1
  <2>3. /\ csv'.log = csv.log /\ csv'.footer = csv.footer /\ csv'.rows = csv.rows
        /\ csv'.record_count = csv.record_count + 1 /\ csv'.mutex = Nobody
    BY <1>9 DEF CsvType
  <2>4. csv' \in CsvType
    BY <1>9, <2>1, <2>2 DEF CsvType
  <2> QED BY <2>1, <2>3, <2>4
<1>11. \A u \in Threads : u # t => thread[u].pc \notin {"row", "count"}
  BY <1>2, Holder, Zenon
<1>12. \A u \in Threads : thread'[u].pc \notin {"row", "count"}
  BY <1>1, <1>5, <1>7, <1>11, Zenon
<1>13. \A u \in Threads :
         /\ Unwritten(u)' <=> Unwritten(u)
         /\ thread'[u].attempts = thread[u].attempts
         /\ Unwritten(u) => thread'[u].record = thread[u].record
  BY <1>1, <1>2, <1>5, <1>7, Zenon DEF Unwritten
<1>14. LogInv'
  <2>1. \A u \in Threads :
          /\ csv'.mutex = u <=> thread'[u].pc \in {"row", "count"}
          /\ At(u, "count")' => thread'[u].seen = csv'.record_count
    BY <1>8, <1>10, <1>12, Zenon DEF At
  <2> QED BY <1>1, <1>2, <1>5, <1>7, <1>8, <1>10, <2>1, TestLogInv, Zenon
<1>15. RowsInv' /\ AttemptsLogged' /\ RowsMatchDevices'
  <2>1. SameRecords
    BY <1>10, <1>13, Zenon DEF SameRecords, log_count
  <2>2. Logged' => Logged
    BY <1>10, Zenon DEF Logged
  <2> QED BY <2>1, <2>2, RecordsFrame, RecordsParts, Zenon DEF SessionInv
<1>16. RowsCounted'
  <2>1. {u \in Threads : At(u, "count")} = {t}
    BY <1>2, <1>11, Zenon DEF At
  <2>2. {u \in Threads : At(u, "count")'} = {}
    BY <1>12, Zenon DEF At
  <2>3. Cardinality({t}) = 1 /\ Cardinality({}) = 0
    BY FS_Singleton, FS_EmptySet, Zenon
  <2>4. Cardinality(csv.rows) = csv.record_count + Cardinality({u \in Threads : At(u, "count")})
    BY RecordsParts, Zenon DEF SessionInv, RowsCounted
  <2>5. Cardinality(csv.rows) = csv.record_count + 1
    BY <2>1, <2>3, <2>4, Zenon
  <2>6. Cardinality(csv'.rows) = csv'.record_count + 0
    BY <1>10, <2>5
  <2> QED BY <2>2, <2>3, <2>6, Zenon DEF RowsCounted
<1>17. FooterTotals'
  BY <1>10, RecordsParts, Zenon DEF SessionInv, FooterTotals
<1>18. RecordsAreComplete'
  BY <1>15, <1>16, <1>17, RecordsPartsNext
<1>19. "check" # "row"
  OBVIOUS
<1> QED BY <1>1, <1>2, <1>5, <1>7, <1>10, <1>14, <1>15, <1>18, <1>19, LogStep, Zenon DEF log_count

\* The record that is written is new: its thread's attempt has no row yet.
LEMMA log_rowStep ==
  ASSUME SessionInv, NEW t \in Threads, ~crashed, log_row(t)
  PROVE  SessionInv'
<1> DEFINE s == [thread[t] EXCEPT !.pc = "count", !.seen = csv.record_count]
           r == thread[t].record
<1>1. /\ {"row", "count"} \subseteq Testing \cap Writing
      /\ "count" \in MainLabels \cup WorkerLabels /\ "count" \notin {"lock", "row"}
  BY DEF Testing, Owning, Writing, MainLabels
<1>2. thread[t] \in ThreadType /\ thread[t].pc = "row" /\ thread \in [Threads -> ThreadType]
  BY Zenon DEF log_row, At, SessionInv, Types
<1>3. csv \in CsvType /\ csv' = [csv EXCEPT !.rows = csv.rows \cup {r}] /\ counted' = counted
  BY Zenon DEF SessionInv, Types, log_row
<1>4. r \in RecordType /\ csv.rows \subseteq RecordType /\ csv.record_count \in Nat
  BY <1>2, <1>3 DEF ThreadType, CsvType
<1>5. s \in ThreadType
  BY <1>1, <1>2, <1>4 DEF ThreadType
<1>6. /\ s.pc = "count" /\ s.device = thread[t].device /\ s.handle = thread[t].handle
      /\ s.tries = thread[t].tries /\ s.attempts = thread[t].attempts
      /\ s.refused = thread[t].refused /\ s.seen = csv.record_count
  BY <1>2 DEF ThreadType
<1>7. thread' = [thread EXCEPT ![t] = s]
  BY <1>2, Zenon DEF log_row
<1>8. /\ csv' \in CsvType /\ csv'.log = csv.log /\ csv'.footer = csv.footer
      /\ csv'.rows = csv.rows \cup {r} /\ csv'.record_count = csv.record_count
      /\ csv'.mutex = csv.mutex
  BY <1>3, <1>4 DEF CsvType
<1> HIDE DEF s, r
<1>9. Becomes(t, s) /\ thread'[t] = s /\ \A u \in Threads : u # t => thread'[u] = thread[u]
  BY <1>2, <1>5, <1>7, OneThread, Zenon DEF Becomes
<1>10. SelfOK(t, thread[t])
  BY Zenon DEF SessionInv
<1>11. r.thread = t /\ r.device = thread[t].device /\ r.number = thread[t].attempts
  BY <1>2, <1>10, Zenon DEF SelfOK, r
<1>12. Unwritten(t) /\ ~Unwritten(t)' /\ At(t, "count")' /\ ~At(t, "count")
  BY <1>1, <1>2, <1>6, <1>9 DEF Unwritten, At
<1>13. \A u \in Threads : u # t =>
         /\ Unwritten(u)' <=> Unwritten(u)
         /\ At(u, "count")' <=> At(u, "count")
         /\ ~At(u, "count")
  BY <1>2, <1>9, Holder, Zenon DEF Unwritten, At
<1>14. \A u \in Threads : thread'[u].attempts = thread[u].attempts /\ thread[u].attempts \in Nat
  <2>1. \A u \in Threads : thread[u].attempts \in Nat
    BY <1>2 DEF ThreadType
  <2> QED BY <1>6, <1>9, <2>1, Zenon
<1>15. r \notin csv.rows
  <2> SUFFICES ASSUME r \in csv.rows PROVE FALSE
    OBVIOUS
  <2>1. r.number < thread[t].attempts
    BY <1>11, <1>12, Zenon DEF SessionInv, RowsInv
  <2> QED BY <1>11, <1>14, <2>1
<1>16. RowsInv'
  <2>1. IsFiniteSet(csv'.rows)
    BY <1>8, FS_AddElement, Zenon DEF SessionInv, RowsInv
  <2> SUFFICES ASSUME NEW x \in csv'.rows
               PROVE  /\ x.thread \in Threads
                      /\ x.number <= thread'[x.thread].attempts
                      /\ Unwritten(x.thread)' => x.number < thread'[x.thread].attempts
    BY <2>1, Zenon DEF RowsInv
  <2>2. CASE x \in csv.rows
    <3>1. /\ x.thread \in Threads
          /\ x.number <= thread[x.thread].attempts
          /\ Unwritten(x.thread) => x.number < thread[x.thread].attempts
      BY <2>2, Zenon DEF SessionInv, RowsInv
    <3> QED BY <1>12, <1>13, <1>14, <3>1, Zenon
  <2>3. CASE x = r
    <3>1. thread[t].attempts <= thread[t].attempts
      BY <1>14
    <3> QED BY <1>11, <1>12, <1>14, <2>3, <3>1, Zenon
  <2> QED BY <1>8, <2>2, <2>3, Zenon
<1>17. csv.log = "open" /\ IsFiniteSet(csv.rows)
  BY <1>1, <1>2, Zenon DEF SessionInv, LogInv, RowsInv
<1>18. Logged /\ Cardinality(csv.rows) \in Nat
  <2>1. Logged
    BY <1>17 DEF Logged
  <2> QED BY <1>17, <2>1, FS_CardinalityType, Zenon
<1>19. AttemptsLogged'
  <2> SUFFICES ASSUME NEW u \in Threads
               PROVE  thread'[u].attempts = Cardinality(RowsOf(u)') + IF Unwritten(u)' THEN 1 ELSE 0
    BY Zenon DEF AttemptsLogged
  <2>1. thread[u].attempts = Cardinality(RowsOf(u)) + IF Unwritten(u) THEN 1 ELSE 0
    BY <1>18, RecordsParts, Zenon DEF SessionInv, AttemptsLogged
  <2>2. CASE u # t
    <3>1. RowsOf(u)' = RowsOf(u)
      BY <1>8, <1>11, <2>2, Zenon DEF RowsOf
    <3> QED BY <1>13, <1>14, <2>1, <2>2, <3>1, Zenon
  <2>3. CASE u = t
    <3>1. RowsOf(t)' = RowsOf(t) \cup {r} /\ r \notin RowsOf(t)
      BY <1>8, <1>11, <1>15, Zenon DEF RowsOf
    <3>2. IsFiniteSet(RowsOf(t))
      BY <1>17, FS_Subset, Zenon DEF RowsOf
    <3>3. Cardinality(RowsOf(t) \cup {r}) = Cardinality(RowsOf(t)) + 1 /\ Cardinality(RowsOf(t)) \in Nat
      BY <3>1, <3>2, FS_AddElement, FS_CardinalityType, Zenon
    <3>4. thread[t].attempts = Cardinality(RowsOf(t)) + 1
      BY <1>12, <2>1, <2>3, Zenon
    <3>5. thread'[t].attempts = Cardinality(RowsOf(t)') + 0
      BY <1>14, <3>1, <3>3, <3>4
    <3> QED BY <1>12, <2>3, <3>5, Zenon
  <2> QED BY <2>2, <2>3
<1>20. RowsMatchDevices'
  <2> DEFINE A(d) == {u \in Threads : Unwritten(u) /\ Done(thread[u].record, d)}
  <2> SUFFICES ASSUME NEW d \in Devices
               PROVE  counted'[d] = Cardinality(RowsDone(d)') + Cardinality(A(d)')
    BY Zenon DEF RowsMatchDevices
  <2>1. counted[d] = Cardinality(RowsDone(d)) + Cardinality(A(d))
    BY <1>18, Zenon DEF SessionInv, RowsMatchDevices
  <2>2. A(d)' = A(d) \ {t}
    <3>1. \A u \in Threads : (Unwritten(u) /\ Done(thread[u].record, d))' <=>
                             u # t /\ Unwritten(u) /\ Done(thread[u].record, d)
      BY <1>9, <1>12, <1>13, Zenon DEF Done
    <3> QED BY <3>1, Zenon
  <2>3. t \in A(d) <=> Done(r, d)
    BY <1>12, Zenon DEF r
  <2>4. IsFiniteSet(RowsDone(d)) /\ IsFiniteSet(A(d))
    <3>1. RowsDone(d) \subseteq csv.rows
      BY Zenon DEF RowsDone
    <3>2. IsFiniteSet(A(d))
      BY FiniteTests
    <3> QED BY <1>17, <3>1, <3>2, FS_Subset, Zenon
  <2> HIDE DEF A
  <2>5. CASE Done(r, d)
    <3>1. RowsDone(d)' = RowsDone(d) \cup {r} /\ r \notin RowsDone(d)
      BY <1>8, <1>15, <2>5, Zenon DEF RowsDone, Done
    <3>2. Cardinality(RowsDone(d) \cup {r}) = Cardinality(RowsDone(d)) + 1
      BY <2>4, <3>1, FS_AddElement, Zenon
    <3>3. Cardinality(A(d) \ {t}) = Cardinality(A(d)) - 1
      BY <2>3, <2>4, <2>5, FS_RemoveElement, Zenon
    <3>4. Cardinality(RowsDone(d)) \in Nat /\ Cardinality(A(d)) \in Nat
      BY <2>4, FS_CardinalityType, Zenon
    <3>5. counted[d] = (Cardinality(RowsDone(d)) + 1) + (Cardinality(A(d)) - 1)
      BY <2>1, <3>4
    <3> QED BY <1>3, <2>2, <3>1, <3>2, <3>3, <3>5, Zenon
  <2>6. CASE ~Done(r, d)
    <3>1. RowsDone(d)' = RowsDone(d)
      BY <1>8, <2>6, Zenon DEF RowsDone, Done
    <3>2. A(d) \ {t} = A(d)
      BY <2>3, <2>6, Zenon
    <3> QED BY <1>3, <2>1, <2>2, <3>1, <3>2, Zenon
  <2> QED BY <2>5, <2>6
<1>21. RowsCounted'
  <2>1. {u \in Threads : At(u, "count")} = {}
    BY <1>12, <1>13, Zenon
  <2>2. {u \in Threads : At(u, "count")'} = {t}
    BY <1>12, <1>13, Zenon
  <2>3. Cardinality({t}) = 1 /\ Cardinality({}) = 0
    BY FS_Singleton, FS_EmptySet, Zenon
  <2>4. Cardinality(csv.rows) = csv.record_count + Cardinality({u \in Threads : At(u, "count")})
    BY RecordsParts, Zenon DEF SessionInv, RowsCounted
  <2>5. Cardinality(csv.rows) = csv.record_count + 0
    BY <2>1, <2>3, <2>4, Zenon
  <2>6. Cardinality(csv'.rows) = Cardinality(csv.rows) + 1
    BY <1>8, <1>15, <1>17, FS_AddElement, Zenon
  <2>7. Cardinality(csv'.rows) = csv'.record_count + 1
    BY <1>4, <1>8, <2>5, <2>6
  <2> QED BY <2>2, <2>3, <2>7, Zenon DEF RowsCounted
<1>22. FooterTotals'
  <2>1. csv.log # "closed"
    BY <1>17
  <2> QED BY <1>8, <2>1, Zenon DEF SessionInv, LogInv, FooterTotals
<1>23. RecordsAreComplete'
  BY <1>19, <1>21, <1>22, RecordsPartsNext
<1>24. LogInv'
  <2>1. \A u \in Threads :
          /\ csv'.mutex = u <=> thread'[u].pc \in {"row", "count"}
          /\ At(u, "count")' => thread'[u].seen = csv'.record_count
    BY <1>2, <1>6, <1>8, <1>9, <1>13, Zenon DEF SessionInv, LogInv, At
  <2> QED BY <1>1, <1>2, <1>6, <1>8, <1>9, <1>17, <2>1, TestLogInv, Zenon
<1>25. "count" # "row"
  OBVIOUS
<1> QED BY <1>1, <1>2, <1>6, <1>8, <1>9, <1>16, <1>20, <1>23, <1>24, <1>25, LogStep, Zenon DEF log_row

-----------------------------------------------------------------------------
\* What a write does to its thread and to the device's count.
Wrote(t, status, s) ==
  /\ s.pc = (IF csv.log = "open" THEN "lock" ELSE "check")
  /\ s.device = thread[t].device /\ s.handle = thread[t].handle
  /\ s.tries = thread[t].tries + 1 /\ s.attempts = thread[t].attempts + 1
  /\ s.refused = thread[t].refused
  /\ csv.log = "open" =>
       s.record = [thread |-> t, device |-> thread[t].device, status |-> status,
                   number |-> thread[t].attempts + 1]
  /\ counted' \in [Devices -> Nat]
  /\ \A d \in Devices :
       counted'[d] = counted[d] + IF Transferred(status) /\ d = thread[t].device THEN 1 ELSE 0

LEMMA WriteWrote ==
  ASSUME SessionInv, NEW t \in Threads, NEW status \in Statuses, write(t, status)
  PROVE  \E s : Becomes(t, s) /\ Wrote(t, status, s)
<1> DEFINE rec == IF csv.log = "open"
                  THEN [thread |-> t, device |-> thread[t].device, status |-> status,
                        number |-> thread[t].attempts + 1]
                  ELSE NoRecord
           label == IF csv.log = "open" THEN "lock" ELSE "check"
           s == [thread[t] EXCEPT !.pc = label, !.tries = @ + 1, !.attempts = @ + 1,
                                  !.record = rec]
<1>1. /\ thread[t] \in ThreadType /\ thread \in [Threads -> ThreadType]
      /\ counted \in [Devices -> Nat] /\ SelfOK(t, thread[t])
  BY Zenon DEF SessionInv, Types
<1>2. /\ thread[t].device \in Nat /\ thread[t].tries + 1 \in Nat /\ thread[t].attempts + 1 \in Nat
  BY <1>1 DEF ThreadType
<1>3. rec \in RecordType
  <2>1. t \in Int
    <3>1. Threads \subseteq Nat
      BY Numbers, Zenon DEF SessionInv, Types
    <3> QED BY <3>1
  <2> QED BY <1>2, <2>1 DEF RecordType, NoRecord, Nobody, Closed
<1>4. label \in MainLabels \cup WorkerLabels
  BY DEF MainLabels, Testing, Owning
<1>5. csv.log = "open" => rec = [thread |-> t, device |-> thread[t].device, status |-> status,
                                 number |-> thread[t].attempts + 1]
  BY Zenon
<1>6. label = IF csv.log = "open" THEN "lock" ELSE "check"
  BY Zenon
<1>7. thread' = [thread EXCEPT ![t] = s]
  BY <1>1, Zenon DEF write
<1> HIDE DEF rec, label
<1>8. s \in ThreadType
  BY <1>1, <1>2, <1>3, <1>4 DEF ThreadType
<1>9. /\ s.pc = label /\ s.device = thread[t].device /\ s.handle = thread[t].handle
      /\ s.tries = thread[t].tries + 1 /\ s.attempts = thread[t].attempts + 1
      /\ s.refused = thread[t].refused /\ s.record = rec
  BY <1>1 DEF ThreadType
<1> HIDE DEF s
<1>10. Becomes(t, s)
  BY <1>1, <1>7, <1>8, OneThread, Zenon
<1>11. thread[t].handle = thread[t].device /\ thread[t].device \in Devices
  <2>1. "write" \in Owning
    BY DEF Owning
  <2>2. thread[t].handle = thread[t].device /\ thread[t].device < config.devices
    BY <1>1, <2>1, Zenon DEF write, At, SelfOK
  <2> QED BY <1>2, <2>2, Numbers, Zenon DEF SessionInv, Types
<1>12. /\ counted' \in [Devices -> Nat]
       /\ \A d \in Devices :
            counted'[d] = counted[d] + IF Transferred(status) /\ d = thread[t].device THEN 1 ELSE 0
  <2>1. CASE Transferred(status)
    <3>1. counted' = [counted EXCEPT ![thread[t].device] = counted[thread[t].device] + 1]
      BY <1>11, <2>1, Zenon DEF write
    <3> QED BY <1>1, <1>11, <2>1, <3>1
  <2>2. CASE ~Transferred(status)
    <3>1. counted' = counted
      BY <2>2, Zenon DEF write
    <3> QED BY <1>1, <2>2, <3>1
  <2> QED BY <2>1, <2>2
<1>13. Wrote(t, status, s)
  BY <1>5, <1>6, <1>9, <1>12, Zenon DEF Wrote
<1> QED BY <1>10, <1>13, Zenon

LEMMA writeStep ==
  ASSUME SessionInv, NEW t \in Threads, ~crashed, NEW status \in Statuses, write(t, status)
  PROVE  SessionInv'
<1>1. PICK s : Becomes(t, s) /\ Wrote(t, status, s)
  BY WriteWrote
<1>2. /\ s.pc = (IF csv.log = "open" THEN "lock" ELSE "check")
      /\ s.device = thread[t].device /\ s.handle = thread[t].handle
      /\ s.tries = thread[t].tries + 1 /\ s.attempts = thread[t].attempts + 1
      /\ s.refused = thread[t].refused
      /\ counted' \in [Devices -> Nat]
      /\ thread'[t] = s /\ \A u \in Threads : u # t => thread'[u] = thread[u]
  BY <1>1, Zenon DEF Wrote, Becomes
<1>3. /\ {"lock", "check", "write"} \subseteq Owning \cap Testing \cap MainLabels \cap WorkerLabels
      /\ {"lock", "check", "write"} \cap {"none", "start", "done", "exited", "row", "count"} = {}
      /\ "check" \notin Writing /\ "write" \notin Writing /\ "write" # "lock" /\ "check" # "lock"
  BY DEF Owning, Testing, MainLabels, WorkerLabels, Writing
<1>4. s.pc \in {"lock", "check"} /\ thread[t].pc = "write" /\ SelfOK(t, thread[t])
  BY <1>2, Zenon DEF write, At, SessionInv
<1>5. /\ thread \in [Threads -> ThreadType] /\ csv \in CsvType /\ csv' = csv /\ config' = config
      /\ crashed' = crashed
  BY Zenon DEF SessionInv, Types, write
<1>6. \A u \in Threads : thread[u].attempts \in Nat
  BY <1>5 DEF ThreadType
<1>7. csv.log = "open" =>
        s.record.thread = t /\ s.record.device = s.device /\ s.record.number = s.attempts
        /\ s.record.status = status
  <2>1. csv.log = "open" =>
          s.record = [thread |-> t, device |-> thread[t].device, status |-> status,
                      number |-> thread[t].attempts + 1]
    BY <1>1, Zenon DEF Wrote
  <2> QED BY <1>2, <2>1
<1>8. SelfOK(t, s)
  <2>1. s.pc \in IF t = Main THEN MainLabels ELSE WorkerLabels
    BY <1>3, <1>4, Zenon
  <2>2. s.device < config.devices /\ t <= config.threads
    BY <1>2, <1>3, <1>4, Zenon DEF SelfOK
  <2>3. s.handle = IF s.pc \in Owning THEN s.device ELSE Closed
    BY <1>2, <1>3, <1>4, Zenon DEF SelfOK
  <2>4. t # Main => s.tries = s.attempts
    BY <1>2, <1>4, Zenon DEF SelfOK
  <2>5. s.pc \notin {"none", "start"}
    BY <1>3, <1>4, Zenon
  <2>6. s.pc \in {"lock", "row"} => csv.log = "open"
    BY <1>2, <1>3, Zenon
  <2> QED BY <1>7, <2>1, <2>2, <2>3, <2>4, <2>5, <2>6, Zenon DEF SelfOK
<1>9. Phases'
  BY <1>1, <1>3, <1>4, TestPhases, Zenon
<1>10. BusyOnlyIfShared'
  <2>1. Kept(t, s)
    BY <1>2, <1>3, <1>4, Zenon DEF Kept
  <2> QED BY <1>1, <1>5, <2>1, BusyFrame, Zenon
<1>11. LogInv' /\ csv.log # "closed"
  <2>1. \A u \in Threads :
          /\ thread'[u].pc \in Writing => csv.log = "open"
          /\ csv.mutex = u <=> thread'[u].pc \in {"row", "count"}
          /\ thread'[u].pc = "count" => thread'[u].seen = csv.record_count
    <3> SUFFICES ASSUME NEW u \in Threads
                 PROVE  /\ thread'[u].pc \in Writing => csv.log = "open"
                        /\ csv.mutex = u <=> thread'[u].pc \in {"row", "count"}
                        /\ thread'[u].pc = "count" => thread'[u].seen = csv.record_count
      OBVIOUS
    <3>1. /\ thread[u].pc \in Writing => csv.log = "open"
          /\ csv.mutex = u <=> thread[u].pc \in {"row", "count"}
          /\ thread[u].pc = "count" => thread[u].seen = csv.record_count
      BY Zenon DEF SessionInv, LogInv, At
    <3>2. CASE u = t
      <4>1. s.pc \notin {"row", "count"} /\ thread[t].pc \notin {"row", "count"} /\ s.pc # "count"
        BY <1>3, <1>4, Zenon
      <4> QED BY <1>2, <1>3, <3>1, <3>2, <4>1, Zenon
    <3>3. CASE u # t
      BY <1>2, <3>1, <3>3, Zenon
    <3> QED BY <3>2, <3>3
  <2> QED BY <1>1, <1>3, <1>4, <1>5, <2>1, TestLogInv, Zenon DEF At
<1>12. ~Unwritten(t) /\ ~At(t, "count") /\ ~At(t, "count")'
  BY <1>2, <1>3, <1>4, Zenon DEF Unwritten, At
<1>13. \A u \in Threads : u # t =>
         /\ Unwritten(u)' <=> Unwritten(u)
         /\ At(u, "count")' <=> At(u, "count")
  BY <1>2, Zenon DEF Unwritten, At
<1>14. RowsInv'
  <2> SUFFICES ASSUME NEW x \in csv.rows
               PROVE  /\ x.thread \in Threads
                      /\ x.number <= thread'[x.thread].attempts
                      /\ Unwritten(x.thread)' => x.number < thread'[x.thread].attempts
    BY <1>5, Zenon DEF SessionInv, RowsInv
  <2>1. /\ x.thread \in Threads
        /\ x.number <= thread[x.thread].attempts
        /\ Unwritten(x.thread) => x.number < thread[x.thread].attempts
    BY Zenon DEF SessionInv, RowsInv
  <2>2. x.number \in Nat
    BY <1>5 DEF CsvType, RecordType
  <2>3. CASE x.thread = t
    <3>1. thread'[t].attempts = thread[t].attempts + 1 /\ x.number <= thread[t].attempts
      BY <1>2, <2>1, <2>3, Zenon
    <3>2. x.number <= thread'[t].attempts /\ x.number < thread'[t].attempts
      BY <1>6, <2>2, <3>1
    <3> QED BY <2>3, <3>2, Zenon
  <2>4. CASE x.thread # t
    BY <1>2, <1>13, <2>1, <2>4, Zenon
  <2> QED BY <2>3, <2>4
<1>15. Logged' => csv.log = "open"
  BY <1>5, <1>11 DEF Logged
<1>16. csv.log = "open" => Unwritten(t)'
  BY <1>2 DEF Unwritten
<1>17. AttemptsLogged'
  <2> SUFFICES ASSUME Logged', NEW u \in Threads
               PROVE  thread'[u].attempts = Cardinality(RowsOf(u)') + IF Unwritten(u)' THEN 1 ELSE 0
    BY Zenon DEF AttemptsLogged
  <2>1. Logged
    BY <1>5, Zenon DEF Logged
  <2>2. thread[u].attempts = Cardinality(RowsOf(u)) + IF Unwritten(u) THEN 1 ELSE 0
    BY <2>1, RecordsParts, Zenon DEF SessionInv, AttemptsLogged
  <2>3. RowsOf(u)' = RowsOf(u)
    BY <1>5, Zenon DEF RowsOf
  <2>4. CASE u # t
    BY <1>2, <1>13, <2>2, <2>3, <2>4, Zenon
  <2>5. CASE u = t
    <3>1. thread[t].attempts = Cardinality(RowsOf(t)) + 0
      BY <1>12, <2>2, <2>5, Zenon
    <3>2. Cardinality(RowsOf(t)) \in Nat
      <4>1. RowsOf(t) \subseteq csv.rows
        BY Zenon DEF RowsOf
      <4> QED BY <4>1, FS_Subset, FS_CardinalityType, Zenon DEF SessionInv, RowsInv
    <3>3. thread'[t].attempts = Cardinality(RowsOf(t)) + 1
      BY <1>2, <3>1, <3>2
    <3> QED BY <1>15, <1>16, <2>3, <2>5, <3>3, Zenon
  <2> QED BY <2>4, <2>5
<1>18. RowsMatchDevices'
  <2> DEFINE A(d) == {u \in Threads : Unwritten(u) /\ Done(thread[u].record, d)}
  <2> SUFFICES ASSUME Logged', NEW d \in Devices
               PROVE  counted'[d] = Cardinality(RowsDone(d)') + Cardinality(A(d)')
    BY Zenon DEF RowsMatchDevices
  <2>1. Logged
    BY <1>5, Zenon DEF Logged
  <2>2. counted[d] = Cardinality(RowsDone(d)) + Cardinality(A(d))
    BY <2>1, Zenon DEF SessionInv, RowsMatchDevices
  <2>3. RowsDone(d)' = RowsDone(d)
    BY <1>5, Zenon DEF RowsDone, Done
  <2>4. IsFiniteSet(A(d)) /\ t \notin A(d)
    BY <1>12, FiniteTests, Zenon
  <2>5. Done(s.record, d) <=> Transferred(status) /\ d = thread[t].device
    BY <1>2, <1>7, <1>15, Zenon DEF Done, Transferred
  <2>6. \A u \in Threads : u # t =>
          ((Unwritten(u) /\ Done(thread[u].record, d))' <=> Unwritten(u) /\ Done(thread[u].record, d))
    BY <1>2, <1>13, Zenon DEF Done
  <2>7. (Unwritten(t) /\ Done(thread[t].record, d))' <=> Done(s.record, d)
    BY <1>2, <1>15, <1>16, Zenon DEF Done
  <2>8. IsFiniteSet(RowsDone(d))
    <3>1. RowsDone(d) \subseteq csv.rows
      BY Zenon DEF RowsDone
    <3> QED BY <3>1, FS_Subset, Zenon DEF SessionInv, RowsInv
  <2>9. Cardinality(RowsDone(d)) \in Nat /\ Cardinality(A(d)) \in Nat
    BY <2>4, <2>8, FS_CardinalityType, Zenon
  <2>10. counted'[d] = counted[d] + IF Transferred(status) /\ d = thread[t].device THEN 1 ELSE 0
    BY <1>1, Zenon DEF Wrote
  <2>11. CASE Done(s.record, d)
    <3>1. A(d)' = A(d) \cup {t}
      BY <2>6, <2>7, <2>11, Zenon
    <3> HIDE DEF A
    <3>2. Cardinality(A(d) \cup {t}) = Cardinality(A(d)) + 1
      BY <2>4, FS_AddElement, Zenon
    <3>3. counted'[d] = Cardinality(RowsDone(d)) + (Cardinality(A(d)) + 1)
      BY <2>2, <2>5, <2>9, <2>10, <2>11
    <3> QED BY <2>3, <3>1, <3>2, <3>3, Zenon
  <2>12. CASE ~Done(s.record, d)
    <3>1. A(d)' = A(d)
      BY <2>4, <2>6, <2>7, <2>12, Zenon
    <3> HIDE DEF A
    <3>3. counted'[d] = Cardinality(RowsDone(d)) + Cardinality(A(d))
      BY <2>2, <2>5, <2>9, <2>10, <2>12
    <3> QED BY <2>3, <3>1, <3>3, Zenon
  <2> QED BY <2>11, <2>12
<1>19. RowsCounted' /\ FooterTotals'
  BY <1>5, <1>12, <1>13, CountFrame, RecordsParts, Zenon DEF SessionInv
<1>20. RecordsAreComplete'
  BY <1>17, <1>19, RecordsPartsNext
<1> QED BY <1>1, <1>2, <1>5, <1>8, <1>9, <1>10, <1>11, <1>14, <1>18, <1>20, Assemble, Zenon

-----------------------------------------------------------------------------
LEMMA SessionLoggerStep ==
  ASSUME SessionInv, ~crashed, SessionLogger
  PROVE  SessionInv'
<1> DEFINE s == At_(thread[Main], "open")
<1>1. /\ "open" \in MainLabels /\ "open" \in Testing /\ "start" \notin Testing
      /\ {"none", "start", "open"} \cap (Owning \cup Writing \cup {"lock", "row", "count"}) = {}
      /\ "open" \notin Ending /\ "open" \notin {"none", "start"} /\ "open" # "count"
  BY DEF MainLabels, Testing, Owning, Writing, Ending
<1>2. Main \in Threads /\ Nobody \notin Threads /\ Types
  BY Numbers, Zenon DEF SessionInv, Types
<1>3. thread[Main].pc = "start" /\ thread[Main] \in ThreadType /\ SelfOK(Main, thread[Main])
  BY <1>2, Zenon DEF SessionLogger, At, Types, SessionInv
<1>4. Becomes(Main, s)
  BY <1>1, <1>2, GotoStep, Zenon DEF SessionLogger
<1>5. /\ s.pc = "open" /\ s.device = thread[Main].device /\ s.handle = thread[Main].handle
      /\ s.attempts = thread[Main].attempts /\ s.refused = thread[Main].refused
  BY <1>3 DEF At_, ThreadType
<1> HIDE DEF s
<1>6. PICK l \in {"open", "null", "none"} : csv' = [csv EXCEPT !.log = l]
  BY Zenon DEF SessionLogger
<1>7. /\ csv' \in CsvType /\ csv'.log = l /\ csv'.rows = csv.rows /\ csv'.mutex = csv.mutex
      /\ csv'.record_count = csv.record_count /\ csv'.footer = csv.footer
  BY <1>2, <1>6 DEF Types, CsvType
<1>8. UNCHANGED <<config, counted, crashed>> /\ counted' \in [Devices -> Nat]
  BY <1>2, Zenon DEF SessionLogger, Types
<1>9. csv'.log # "closed" /\ csv.log = "none" /\ csv.rows = {} /\ \A d \in Devices : counted[d] = 0
  BY <1>3, <1>7, Zenon DEF SessionInv, LogInv, At
<1>10. \A w \in Workers : thread[w].pc = "none" /\ thread'[w] = thread[w]
  BY <1>3, <1>4, Zenon DEF SessionInv, Phases, At, Becomes, Workers
<1>11. thread'[Main].pc = "open" /\ thread'[Main].attempts = thread[Main].attempts
  BY <1>2, <1>4, <1>5, Zenon DEF Becomes
<1>12. \A u \in Threads : /\ thread[u].pc \in {"start", "none"} /\ thread'[u].pc \in {"open", "none"}
                          /\ thread'[u].attempts = 0
  <2> SUFFICES ASSUME NEW u \in Threads
               PROVE  /\ thread[u].pc \in {"start", "none"} /\ thread'[u].pc \in {"open", "none"}
                      /\ thread'[u].attempts = 0
    OBVIOUS
  <2>1. SelfOK(u, thread[u])
    BY Zenon DEF SessionInv
  <2>2. CASE u = Main
    BY <1>3, <1>11, <2>1, <2>2, Zenon DEF SelfOK
  <2>3. CASE u # Main
    <3>1. u \in Workers
      BY <2>3, Zenon DEF Workers
    <3> QED BY <1>10, <2>1, <3>1, Zenon DEF SelfOK
  <2> QED BY <2>2, <2>3
<1>13. \A u \in Threads : /\ thread[u].pc \notin {"lock", "row", "count"}
                          /\ thread'[u].pc \notin {"lock", "row", "count"}
                          /\ thread'[u].pc \notin Writing
  BY <1>1, <1>12, Zenon
<1>14. \A u \in Threads : ~Unwritten(u) /\ ~Unwritten(u)' /\ ~At(u, "count") /\ ~At(u, "count")'
  BY <1>13, Zenon DEF Unwritten, At
<1>15. SelfOK(Main, s)
  BY <1>1, <1>3, <1>5, Zenon DEF SelfOK
<1>16. BusyOnlyIfShared'
  <2>1. Kept(Main, s)
    BY <1>5, Zenon DEF Kept
  <2> QED BY <1>2, <1>4, <1>8, <2>1, BusyFrame, Zenon
<1>17. Phases'
  BY <1>1, <1>10, <1>11, Zenon DEF Phases, At
<1>18. LogInv'
  <2>1. csv'.log = "closed" <=> csv'.footer # NoFooter
    BY <1>7, <1>9, Zenon DEF SessionInv, LogInv
  <2>2. ~At(Main, "start")'
    BY <1>1, <1>11, Zenon DEF At
  <2>3. \A u \in Threads : csv'.mutex = u <=> thread'[u].pc \in {"row", "count"}
    <3>1. \A u \in Threads : csv.mutex # u
      BY <1>13, Zenon DEF SessionInv, LogInv
    <3> QED BY <1>7, <1>13, <3>1, Zenon
  <2> QED BY <1>9, <1>13, <1>14, <2>1, <2>2, <2>3, Zenon DEF LogInv
<1>19. RowsInv' /\ csv'.rows = {} /\ Cardinality({}) = 0
  BY <1>7, <1>9, FS_EmptySet, Zenon DEF RowsInv
<1>20. RecordsAreComplete'
  <2>1. AttemptsLogged'
    <3> SUFFICES ASSUME NEW u \in Threads
                 PROVE  thread'[u].attempts = Cardinality(RowsOf(u)') + IF Unwritten(u)' THEN 1 ELSE 0
      BY Zenon DEF AttemptsLogged
    <3>1. RowsOf(u)' = {}
      BY <1>19, Zenon DEF RowsOf
    <3>2. 0 = 0 + 0
      OBVIOUS
    <3> QED BY <1>12, <1>14, <1>19, <3>1, <3>2, Zenon
  <2>2. RowsCounted' /\ FooterTotals'
    BY <1>7, <1>14, CountFrame, RecordsParts, Zenon DEF SessionInv
  <2> QED BY <2>1, <2>2, RecordsPartsNext
<1>21. RowsMatchDevices'
  <2> SUFFICES ASSUME NEW d \in Devices
               PROVE  counted'[d] = Cardinality(RowsDone(d)') +
                        Cardinality({u \in Threads : Unwritten(u) /\ Done(thread[u].record, d)}')
    BY Zenon DEF RowsMatchDevices
  <2>1. RowsDone(d)' = {} /\ {u \in Threads : Unwritten(u) /\ Done(thread[u].record, d)}' = {}
    BY <1>14, <1>19, Zenon DEF RowsDone
  <2>2. 0 = 0 + 0
    OBVIOUS
  <2> QED BY <1>8, <1>9, <1>19, <2>1, <2>2, Zenon
<1> QED BY <1>2, <1>4, <1>7, <1>8, <1>9, <1>15, <1>16, <1>17, <1>18, <1>19, <1>20, <1>21, Assemble, Zenon

\* No thread can have a row that is not counted when the total is written.
LEMMA exitStep ==
  ASSUME SessionInv, ~crashed, exit
  PROVE  SessionInv'
<1> DEFINE s == At_(thread[Main], "exited")
<1>1. "exit" \in Ending /\ thread[Main].pc = "exit" /\ Goto(Main, "exited")
      /\ UNCHANGED <<config, counted, crashed>>
  BY DEF Ending, exit, At
<1>2. \A w \in Workers : thread[w].pc \in {"none", "done"}
  BY <1>1, Zenon DEF SessionInv, Phases
<1>3. CASE csv.log # "open"
  <2>1. csv' = csv
    BY <1>3, Zenon DEF exit
  <2> QED BY <1>1, <1>2, <2>1, MainStep, Zenon
<1>4. CASE csv.log = "open"
  <2>1. csv' = [csv EXCEPT !.footer = csv.record_count, !.log = "closed"] /\ csv \in CsvType
    BY <1>4, Zenon DEF exit, SessionInv, Types
  <2>2. /\ Main \in Threads /\ Becomes(Main, s) /\ SelfOK(Main, s) /\ Kept(Main, s)
        /\ s.pc = "exited" /\ s.attempts = thread[Main].attempts /\ s.handle = Closed
        /\ {thread[Main].pc, "exited"} \cap (Writing \cup {"start", "none", "done"}) = {}
        /\ Phases'
    BY <1>1, <1>2, MainGoto, Zenon
  <2> HIDE DEF s
  <2>3. csv.record_count \in Nat /\ csv.record_count \in Int
    BY <2>1 DEF CsvType
  <2>4. /\ csv'.log = "closed" /\ csv'.rows = csv.rows /\ csv'.mutex = csv.mutex
        /\ csv'.record_count = csv.record_count /\ csv'.footer = csv.record_count
    BY <2>1 DEF CsvType
  <2>5. csv' \in CsvType
    BY <2>1, <2>3 DEF CsvType
  <2>6. thread'[Main] = s /\ \A u \in Threads : u # Main => thread'[u] = thread[u]
    BY <2>2, Zenon DEF Becomes
  <2>7. /\ {"none", "done", "exit", "exited"} \cap
           (Owning \cup Writing \cup {"lock", "row", "count"}) = {}
        /\ "exited" # "start"
    BY DEF Owning, Writing
  <2>8. \A u \in Threads : /\ thread[u].pc \in {"none", "done", "exit"}
                           /\ thread'[u].pc \in {"none", "done", "exited"}
                           /\ thread'[u].attempts = thread[u].attempts
    BY <1>1, <1>2, <2>2, <2>6, Zenon DEF Workers
  <2>9. \A u \in Threads : /\ thread[u].pc \notin {"lock", "row", "count"}
                           /\ thread'[u].pc \notin {"lock", "row", "count"}
                           /\ thread'[u].pc \notin Writing
                           /\ thread[u].pc \notin Owning
    BY <2>7, <2>8, Zenon
  <2>10. \A u \in Threads : ~Unwritten(u) /\ ~Unwritten(u)' /\ ~At(u, "count") /\ ~At(u, "count")'
    BY <2>9, Zenon DEF Unwritten, At
  <2>11. Types'
    BY <1>1, <2>2, <2>5, Zenon DEF SessionInv, Types, Becomes
  <2>12. \A u \in Threads : SelfOK(u, thread[u])'
    <3> SUFFICES ASSUME NEW u \in Threads PROVE SelfOK(u, thread[u])'
      OBVIOUS
    <3>1. SelfOK(u, thread'[u])
      <4>1. CASE u = Main
        BY <2>2, <2>6, <4>1, Zenon
      <4>2. CASE u # Main
        BY <2>6, <4>2, Zenon DEF SessionInv
      <4> QED BY <4>1, <4>2
    <3> QED BY <1>1, <3>1, Zenon DEF SelfOK
  <2>13. LogInv'
    <3>1. csv'.footer # NoFooter
      BY <2>3, <2>4 DEF NoFooter
    <3>2. At(Main, "exited")' /\ ~At(Main, "start")'
      BY <2>2, <2>6, <2>7, Zenon DEF At
    <3>3. \A u \in Threads : csv'.mutex = u <=> thread'[u].pc \in {"row", "count"}
      <4>1. \A u \in Threads : csv.mutex # u
        BY <2>9, Zenon DEF SessionInv, LogInv
      <4> QED BY <2>4, <2>9, <4>1, Zenon
    <3> QED BY <2>4, <2>9, <2>10, <3>1, <3>2, <3>3, Zenon DEF LogInv
  <2>14. RowsInv' /\ AttemptsLogged' /\ RowsMatchDevices'
    <3>1. SameRecords
      BY <1>1, <2>4, <2>8, <2>10, Zenon DEF SameRecords
    <3>2. Logged
      BY <1>4 DEF Logged
    <3> QED BY <3>1, <3>2, RecordsFrame, RecordsParts, Zenon DEF SessionInv
  <2>15. RowsCounted' /\ FooterTotals'
    <3>1. {u \in Threads : At(u, "count")} = {} /\ {u \in Threads : At(u, "count")'} = {}
      BY <2>10, Zenon
    <3>2. Cardinality(csv.rows) = csv.record_count + Cardinality({u \in Threads : At(u, "count")})
      BY RecordsParts, Zenon DEF SessionInv, RowsCounted
    <3>3. Cardinality(csv.rows) = csv.record_count + Cardinality({})
      BY <3>1, <3>2, Zenon
    <3>4. Cardinality({}) = 0
      BY FS_EmptySet, Zenon
    <3>5. Cardinality(csv.rows) = csv.record_count
      BY <2>3, <3>3, <3>4
    <3> QED BY <2>4, <3>1, <3>3, <3>5, Zenon DEF RowsCounted, FooterTotals
  <2>16. RecordsAreComplete'
    BY <2>14, <2>15, RecordsPartsNext
  <2>17. BusyOnlyIfShared'
    BY <1>1, <2>2, BusyFrame, Zenon
  <2>18. DiesOnlyOf'
    <3>1. \A u \in Threads : thread'[u].handle = Closed
      <4> SUFFICES ASSUME NEW u \in Threads PROVE thread'[u].handle = Closed
        OBVIOUS
      <4>1. CASE u = Main
        BY <2>2, <2>6, <4>1, Zenon
      <4>2. CASE u # Main
        <5>1. thread[u].handle = Closed
          BY <2>9, Zenon DEF SessionInv, SelfOK
        <5> QED BY <2>6, <4>2, <5>1, Zenon
      <4> QED BY <4>1, <4>2
    <3> QED BY <1>1, <3>1, Zenon DEF DiesOnlyOf
  <2> QED BY <2>2, <2>11, <2>12, <2>13, <2>14, <2>16, <2>17, <2>18, Zenon DEF SessionInv
<1> QED BY <1>3, <1>4

-----------------------------------------------------------------------------
LEMMA SessionInvNext == SessionInv /\ [Next]_vars => SessionInv'
<1> SUFFICES ASSUME SessionInv, [Next]_vars PROVE SessionInv'
  OBVIOUS
<1>1. CASE UNCHANGED vars
  <2>1. UNCHANGED <<config, thread, counted, csv, crashed>>
    BY <1>1, Zenon DEF vars
  <2>2. Types' /\ Phases' /\ LogInv' /\ RowsInv' /\ \A t \in Threads : SelfOK(t, thread[t])'
    BY <2>1, Zenon DEF SessionInv, Types, SelfOK, Phases, LogInv, RowsInv, At, Unwritten
  <2>3. RecordsAreComplete' /\ RowsMatchDevices'
    BY <2>1, Zenon DEF SessionInv, RecordsAreComplete, RowsMatchDevices, At, Unwritten, Logged,
                       RowsOf, RowsDone, Done
  <2>4. BusyOnlyIfShared' /\ DiesOnlyOf'
    BY <2>1, Zenon DEF SessionInv, BusyOnlyIfShared, DiesOnlyOf, Started, At
  <2> QED BY <2>2, <2>3, <2>4, Zenon DEF SessionInv
<1>2. ASSUME NEW t \in Threads, Thread(t) PROVE SessionInv'
  <2>1. ~crashed
    BY <1>2, Zenon DEF Thread
  <2>2. ASSUME Test(t) PROVE SessionInv'
    <3>1. CASE Device(t)
      BY <2>1, <3>1, DeviceStep
    <3>2. ASSUME NEW why \in {"busy", "memory"}, DeviceError(t, why) PROVE SessionInv'
      BY <2>1, <3>2, DeviceErrorStep
    <3>3. CASE loop_again(t)
      BY <2>1, <3>3, loop_againStep
    <3>4. CASE loop_over(t)
      BY <2>1, <3>4, loop_overStep
    <3>5. ASSUME NEW status \in {"SUCCESS", "INJECTED", "EXCEPTION"}, write(t, status)
          PROVE  SessionInv'
      BY <2>1, <3>5, writeStep, Zenon DEF Statuses
    <3>6. CASE bad_alloc(t)
      BY <2>1, <3>6, bad_allocStep
    <3>7. CASE log_lock(t)
      BY <2>1, <3>7, log_lockStep
    <3>8. CASE log_row(t)
      BY <2>1, <3>8, log_rowStep
    <3>9. CASE log_count(t)
      BY <2>1, <3>9, log_countStep
    <3>10. CASE average(t)
      BY <2>1, <3>10, averageStep
    <3>11. CASE close(t)
      BY <2>1, <3>11, closeStep
    <3> QED BY <2>2, <3>1, <3>2, <3>3, <3>4, <3>5, <3>6, <3>7, <3>8, <3>9, <3>10, <3>11, Zenon DEF Test
  <2>3. ASSUME main PROVE SessionInv'
    <3>1. CASE SessionLogger
      BY <2>1, <3>1, SessionLoggerStep
    <3>2. ASSUME NEW w \in Workers, async(w) PROVE SessionInv'
      BY <2>1, <3>2, asyncStep
    <3>3. CASE async_end
      BY <2>1, <3>3, async_endStep
    <3>4. CASE future_wait
      BY <2>1, <3>4, future_waitStep
    <3>5. CASE report
      BY <2>1, <3>5, reportStep
    <3>6. CASE exit
      BY <2>1, <3>6, exitStep
    <3> QED BY <2>3, <3>1, <3>2, <3>3, <3>4, <3>5, <3>6, Zenon DEF main
  <2> QED BY <1>2, <2>2, <2>3, Zenon DEF Thread
<1> QED BY <1>1, <1>2, Zenon DEF Next

\* Every reachable state of a session satisfies SessionInv.
LEMMA SessionInvAlways == Spec => []SessionInv
BY SessionInvInit, SessionInvNext, PTL DEF Spec

\* The log is complete, for every number of threads, devices and transfers: each
\* attempt has one row, no row is lost from the count although the count is an
\* unlocked read and a later write, and the closing total is the number of rows,
\* because the mutex covers the row and the count, and main reads the total when
\* no worker is left (csv_logger.cpp:55-73 and 130-142, cpp_test.cpp:300-302).
THEOREM TheLogIsComplete == Spec => []RecordsAreComplete
<1>1. SessionInv => RecordsAreComplete
  BY Zenon DEF SessionInv
<1> QED BY <1>1, SessionInvAlways, PTL

\* The log and the devices' counts agree whatever the interleaving: an attempt
\* counted by a device is in the file, or is the record its thread is about to
\* write (cpp_test.cpp:144-166 and 214-234).
THEOREM TheLogAgreesWithTheDevices == Spec => []RowsMatchDevices
<1>1. SessionInv => RowsMatchDevices
  BY Zenon DEF SessionInv
<1> QED BY <1>1, SessionInvAlways, PTL

\* Only two workers on one exclusive device can get in each other's way, whatever
\* fails before: main's tests never find a device busy (cpp_test.cpp:106-191 and
\* 291-302, device.hpp:79-90).
THEOREM OnlySharingMakesBusy == Spec => []BusyOnlyIfShared
<1>1. SessionInv => BusyOnlyIfShared
  BY Zenon DEF SessionInv
<1> QED BY <1>1, SessionInvAlways, PTL

\* The process dies at two places only, never with the closing lines written, and
\* a closed file is the last thing of a session: all the handles are closed
\* (cpp_test.cpp:243 and 357, csv_logger.cpp:28-33 and 167-174).
THEOREM TheSessionDiesOnlyThere == Spec => []DiesOnlyOf
<1>1. SessionInv => DiesOnlyOf
  BY Zenon DEF SessionInv
<1> QED BY <1>1, SessionInvAlways, PTL
=============================================================================
