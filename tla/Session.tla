------------------------------ MODULE Session ------------------------------
(***************************************************************************)
(* A run of the test program (examples/cpp_test.cpp) with its CSV log      *)
(* (utils/csv_logger) and the devices it owns (lib/device.hpp): main tests *)
(* the devices one after the other, starts the workers of the stress test, *)
(* waits for them, reports, and closes the log on exit.                    *)
(*                                                                         *)
(* A device is used through a backend whose calls are indivisible (shown   *)
(* in LinuxSim and WindowsSim); of its statistics only the number of       *)
(* transfers is kept.  The clock and the random error injection are        *)
(* nondeterministic (the injectors' generator, which the workers share     *)
(* unlocked, too); sizes, latencies and printed text are left out.         *)
(***************************************************************************)
EXTENDS Integers, FiniteSets

CONSTANTS
  Configs,           \* validated configurations, and the backend they run on
  PatternTransfers,  \* transfers of the pattern test on each device
  MaxTransfers       \* transfers a worker can make before its time is over

ASSUME ConfigsAssumption ==
  /\ \A c \in Configs : /\ c.devices \in Nat \ {0} /\ c.threads \in Nat
                        /\ {c.logging, c.errors, c.windows} \subseteq BOOLEAN
  /\ PatternTransfers \in Nat /\ MaxTransfers \in Nat

VARIABLES
  config,   \* the configuration
  thread,   \* the threads, main being number 0; see Init
  counted,  \* the transfers each device has counted
  csv,      \* the SessionLogger with its CSVLogger and file
  crashed   \* the process was killed

vars == <<config, thread, counted, csv, crashed>>

Main == 0
Closed == -1
Nobody == -1
NoFooter == -1
NoRecord == [thread |-> Nobody, device |-> Closed, status |-> "none", number |-> 0]

Threads == UNION {0 .. c.threads : c \in Configs}
Devices == UNION {0 .. c.devices - 1 : c \in Configs}
Workers == Threads \ {Main}

\* A thread: the device it tests, the handle its Device owns, its loop counter
\* (i, or transfer_count), the record it logs and its reading of record_count_;
\* as history, its attempted transfers and why it was refused a device.
\* The log: "none", "null" (it could not be opened), "open" or "closed"; its rows,
\* in any order; footer is the total that log_session_end writes.  Of the time and
\* the measurements in a row is kept what tells the rows of a thread apart, the
\* number of the attempt.
Init ==
  /\ config \in Configs
  /\ thread = [t \in Threads |->
       [pc |-> IF t = Main THEN "start" ELSE "none", device |-> 0, handle |-> Closed,
        tries |-> 0, record |-> NoRecord, seen |-> 0, attempts |-> 0, refused |-> "no"]]
  /\ counted = [d \in Devices |-> 0]
  /\ csv = [log |-> "none", mutex |-> Nobody, rows |-> {}, record_count |-> 0,
            footer |-> NoFooter]
  /\ crashed = FALSE

At(t, label) == thread[t].pc = label
Goto(t, label) == thread' = [thread EXCEPT ![t].pc = label]

-----------------------------------------------------------------------------
\* main constructs the SessionLogger, which swallows the failure of the CSVLogger
\* to open the file, and begins with the first device.
SessionLogger ==
  /\ At(Main, "start")
  /\ \E l \in IF config.logging THEN {"open", "null"} ELSE {"none"} :
       csv' = [csv EXCEPT !.log = l]
  /\ Goto(Main, "open")
  /\ UNCHANGED <<config, counted, crashed>>

-----------------------------------------------------------------------------
\* A thread tests its device: main in pattern_based_transfer_test, a worker in
\* stress_test_worker.  Then main goes on to the next device.
Tested(self, t) ==
  IF t # Main THEN [self EXCEPT !.pc = "done"]
  ELSE IF self.device + 1 < config.devices
  THEN [self EXCEPT !.pc = "open", !.device = @ + 1, !.tries = 0]
  ELSE [self EXCEPT !.pc = "stress"]

\* The Windows backend opens a device once at a time.
Busy(d) == config.windows /\ \E t \in Threads : thread[t].handle = d

\* The Device constructor, which throws if the device is busy or there is no
\* memory for the handle.
Device(t) ==
  /\ At(t, "open") /\ ~Busy(thread[t].device)
  /\ thread' = [thread EXCEPT ![t].pc = "check", ![t].handle = thread[t].device]
  /\ UNCHANGED <<config, counted, csv, crashed>>

DeviceError(t, why) ==
  /\ At(t, "open") /\ (why = "busy" => Busy(thread[t].device))
  /\ thread' = [thread EXCEPT ![t] = Tested([@ EXCEPT !.refused = why], t)]
  /\ UNCHANGED <<config, counted, csv, crashed>>

\* The loop condition.  A worker looks at the clock, which may be past its end
\* time at the first look already.
loop_again(t) ==
  /\ At(t, "check")
  /\ thread[t].tries < IF t = Main THEN PatternTransfers ELSE MaxTransfers
  /\ Goto(t, "write")
  /\ UNCHANGED <<config, counted, csv, crashed>>

loop_over(t) ==
  /\ At(t, "check")
  /\ t = Main => thread[t].tries = PatternTransfers
  /\ Goto(t, IF t = Main THEN "close" ELSE "average")
  /\ UNCHANGED <<config, counted, csv, crashed>>

\* Mutant: a transfer with an injected error is not made.
Transferred_injected(status) == status = "SUCCESS"

\* The device makes and counts the transfer, whether an error is injected or not,
\* unless Device::transfer throws.
Transferred(status) == status # "EXCEPTION"

\* Device::write succeeds, with an injected error or without, or throws.  (Only
\* the Windows backend refuses what the tests ask for: sizes over a megabyte, and
\* waits that time out.)  The attempt is logged if there is a logger.
write(t, status) ==
  /\ At(t, "write")
  /\ (status = "EXCEPTION" => config.windows) /\ (status = "INJECTED" => config.errors)
  /\ thread' = [thread EXCEPT
       ![t].pc = IF csv.log = "open" THEN "lock" ELSE "check",
       ![t].tries = @ + 1,
       ![t].attempts = @ + 1,
       ![t].record = IF csv.log = "open"
                     THEN [thread |-> t, device |-> thread[t].device, status |-> status,
                           number |-> thread[t].attempts + 1]
                     ELSE NoRecord]
  /\ counted' = IF Transferred(status) THEN [counted EXCEPT ![thread[t].handle] = @ + 1]
                ELSE counted
  /\ UNCHANGED <<config, csv, crashed>>

\* There is no memory for the data to write: the exception ends the test.
bad_alloc(t) ==
  /\ At(t, "write")
  /\ Goto(t, "close")
  /\ UNCHANGED <<config, counted, csv, crashed>>

\* Mutant: log_transfer takes no lock.
log_lock_missing(t) ==
  /\ At(t, "lock")
  /\ csv' = [csv EXCEPT !.mutex = t]
  /\ Goto(t, "row")
  /\ UNCHANGED <<config, counted, crashed>>

\* CSVLogger::log_transfer
log_lock(t) ==
  /\ At(t, "lock") /\ csv.mutex = Nobody
  /\ csv' = [csv EXCEPT !.mutex = t]
  /\ Goto(t, "row")
  /\ UNCHANGED <<config, counted, crashed>>

log_row(t) ==
  /\ At(t, "row")
  /\ csv' = [csv EXCEPT !.rows = @ \cup {thread[t].record}]
  /\ thread' = [thread EXCEPT ![t].pc = "count", ![t].seen = csv.record_count]
  /\ UNCHANGED <<config, counted, crashed>>

\* Mutant: the lock is kept.
log_count_locked(t) ==
  /\ At(t, "count")
  /\ csv' = [csv EXCEPT !.record_count = thread[t].seen + 1]
  /\ thread' = [thread EXCEPT ![t].pc = "check", ![t].record = NoRecord, ![t].seen = 0]
  /\ UNCHANGED <<config, counted, crashed>>

log_count(t) ==
  /\ At(t, "count")
  /\ csv' = [csv EXCEPT !.record_count = thread[t].seen + 1, !.mutex = Nobody]
  /\ thread' = [thread EXCEPT ![t].pc = "check", ![t].record = NoRecord, ![t].seen = 0]
  /\ UNCHANGED <<config, counted, crashed>>

\* A worker divides its total latency by its number of transfers.
average(t) ==
  /\ At(t, "average")
  /\ IF thread[t].tries = 0 THEN crashed' = TRUE /\ UNCHANGED thread
                            ELSE Goto(t, "close") /\ UNCHANGED crashed
  /\ UNCHANGED <<config, counted, csv>>

\* Mutant: the destructor does not close the handle.
close_leaked(t) ==
  /\ At(t, "close")
  /\ thread' = [thread EXCEPT ![t] = Tested(@, t)]
  /\ UNCHANGED <<config, counted, csv, crashed>>

\* The Device destructor, at the end of the test.
close(t) ==
  /\ At(t, "close")
  /\ thread' = [thread EXCEPT ![t] = Tested([@ EXCEPT !.handle = Closed], t)]
  /\ UNCHANGED <<config, counted, csv, crashed>>

-----------------------------------------------------------------------------
Started == {w \in Workers : ~At(w, "none")}

\* run_stress_tests: std::async starts the workers, on the devices in turn.  If
\* it throws, the futures made so far are destroyed, which waits for their
\* workers, and main returns 1.
async(w) ==
  /\ At(Main, "stress") /\ w <= config.threads /\ Started = 1 .. w - 1
  /\ thread' = [thread EXCEPT ![w].pc = "open", ![w].device = (w - 1) % config.devices]
  /\ UNCHANGED <<config, counted, csv, crashed>>

async_end ==
  /\ At(Main, "stress")
  /\ \/ Started = 1 .. config.threads /\ Goto(Main, "wait")
     \/ Started # 1 .. config.threads /\ Goto(Main, "unwind")
  /\ UNCHANGED <<config, counted, csv, crashed>>

\* Mutant: nobody waits for the workers when std::async throws.
future_wait_detached ==
  /\ \/ At(Main, "wait") /\ (\A w \in Started : At(w, "done")) /\ Goto(Main, "report")
     \/ At(Main, "unwind") /\ Goto(Main, "exit")
  /\ UNCHANGED <<config, counted, csv, crashed>>

future_wait ==
  /\ \A w \in Started : At(w, "done")
  /\ \/ At(Main, "wait") /\ Goto(Main, "report")
     \/ At(Main, "unwind") /\ Goto(Main, "exit")
  /\ UNCHANGED <<config, counted, csv, crashed>>

\* The end of main asks the session's logger for its file name and total, whether
\* there is a logger or not.
report ==
  /\ At(Main, "report")
  /\ IF csv.log = "null" THEN crashed' = TRUE /\ UNCHANGED thread
                         ELSE Goto(Main, "exit") /\ UNCHANGED crashed
  /\ UNCHANGED <<config, counted, csv>>

\* The static SessionLogger is destroyed: log_session_end, then the CSVLogger.
exit ==
  /\ At(Main, "exit")
  /\ csv' = IF csv.log = "open"
            THEN [csv EXCEPT !.footer = csv.record_count, !.log = "closed"]
            ELSE csv
  /\ Goto(Main, "exited")
  /\ UNCHANGED <<config, counted, crashed>>

-----------------------------------------------------------------------------
Test(t) ==
  \/ Device(t)
  \/ \E why \in {"busy", "memory"} : DeviceError(t, why)
  \/ loop_again(t) \/ loop_over(t)
  \/ \E status \in {"SUCCESS", "INJECTED", "EXCEPTION"} : write(t, status)
  \/ bad_alloc(t)
  \/ log_lock(t) \/ log_row(t) \/ log_count(t)
  \/ average(t)
  \/ close(t)

main ==
  \/ SessionLogger
  \/ \E w \in Workers : async(w)
  \/ async_end \/ future_wait \/ report \/ exit

Thread(t) == ~crashed /\ (Test(t) \/ (t = Main /\ main))

Next == \E t \in Threads : Thread(t)

Spec == Init /\ [][Next]_vars

\* The scheduler runs every thread that can run.
FairSpec == Spec /\ \A t \in Threads : WF_vars(Thread(t))

-----------------------------------------------------------------------------
Logged == csv.log \in {"open", "closed"}

\* The rows of a thread, and those of the attempts that a device has counted.
RowsOf(t) == {r \in csv.rows : r.thread = t}
Done(r, d) == r.device = d /\ r.status # "EXCEPTION"
RowsDone(d) == {r \in csv.rows : Done(r, d)}

\* A thread has a record that is not in the file yet.
Unwritten(t) == thread[t].pc \in {"lock", "row"}

\* Every attempt, failed ones included, gets one row under its thread's number,
\* the count of the rows loses none, and the total that closes the file is the
\* number of its rows, although get_record_count takes no lock
\* (csv_logger.cpp:55-73 and 130-142, csv_logger.hpp:68).
RecordsAreComplete ==
  /\ Logged => \A t \in Threads :
       thread[t].attempts = Cardinality(RowsOf(t)) + IF Unwritten(t) THEN 1 ELSE 0
  /\ Cardinality(csv.rows) = csv.record_count + Cardinality({t \in Threads : At(t, "count")})
  /\ csv.footer # NoFooter => csv.footer = Cardinality(csv.rows)

\* The file and the statistics of the devices tell the same story: a device has
\* counted the attempts that did not throw, those with an injected error
\* included, each when it was made or before its row is written
\* (cpp_test.cpp:144-166 and 214-234).
RowsMatchDevices ==
  Logged => \A d \in Devices :
    counted[d] = Cardinality(RowsDone(d))
                 + Cardinality({t \in Threads : Unwritten(t) /\ Done(thread[t].record, d)})

\* A test finds its device busy only when two workers share it, on the backend
\* that opens exclusively: the Device of every earlier test was destroyed, and
\* main's tests never meet the workers (cpp_test.cpp:106-191, 291-302).
BusyOnlyIfShared ==
  \A t \in Threads : thread[t].refused = "busy" =>
    /\ t # Main /\ config.windows
    /\ \E w \in Started \ {t} : thread[w].device = thread[t].device

\* The process dies in two ways only: at the end of a session whose log could not
\* be opened (cpp_test.cpp:357), and when a worker's time was over before its
\* first transfer (cpp_test.cpp:243).  A dying session leaves its file without
\* the closing lines, and otherwise the file is closed last.
DiesOnlyOf ==
  /\ crashed =>
       /\ \/ csv.log = "null" /\ At(Main, "report") /\ \A w \in Started : At(w, "done")
          \/ \E w \in Started : thread[w].attempts = 0 /\ thread[w].handle # Closed
       /\ csv.footer = NoFooter
  /\ csv.log = "closed" => \A t \in Threads : thread[t].handle = Closed

\* The program ends, whatever fails: no thread waits for ever for the log or for
\* another thread (csv_logger.cpp:56, cpp_test.cpp:300-302).
SessionEnds ==
  <>(crashed \/ (At(Main, "exited") /\ (Logged => csv.footer = Cardinality(csv.rows))))
=============================================================================
