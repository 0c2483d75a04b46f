------------------------------- MODULE TradeLog -------------------------------
(***************************************************************************)
(* GB_Logger and GB_LogData: the bot's JSON log, over several runs of the  *)
(* program, on a disk that may be full and in folders that may be missing. *)
(*                                                                         *)
(* A record is written to a buffered stream: write_json ends it with       *)
(* std::endl, which flushes, and throws when the stream is not good; the   *)
(* separator that write_log adds stays in the buffer until the next        *)
(* record.  Streams are never closed, so what is in the buffer of a stream *)
(* is lost with the process.  Nothing catches what output throws.          *)
(*                                                                         *)
(* GodBot names each log by the clock, in milliseconds, and opening a name *)
(* that a log has already empties that log.  The system's clock moves on   *)
(* and may be set back; it moves on by a millisecond at least while a      *)
(* process starts.                                                         *)
(***************************************************************************)
EXTENDS Integers, Sequences, SequencesExt

CONSTANTS
  Sides,       \* the ORDER_SIDEs that are logged
  Folders,     \* the folders a configuration may name
  Figures,     \* what set_log_data may be given
  MaxFiles,    \* bound: files that are opened, over all runs
  MaxRecords,  \* bound: records per file
  MaxClock     \* bound: the clock, in milliseconds

ASSUME LogAssumption ==
  MaxFiles \in Nat /\ MaxRecords \in Nat /\ MaxClock \in Nat

VARIABLES
  up,           \* the program is running
  first,        \* the first file of this run
  log_folder_,  \* as set last, with its slash
  folders,      \* the folders that exist
  os_,          \* the stream in use: the number of its file
  data_,        \* the figures of the next record
  files,        \* every file that was opened, with its stream
  now           \* the system's clock

vars == <<up, first, log_folder_, folders, os_, data_, files, now>>

Records == [side : Sides, data : Figures]
WorkingFolder == "."
NoStream == 0

(* A piece of a file: a record, as much of one as fitted, or ",\n".        *)
Whole(r) == [piece |-> "record", of |-> r]
Part(r)  == [piece |-> "part", of |-> r]
Separator == [piece |-> "separator", of |-> "none"]

(* The path under which this reading of the clock opens a log.             *)
PathInSeconds == <<log_folder_, now \div 2>>   \* a coarser clock

Path == <<log_folder_, now>>

(* What is on the disk under its path, what the stream has yet to flush,   *)
(* whether it is good(); and, for the properties, what output() was called *)
(* with, whether a later log took the path, and whether the clock has been *)
(* set back since the file was opened.                                     *)
NewFile(ok) ==
  [path |-> Path, disk |-> << >>, buffer |-> << >>, good |-> ok,
   output |-> << >>, truncated |-> FALSE, setBack |-> FALSE]

Init ==
  /\ up = TRUE
  /\ first = 1
  /\ log_folder_ = WorkingFolder
  /\ folders \in SUBSET Folders
  /\ os_ = NoStream
  /\ data_ \in Figures
  /\ files = << >>
  /\ now \in 0 .. MaxClock

----------------------------------------------------------------------------
(* log_folder_ is assigned before create_directory, which may throw.       *)
SetLogFolder(folder) ==
  /\ up
  /\ log_folder_' = folder
  /\ folders' \in {folders, folders \cup {folder}}
  /\ UNCHANGED <<up, first, os_, data_, files, now>>

(* The stream of a new file.  std::ofstream empties what has this path and *)
(* the stream in use is forgotten, not closed.  A run of the program does  *)
(* not name two of its logs alike: GodBot::Run names one.                  *)
Truncated(f) == [f EXCEPT !.disk = << >>, !.truncated = TRUE]

Emptied(older) ==
  [f \in DOMAIN older |->
     IF older[f].path = Path THEN Truncated(older[f]) ELSE older[f]]

Open(older) ==
  /\ up
  /\ Len(files) < MaxFiles
  /\ \A f \in first .. Len(files) : files[f].path # Path
  /\ \/ /\ log_folder_ \in folders \cup {WorkingFolder}
        /\ files' = Append(Emptied(older), NewFile(TRUE))
     \/ files' = Append(older, NewFile(FALSE))
  /\ os_' = Len(files')
  /\ UNCHANGED <<up, first, log_folder_, folders, data_, now>>

SetLogFileClosing ==
  Open([f \in DOMAIN files |->
          IF f = os_ /\ files[f].good
          THEN [files[f] EXCEPT !.disk = @ \o files[f].buffer, !.buffer = << >>]
          ELSE files[f]])

SetLogFile == Open(files)

(* Back to a stream that get_log_stream returned in this run.              *)
SetLogStream(s) ==
  /\ up
  /\ os_' = s
  /\ UNCHANGED <<up, first, log_folder_, folders, data_, files, now>>

SetLogData(figures) ==
  /\ up
  /\ data_' = figures
  /\ UNCHANGED <<up, first, log_folder_, folders, os_, files, now>>

(* The record has been put to the stream: all of it reaches the disk, or   *)
(* the stream fails, at the latest with this flush, and write_json throws. *)
Flushed(f, r) ==
  [f EXCEPT !.disk = @ \o f.buffer \o <<Whole(r)>>,
            !.buffer = <<Separator>>]

FlushFails(f, r) ==
  {[f EXCEPT !.good = FALSE, !.disk = @ \o torn] :
     torn \in IF f.good THEN {<< >>, f.buffer, Append(f.buffer, Part(r))}
                        ELSE {<< >>}}

Record(side) == [side |-> side, data |-> data_]

Given(side) == [files[os_] EXCEPT !.output = Append(@, Record(side))]

Written(side) ==
  /\ files[os_].good
  /\ files' = [files EXCEPT ![os_] = Flushed(Given(side), Record(side))]

NotWritten(side) ==
  \E f \in FlushFails(Given(side), Record(side)) :
    files' = [files EXCEPT ![os_] = f]

CanOutput ==
  /\ up
  /\ os_ # NoStream
  /\ Len(files[os_].output) < MaxRecords
  /\ UNCHANGED <<first, log_folder_, folders, os_, data_, now>>

OutputSwallowing(side) ==      \* the exception is caught on the way
  CanOutput /\ (Written(side) \/ NotWritten(side)) /\ UNCHANGED up

Output(side) ==
  /\ CanOutput
  /\ \/ Written(side) /\ UNCHANGED up
     \/ NotWritten(side) /\ up' = FALSE

(* main returns, or the process is killed: no stream is flushed.           *)
Die ==
  /\ up
  /\ up' = FALSE
  /\ UNCHANGED <<first, log_folder_, folders, os_, data_, files, now>>

Restart ==
  /\ ~up
  /\ up' = TRUE
  /\ first' = Len(files) + 1
  /\ log_folder_' = WorkingFolder
  /\ os_' = NoStream
  /\ data_' \in Figures
  /\ now' \in now + 1 .. MaxClock
  /\ UNCHANGED <<folders, files>>

Tick ==
  /\ now' \in now + 1 .. MaxClock
  /\ UNCHANGED <<up, first, log_folder_, folders, os_, data_, files>>

SetBack ==
  /\ now' \in 0 .. now - 1
  /\ files' = [f \in DOMAIN files |-> [files[f] EXCEPT !.setBack = TRUE]]
  /\ UNCHANGED <<up, first, log_folder_, folders, os_, data_>>

Next ==
  \/ \E folder \in Folders : SetLogFolder(folder)
  \/ SetLogFile
  \/ \E s \in first .. Len(files) : SetLogStream(s)
  \/ \E figures \in Figures : SetLogData(figures)
  \/ \E side \in Sides : Output(side)
  \/ Die
  \/ Restart
  \/ Tick
  \/ SetBack

Spec == Init /\ [][Next]_vars

----------------------------------------------------------------------------
Pieces == {Separator} \cup {Whole(r) : r \in Records} \cup {Part(r) : r \in Records}
FileSet == [path : (Folders \cup {WorkingFolder}) \X Nat,
            disk : Seq(Pieces), buffer : Seq(Pieces), good : BOOLEAN,
            output : Seq(Records), truncated : BOOLEAN, setBack : BOOLEAN]

(* Types.  The stream in use is one of this run.                           *)
TypeOK ==
  /\ up \in BOOLEAN
  /\ first \in Nat \ {0}
  /\ log_folder_ \in Folders \cup {WorkingFolder}
  /\ folders \subseteq Folders
  /\ os_ = NoStream \/ os_ \in first .. Len(files)
  /\ data_ \in Figures
  /\ files \in Seq(FileSet)
  /\ now \in 0 .. MaxClock

(* The file that shows these records: a separator between any two of them. *)
ListOf(records) ==
  [i \in 1 .. 2 * Len(records) - 1 |->
     IF i % 2 = 1 THEN Whole(records[(i + 1) \div 2]) ELSE Separator]

(* What may be left of a record that was not written, after others.        *)
TornEnds(f) ==
  {<< >>, <<Separator>>, <<Separator, Part(Last(f.output))>>,
   <<Part(Last(f.output))>>}

(* Anyone who reads a file at any time finds the records that were logged, *)
(* each on the disk before output() returns, with a separator between any  *)
(* two and none at the end, so that brackets make it valid JSON: also when *)
(* the program was killed, and although no stream is ever closed.  Only    *)
(* the last record of a run whose stream failed may be missing or torn.    *)
(* Except a log whose path another one took: LogsSurvive.                  *)
(* About GB_LogData.cpp:65-71 and GB_Logger.cpp:16-18.                     *)
FileShowsLog ==
  \A i \in DOMAIN files :
    LET f == files[i]
    IN \/ f.disk = ListOf(f.output)
       \/ f.truncated
       \/ /\ f.output # << >> /\ ~f.good
          /\ \E torn \in TornEnds(f) : f.disk = ListOf(Front(f.output)) \o torn

(* The bot never goes on with a gap in its log: as long as it runs, every  *)
(* record of this run is in its file.  About the exception that nothing    *)
(* between GB_LogData.cpp:65 and the thread's entry catches.               *)
NoGaps ==
  up => \A i \in first .. Len(files) : files[i].disk = ListOf(files[i].output)

(* No restart costs a log: its name is never taken again, however soon the *)
(* program is started after it was killed, unless the clock has been set   *)
(* back since the log was opened.  About the name GodBot.cpp:61 gives and  *)
(* the std::ofstream of GB_Logger.cpp:17, which truncates.                 *)
LogsSurvive == \A i \in DOMAIN files : files[i].truncated => files[i].setBack
===============================================================================
