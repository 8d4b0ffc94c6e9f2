---------------------------- MODULE DailyWriter ----------------------------
(***************************************************************************)
(* The dated log files of app/services/core/log_service.go: every write    *)
(* checks the date first, opens the file of a new day and then sweeps the  *)
(* directory of files past their retention.  A process writes one record   *)
(* at a time, under its writer's mutex; several processes, and those that  *)
(* are restarted, share the directory.  A file is known by its day.        *)
(***************************************************************************)
EXTENDS Integers

CONSTANTS
  Process,        (* Server processes that log into the directory.         *)
  DayLength,      (* Ticks in a day.                                       *)
  RetentionDays,  (* logRetentionDays.                                     *)
  MaxStall,       (* Ticks a record may be on its way to its file.         *)
  MaxClock        (* Bound: the clock stops here.                          *)

ASSUME LogAssumption ==
  /\ DayLength \in Nat \ {0}
  /\ RetentionDays \in Nat \ {0}
  /\ MaxStall \in 0 .. (RetentionDays - 1) * DayLength
  /\ MaxClock \in Nat

VARIABLES
  now,            (* The clock.                                            *)
  files,          (* Day -> when its file was last modified.               *)
  gone,           (* When the records that are deleted were written.       *)
  pc,             (* Process -> what its writer does next.                 *)
  file,           (* Process -> the day of the file it has open, or NoDay. *)
  unlinked,       (* Processes whose open file has been removed.           *)
  date,           (* Process -> writer.date.                               *)
  stamp,          (* Process -> the time of the record in hand, or NoTime. *)
  cutoff,         (* Process -> the cutoff of its sweep.                   *)
  left            (* Process -> days whose files its sweep has yet to see. *)

writers == <<pc, file, unlinked, date, stamp, cutoff, left>>
vars == <<now, files, gone, pc, file, unlinked, date, stamp, cutoff, left>>

NoDay  == -1
NoTime == -1

Day(t) == t \div DayLength
Today  == Day(now)

(* Processes are about to start, over what earlier ones left behind.       *)
Init ==
  /\ now = RetentionDays * DayLength
  /\ \E days \in SUBSET (0 .. RetentionDays - 1) :
       files = [d \in days |-> (d + 1) * DayLength - 1]
  /\ gone = {}
  /\ pc = [p \in Process |-> "check"]
  /\ file = [p \in Process |-> NoDay] /\ unlinked = {}
  /\ date = [p \in Process |-> NoDay]
  /\ stamp = [p \in Process |-> NoTime]
  /\ cutoff = [p \in Process |-> 0]
  /\ left = [p \in Process |-> {}]

(* No record is held up for MaxStall, which is weeks: a process that was   *)
(* suspended for longer might wake up to a file that is gone.              *)
Tick ==
  /\ now < MaxClock
  /\ \A p \in Process : stamp[p] # NoTime => now - stamp[p] < MaxStall
  /\ now' = now + 1
  /\ UNCHANGED <<files, gone, writers>>

Goto(p, l) == pc' = [pc EXCEPT ![p] = l]

(* The process is killed or stops, and is started again: newDailyWriter.   *)
Restart(p) ==
  /\ Goto(p, "check")
  /\ file' = [file EXCEPT ![p] = NoDay]
  /\ unlinked' = unlinked \ {p}
  /\ date' = [date EXCEPT ![p] = NoDay]
  /\ stamp' = [stamp EXCEPT ![p] = NoTime]
  /\ left' = [left EXCEPT ![p] = {}]
  /\ UNCHANGED <<now, files, gone, cutoff>>

(* The logger stamps a record and hands it to the writer.                  *)
Write(p) ==
  /\ pc[p] = "idle"
  /\ stamp' = [stamp EXCEPT ![p] = now]
  /\ Goto(p, "check")
  /\ UNCHANGED <<now, files, gone, file, unlinked, date, cutoff, left>>

(* Mutant: the date is that of the first write, for ever.                  *)
SameDayForEver(p) ==
  /\ pc[p] = "check"
  /\ date[p] # NoDay
  /\ Goto(p, "append")
  /\ UNCHANGED <<now, files, gone, file, unlinked, date, stamp, cutoff, left>>

SameDay(p) ==
  /\ pc[p] = "check"
  /\ date[p] = Today
  /\ Goto(p, "append")
  /\ UNCHANGED <<now, files, gone, file, unlinked, date, stamp, cutoff, left>>

(* Mutant: the retention is taken for a number of ticks.                   *)
CutoffInTicks == now - RetentionDays

Cutoff == now - RetentionDays * DayLength

(* rotate: today's file is opened, then the directory is read.             *)
Rotate(p) ==
  /\ pc[p] = "check"
  /\ date[p] # Today
  /\ files' = [d \in DOMAIN files \cup {Today} |->
                 IF d \in DOMAIN files THEN files[d] ELSE now]
  /\ file' = [file EXCEPT ![p] = Today]
  /\ unlinked' = unlinked \ {p}
  /\ date' = [date EXCEPT ![p] = Today]
  /\ cutoff' = [cutoff EXCEPT ![p] = Cutoff]
  /\ left' = [left EXCEPT ![p] = DOMAIN files']
  /\ Goto(p, "sweep")
  /\ UNCHANGED <<now, gone, stamp>>

(* The file cannot be opened: the record is dropped, the writer as it was. *)
RotateFails(p) ==
  /\ pc[p] = "check"
  /\ date[p] # Today
  /\ Goto(p, IF date[p] = NoDay THEN "check" ELSE "idle")
  /\ stamp' = [stamp EXCEPT ![p] = NoTime]
  /\ UNCHANGED <<now, files, gone, file, unlinked, date, cutoff, left>>

(* pruneLogs goes by name, and stops at the first thing that fails.        *)
Entry(p) == CHOOSE d \in left[p] : \A e \in left[p] : d <= e

StopSweep(p) ==
  /\ Goto(p, "append")
  /\ left' = [left EXCEPT ![p] = {}]

(* Mutant: a file exactly at the cutoff is kept.                           *)
ExpiredBefore(p, d) == files[d] < cutoff[p]

Expired(p, d) == files[d] <= cutoff[p]

Inspect(p) ==
  /\ pc[p] = "sweep" /\ left[p] # {}
  /\ \/ Entry(p) \notin DOMAIN files /\ StopSweep(p)
     \/ /\ Entry(p) \in DOMAIN files /\ Expired(p, Entry(p))
        /\ Goto(p, "remove") /\ UNCHANGED left
     \/ /\ Entry(p) \in DOMAIN files /\ ~Expired(p, Entry(p))
        /\ left' = [left EXCEPT ![p] = @ \ {Entry(p)}] /\ UNCHANGED pc
  /\ UNCHANGED <<now, files, gone, file, unlinked, date, stamp, cutoff>>

Remove(p) ==
  /\ pc[p] = "remove"
  /\ Entry(p) \in DOMAIN files
  /\ files' = [d \in DOMAIN files \ {Entry(p)} |-> files[d]]
  /\ gone' = gone \cup {files[Entry(p)]}
  /\ unlinked' = unlinked \cup {q \in Process : file[q] = Entry(p)}
  /\ left' = [left EXCEPT ![p] = @ \ {Entry(p)}]
  /\ Goto(p, "sweep")
  /\ UNCHANGED <<now, file, date, stamp, cutoff>>

(* Another process was faster, or the file cannot be removed.              *)
RemoveFails(p) ==
  /\ pc[p] = "remove"
  /\ StopSweep(p)
  /\ UNCHANGED <<now, files, gone, file, unlinked, date, stamp, cutoff>>

SweepDone(p) ==
  /\ pc[p] = "sweep" /\ left[p] = {}
  /\ Goto(p, "append")
  /\ UNCHANGED <<now, files, gone, file, unlinked, date, stamp, cutoff, left>>

(* The record is appended to the file that is open, if one is.             *)
Append(p) ==
  /\ pc[p] = "append"
  /\ IF stamp[p] = NoTime \/ file[p] = NoDay THEN UNCHANGED <<files, gone>>
     ELSE IF p \in unlinked THEN gone' = gone \cup {now} /\ UNCHANGED files
     ELSE files' = [files EXCEPT ![file[p]] = now] /\ UNCHANGED gone
  /\ stamp' = [stamp EXCEPT ![p] = NoTime]
  /\ Goto(p, "idle")
  /\ UNCHANGED <<now, file, unlinked, date, cutoff, left>>

Close(p) ==
  /\ pc[p] = "idle"
  /\ file' = [file EXCEPT ![p] = NoDay]
  /\ unlinked' = unlinked \ {p}
  /\ UNCHANGED <<now, files, gone, pc, date, stamp, cutoff, left>>

Next ==
  \/ Tick
  \/ \E p \in Process :
       \/ Restart(p) \/ Write(p) \/ SameDay(p) \/ Rotate(p) \/ RotateFails(p)
       \/ Inspect(p) \/ Remove(p) \/ RemoveFails(p) \/ SweepDone(p)
       \/ Append(p) \/ Close(p)

Spec == Init /\ [][Next]_vars

-----------------------------------------------------------------------------
TypeOK ==
  /\ now \in Nat
  /\ DOMAIN files \subseteq 0 .. Today
  /\ \A d \in DOMAIN files : files[d] \in d * DayLength .. now
  /\ \A p \in Process :
       /\ file[p] \in {NoDay, date[p]}
       /\ pc[p] = "remove" => left[p] # {}
       /\ file[p] # NoDay => (p \in unlinked) = (file[p] \notin DOMAIN files)

(* No record is lost before its retention is over: not to a sweep, whoever *)
(* sweeps and whoever writes between its steps, and not to a file that was *)
(* removed while a process still wrote to it.                              *)
RecentKept == \A t \in gone : t + RetentionDays * DayLength <= now

(* A record never goes to the file of a day before its own: a process that *)
(* runs past midnight leaves yesterday's file behind (dailyWriter).        *)
FiledByDay ==
  \A p \in Process :
    pc[p] \in {"sweep", "remove", "append"} /\ stamp[p] # NoTime =>
      date[p] >= Day(stamp[p])

(* A sweep that meets no failure leaves nothing that was past its          *)
(* retention when it began (pruneLogs).                                    *)
SweptClean ==
  [][\A p \in Process :
       pc[p] = "sweep" /\ left[p] = {} /\ pc'[p] = "append" =>
         \A d \in DOMAIN files : files[d] > cutoff[p]]_vars

=============================================================================
