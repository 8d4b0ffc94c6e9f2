------------------------- MODULE DailyWriter_proofs -------------------------
(***************************************************************************)
(* Proofs about the log files, for any number of processes, any length of  *)
(* a day and any retention: what is kept, where it is filed and what a     *)
(* complete sweep leaves, however processes sweep beside each other.       *)
(***************************************************************************)
EXTENDS DailyWriter, TLAPS

Start(d) == d * DayLength
Retention == RetentionDays * DayLength

-----------------------------------------------------------------------------
(* Days and ticks.                                                         *)
LEMMA DayNat == DayLength \in Nat /\ DayLength > 0
BY LogAssumption

LEMMA StartFacts ==
  /\ \A d \in Int : Start(d) \in Int
  /\ Start(0) = 0
  /\ \A d, e \in Int : d < e => Start(d) + DayLength <= Start(e)
<1>1. \A d \in Int : Start(d) \in Int
  BY DayNat DEF Start
<1>2. Start(0) = 0
  BY DayNat DEF Start
<1>3. ASSUME NEW d \in Int, NEW e \in Int, d < e PROVE Start(d) + DayLength <= Start(e)
  <2>1. \A n \in Nat : n * DayLength \in Nat
    BY DayNat
  <2>2. (e - d - 1) * DayLength \in Nat
    BY <1>3, <2>1
  <2>3. e * DayLength = d * DayLength + DayLength + (e - d - 1) * DayLength
    BY DayNat
  <2> QED
    BY <2>2, <2>3, DayNat DEF Start
<1> QED
  BY <1>1, <1>2, <1>3

LEMMA DayFacts ==
  ASSUME NEW t \in Nat
  PROVE  Day(t) \in Nat /\ Start(Day(t)) <= t /\ t < Start(Day(t)) + DayLength
<1>1. t \div DayLength \in Int /\ t = DayLength * (t \div DayLength) + (t % DayLength)
  BY DayNat
<1>2. 0 <= t % DayLength /\ t % DayLength < DayLength
  BY DayNat
<1>3. Start(Day(t)) <= t /\ t < Start(Day(t)) + DayLength
  BY <1>1, <1>2, DayNat DEF Day, Start
<1>4. Day(t) >= 0
  BY <1>1, <1>3, StartFacts, DayNat DEF Day
<1> QED
  BY <1>1, <1>3, <1>4 DEF Day

LEMMA DayMonotone ==
  ASSUME NEW t \in Nat, NEW u \in Nat, t <= u
  PROVE  Day(t) <= Day(u)
BY DayFacts, StartFacts, DayNat

LEMMA RetentionFacts ==
  /\ Retention \in Nat /\ Retention >= DayLength
  /\ MaxStall \in Nat /\ MaxStall + DayLength <= Retention
<1>1. RetentionDays - 1 \in Nat
  BY LogAssumption
<1>2. (RetentionDays - 1) * DayLength \in Nat
  BY <1>1, DayNat
<1>3. (RetentionDays - 1) * DayLength + DayLength = Retention
  BY DayNat, LogAssumption DEF Retention
<1> QED
  BY <1>2, <1>3, DayNat, LogAssumption

-----------------------------------------------------------------------------
Label == {"idle", "check", "sweep", "remove", "append"}

TypeInv ==
  /\ now \in Nat
  /\ pc \in [Process -> Label]
  /\ file \in [Process -> Nat \cup {NoDay}]
  /\ unlinked \subseteq Process
  /\ date \in [Process -> Nat \cup {NoDay}]
  /\ stamp \in [Process -> Nat \cup {NoTime}]
  /\ cutoff \in [Process -> Int]
  /\ left \in [Process -> SUBSET Nat]

(* A file was last written on its day or later; what is deleted was old.   *)
DirInv ==
  /\ \A d \in DOMAIN files :
       d \in Nat /\ files[d] \in Nat /\ Start(d) <= files[d] /\ files[d] <= now
  /\ \A t \in gone : t \in Nat /\ t + Retention <= now

(* The record in hand is recent, and the file it is to go to of its day or *)
(* a later one.                                                            *)
RecordInv(p) ==
  /\ file[p] \in {NoDay, date[p]}
  /\ stamp[p] # NoTime => stamp[p] <= now /\ now <= stamp[p] + MaxStall
  /\ pc[p] \in {"sweep", "remove", "append"} /\ stamp[p] # NoTime =>
       date[p] \in Nat /\ Start(Day(stamp[p])) <= Start(date[p])

(* A file whose day is not over for so long is unlinked under nobody.      *)
LinkInv(p) ==
  /\ p \in unlinked => file[p] # NoDay /\ Start(file[p]) + Retention <= now
  /\ file[p] # NoDay => (p \in unlinked <=> file[p] \notin DOMAIN files)

(* What the sweep is past is not expired; what it is about to remove is,   *)
(* whatever others have done to it since the inspection.                   *)
SweepInv(p) ==
  pc[p] \in {"sweep", "remove"} =>
    /\ cutoff[p] + Retention <= now
    /\ \A d \in DOMAIN files \ left[p] : files[d] > cutoff[p]
    /\ pc[p] = "remove" =>
         /\ left[p] # {}
         /\ Entry(p) \in Nat /\ Start(Entry(p)) <= cutoff[p]
         /\ Entry(p) \in DOMAIN files => files[Entry(p)] <= cutoff[p]

Inv ==
  /\ TypeInv /\ DirInv
  /\ \A p \in Process : RecordInv(p) /\ LinkInv(p) /\ SweepInv(p)

LEMMA InitInv == Init => Inv
<1> SUFFICES ASSUME Init PROVE Inv
  OBVIOUS
<1>1. now = Retention /\ now \in Nat
  BY RetentionFacts DEF Init, Retention
<1>2. TypeInv
  BY <1>1 DEF Init, TypeInv, Label, NoDay, NoTime
<1>3. DirInv
  <2>1. PICK days \in SUBSET (0 .. RetentionDays - 1) :
          files = [d \in days |-> (d + 1) * DayLength - 1]
    BY DEF Init
  <2>2. ASSUME NEW d \in days
        PROVE  d \in Nat /\ files[d] \in Nat /\ Start(d) <= files[d] /\ files[d] <= now
    <3>1. d \in Nat /\ RetentionDays \in Nat /\ d + 1 <= RetentionDays
      BY LogAssumption
    <3>2. files[d] = Start(d + 1) - 1
      BY <2>1 DEF Start
    <3>3. Start(d) + DayLength <= Start(d + 1) /\ Start(0) <= Start(d)
      BY <3>1, StartFacts, DayNat
    <3>4. Start(d + 1) <= Start(RetentionDays)
      BY <3>1, StartFacts, DayNat
    <3> QED
      BY <1>1, <3>1, <3>2, <3>3, <3>4, StartFacts, DayNat DEF Retention, Start
  <2> QED
    BY <2>1, <2>2 DEF DirInv, Init
<1>4. ASSUME NEW p \in Process PROVE RecordInv(p) /\ LinkInv(p) /\ SweepInv(p)
  BY <1>4 DEF Init, RecordInv, LinkInv, SweepInv, NoTime, NoDay
<1> QED
  BY <1>2, <1>3, <1>4 DEF Inv

(* The file a record is about to go to is not past its retention.          *)
LEMMA WritesToday ==
  ASSUME Inv, NEW p \in Process, pc[p] = "append", stamp[p] # NoTime, file[p] # NoDay
  PROVE  file[p] \in Nat /\ now < Start(file[p]) + Retention
<1>1. stamp[p] \in Nat /\ now \in Nat /\ file[p] = date[p] /\ date[p] \in Nat
  BY DEF Inv, TypeInv, RecordInv
<1>2. Start(Day(stamp[p])) <= Start(date[p]) /\ now <= stamp[p] + MaxStall
  BY DEF Inv, RecordInv
<1>3. stamp[p] < Start(Day(stamp[p])) + DayLength /\ Start(Day(stamp[p])) \in Int
  BY <1>1, DayFacts, StartFacts
<1>4. Start(date[p]) \in Int
  BY <1>1, StartFacts
<1> QED
  BY <1>1, <1>2, <1>3, <1>4, RetentionFacts, DayNat

LEMMA TodayFacts ==
  ASSUME now \in Nat
  PROVE  /\ Today \in Nat /\ Start(Today) \in Int
         /\ Start(Today) <= now /\ now < Start(Today) + DayLength
BY DayFacts, StartFacts DEF Today

(* The entry that is inspected depends on the sweep's own list only.       *)
LEMMA EntryKept == ASSUME NEW p, left'[p] = left[p] PROVE Entry(p)' = Entry(p)
BY DEF Entry

-----------------------------------------------------------------------------
(* A process keeps what it relies on while others act: they write to files *)
(* of days that are not long over only, and remove but what has expired.   *)
Touched == \A d \in DOMAIN files' :
  \/ d \in DOMAIN files /\ files'[d] = files[d]
  \/ d \in Nat /\ files'[d] = now /\ Start(d) <= now /\ now < Start(d) + Retention

Same(p) ==
  /\ pc'[p] = pc[p] /\ file'[p] = file[p] /\ date'[p] = date[p] /\ stamp'[p] = stamp[p]
  /\ cutoff'[p] = cutoff[p] /\ left'[p] = left[p]

LEMMA RecordKept ==
  ASSUME Inv, NEW p \in Process, Same(p), now' = now
  PROVE  RecordInv(p)'
BY DEF Inv, RecordInv, Same

LEMMA SweepKept ==
  ASSUME Inv, NEW p \in Process, pc'[p] = pc[p], cutoff'[p] = cutoff[p], left'[p] = left[p],
         now' = now, Touched
  PROVE  SweepInv(p)'
<1> SUFFICES ASSUME pc[p] \in {"sweep", "remove"} PROVE SweepInv(p)'
  BY DEF SweepInv
<1>1. SweepInv(p) /\ now \in Nat /\ cutoff[p] \in Int
  BY DEF Inv, TypeInv
<1>2. cutoff[p] + Retention <= now /\ Retention \in Nat /\ Retention > 0
  BY <1>1, RetentionFacts, DayNat DEF SweepInv
<1>3. ASSUME NEW d \in DOMAIN files' \ left'[p] PROVE files'[d] > cutoff'[p]
  BY <1>1, <1>2, <1>3 DEF Touched, SweepInv
<1>4. ASSUME pc[p] = "remove", Entry(p) \in DOMAIN files' PROVE files'[Entry(p)] <= cutoff'[p]
  <2>1. Entry(p) \in Nat /\ Start(Entry(p)) <= cutoff[p] /\ Start(Entry(p)) \in Int
    BY <1>1, <1>4, StartFacts DEF SweepInv
  <2>2. ~(now < Start(Entry(p)) + Retention)
    BY <1>1, <1>2, <2>1
  <2>3. Entry(p) \in DOMAIN files /\ files'[Entry(p)] = files[Entry(p)]
    BY <1>4, <2>2 DEF Touched
  <2> QED
    BY <1>1, <1>4, <2>3 DEF SweepInv
<1> QED
  BY <1>1, <1>2, <1>3, <1>4, EntryKept DEF SweepInv

LEMMA LinkKept ==
  ASSUME Inv, NEW p \in Process, file'[p] = file[p], p \in unlinked' <=> p \in unlinked,
         now' = now, Touched, DOMAIN files \subseteq DOMAIN files'
  PROVE  LinkInv(p)'
<1>1. LinkInv(p) /\ now \in Nat /\ file[p] \in Nat \cup {NoDay}
  BY DEF Inv, TypeInv
<1>2. ASSUME file[p] # NoDay, p \in unlinked PROVE file[p] \notin DOMAIN files'
  <2>1. Start(file[p]) + Retention <= now /\ file[p] \notin DOMAIN files /\ file[p] \in Nat
    BY <1>1, <1>2 DEF LinkInv
  <2>2. ~(now < Start(file[p]) + Retention)
    BY <1>1, <2>1, StartFacts, RetentionFacts
  <2> QED
    BY <2>1, <2>2 DEF Touched
<1>3. ASSUME file[p] # NoDay, p \notin unlinked PROVE file[p] \in DOMAIN files'
  BY <1>1, <1>3 DEF LinkInv
<1> QED
  BY <1>1, <1>2, <1>3 DEF LinkInv

LEMMA DirKept ==
  ASSUME Inv, now' = now, Touched, gone' = gone
  PROVE  DirInv'
<1>1. ASSUME NEW d \in DOMAIN files'
      PROVE  d \in Nat /\ files'[d] \in Nat /\ Start(d) <= files'[d] /\ files'[d] <= now
  BY DEF Inv, TypeInv, DirInv, Touched
<1> QED
  BY <1>1 DEF Inv, DirInv

-----------------------------------------------------------------------------
LEMMA TickKeeps == ASSUME Inv, Tick PROVE Inv'
<1> USE DEF Tick, writers
<1>1. now \in Nat /\ now' = now + 1
  BY DEF Inv, TypeInv
<1>2. TypeInv' /\ DirInv'
  BY <1>1, RetentionFacts DEF Inv, TypeInv, DirInv
<1>3. ASSUME NEW p \in Process PROVE (RecordInv(p) /\ LinkInv(p) /\ SweepInv(p))'
  <2>0. RecordInv(p) /\ LinkInv(p) /\ SweepInv(p) /\ Entry(p)' = Entry(p)
    BY EntryKept DEF Inv
  <2>1. stamp[p] \in Nat \cup {NoTime} /\ file[p] \in Nat \cup {NoDay} /\ cutoff[p] \in Int
    BY DEF Inv, TypeInv
  <2>2. RecordInv(p)'
    BY <1>1, <2>0, <2>1, RetentionFacts DEF RecordInv
  <2>3. LinkInv(p)'
    BY <1>1, <2>0, <2>1, StartFacts, RetentionFacts DEF LinkInv
  <2>4. SweepInv(p)'
    BY <1>1, <2>0, <2>1, RetentionFacts DEF SweepInv
  <2> QED
    BY <2>2, <2>3, <2>4
<1> QED
  BY <1>2, <1>3 DEF Inv

(* An action of p that touches neither the directory nor p's file.         *)
LEMMA QuietKeeps ==
  ASSUME Inv, NEW p \in Process, UNCHANGED <<now, files, gone, unlinked, file>>,
         TypeInv', \A q \in Process \ {p} : Same(q), RecordInv(p)', SweepInv(p)'
  PROVE  Inv'
<1>1. Touched
  BY DEF Touched
<1>2. ASSUME NEW q \in Process \ {p} PROVE RecordInv(q)' /\ SweepInv(q)'
  BY <1>1, <1>2, RecordKept, SweepKept DEF Same
<1>3. \A q \in Process : LinkInv(q)'
  BY <1>1, LinkKept
<1> QED
  BY <1>1, <1>2, <1>3, DirKept DEF Inv

LEMMA QuietSteps ==
  ASSUME Inv, NEW p \in Process,
         Write(p) \/ SameDay(p) \/ RotateFails(p) \/ Inspect(p) \/ RemoveFails(p) \/ SweepDone(p)
  PROVE  Inv'
<1> USE DEF Goto, StopSweep
<1>0. /\ TypeInv /\ RecordInv(p) /\ SweepInv(p) /\ now \in Nat
      /\ stamp[p] \in Nat \cup {NoTime}
  BY DEF Inv, TypeInv
<1>1. CASE Write(p)
  <2>1. TypeInv' /\ \A q \in Process \ {p} : Same(q)
    BY <1>0, <1>1 DEF Write, TypeInv, Label, Same
  <2>2. RecordInv(p)' /\ SweepInv(p)'
    BY <1>0, <1>1, RetentionFacts DEF Write, TypeInv, RecordInv, SweepInv
  <2> QED
    BY <1>1, <2>1, <2>2, QuietKeeps DEF Write
<1>2. CASE SameDay(p)
  <2>1. TypeInv' /\ \A q \in Process \ {p} : Same(q)
    BY <1>0, <1>2 DEF SameDay, TypeInv, Label, Same
  <2>2. stamp[p] # NoTime => date[p] \in Nat /\ Start(Day(stamp[p])) <= Start(date[p])
    <3>1. SUFFICES ASSUME stamp[p] # NoTime
                   PROVE  date[p] \in Nat /\ Start(Day(stamp[p])) <= Start(date[p])
      OBVIOUS
    <3>2. stamp[p] \in Nat /\ stamp[p] <= now
      BY <1>0, <3>1 DEF RecordInv
    <3>3. Day(stamp[p]) <= Day(now) /\ Day(stamp[p]) \in Nat /\ Day(now) \in Nat
      BY <1>0, <3>2, DayFacts, DayMonotone
    <3> QED
      BY <1>2, <3>3, StartFacts, DayNat DEF SameDay, Today
  <2>3. RecordInv(p)' /\ SweepInv(p)'
    BY <1>0, <1>2, <2>2 DEF SameDay, TypeInv, RecordInv, SweepInv
  <2> QED
    BY <1>2, <2>1, <2>3, QuietKeeps DEF SameDay
<1>3. CASE RotateFails(p)
  <2>1. TypeInv' /\ \A q \in Process \ {p} : Same(q)
    BY <1>0, <1>3 DEF RotateFails, TypeInv, Label, Same
  <2>2. RecordInv(p)' /\ SweepInv(p)'
    BY <1>0, <1>3 DEF RotateFails, TypeInv, RecordInv, SweepInv
  <2> QED
    BY <1>3, <2>1, <2>2, QuietKeeps DEF RotateFails
<1>4. CASE Inspect(p)
  <2>1. TypeInv' /\ \A q \in Process \ {p} : Same(q)
    BY <1>0, <1>4 DEF Inspect, TypeInv, Label, Same
  <2>2. RecordInv(p)'
    BY <1>0, <1>4 DEF Inspect, TypeInv, RecordInv
  <2>3. ASSUME Entry(p) \notin DOMAIN files PROVE SweepInv(p)'
    <3>1. pc' = [pc EXCEPT ![p] = "append"]
      BY <1>4, <2>3 DEF Inspect
    <3>2. pc'[p] = "append"
      BY <1>0, <3>1 DEF TypeInv
    <3> QED
      BY <3>2 DEF SweepInv
  <2>4. ASSUME Entry(p) \in DOMAIN files /\ Expired(p, Entry(p)) PROVE SweepInv(p)'
    <3>1. left' = left /\ Entry(p)' = Entry(p)
      BY <1>4, <2>4, EntryKept DEF Inspect
    <3>2. Entry(p) \in Nat /\ Start(Entry(p)) <= files[Entry(p)] /\ files[Entry(p)] <= cutoff[p]
      BY <2>4 DEF Inv, DirInv, Expired
    <3>3. Start(Entry(p)) \in Int /\ files[Entry(p)] \in Int /\ cutoff[p] \in Int
      BY <2>4, <3>2, StartFacts DEF Inv, DirInv, TypeInv
    <3>4. pc[p] = "sweep" /\ left[p] # {} /\ UNCHANGED <<now, files, cutoff>>
      BY <1>4 DEF Inspect
    <3>5. Start(Entry(p)) <= cutoff[p]
      BY <3>2, <3>3
    <3>6. /\ cutoff[p] + Retention <= now
          /\ \A d \in DOMAIN files \ left[p] : files[d] > cutoff[p]
      BY <1>0, <3>4 DEF SweepInv
    <3> QED
      BY <3>1, <3>2, <3>4, <3>5, <3>6 DEF SweepInv
  <2>5. ASSUME Entry(p) \in DOMAIN files /\ ~Expired(p, Entry(p)) PROVE SweepInv(p)'
    <3>1. files[Entry(p)] > cutoff[p]
      BY <2>5 DEF Inv, DirInv, TypeInv, Expired
    <3>2. /\ pc[p] = "sweep" /\ UNCHANGED <<now, files, cutoff, pc>>
          /\ left' = [left EXCEPT ![p] = left[p] \ {Entry(p)}]
      BY <1>4, <2>5 DEF Inspect
    <3>3. left'[p] = left[p] \ {Entry(p)}
      BY <1>0, <3>2 DEF TypeInv
    <3>4. /\ cutoff[p] + Retention <= now
          /\ \A d \in DOMAIN files \ left[p] : files[d] > cutoff[p]
      BY <1>0, <3>2 DEF SweepInv
    <3> QED
      BY <3>1, <3>2, <3>3, <3>4 DEF SweepInv
  <2> QED
    BY <1>4, <2>1, <2>2, <2>3, <2>4, <2>5, QuietKeeps DEF Inspect
<1>5. CASE RemoveFails(p)
  <2>1. TypeInv' /\ \A q \in Process \ {p} : Same(q)
    BY <1>0, <1>5 DEF RemoveFails, TypeInv, Label, Same
  <2>2. RecordInv(p)' /\ SweepInv(p)'
    BY <1>0, <1>5 DEF RemoveFails, TypeInv, RecordInv, SweepInv
  <2> QED
    BY <1>5, <2>1, <2>2, QuietKeeps DEF RemoveFails
<1>6. CASE SweepDone(p)
  <2>1. TypeInv' /\ \A q \in Process \ {p} : Same(q)
    BY <1>0, <1>6 DEF SweepDone, TypeInv, Label, Same
  <2>2. RecordInv(p)' /\ SweepInv(p)'
    BY <1>0, <1>6 DEF SweepDone, TypeInv, RecordInv, SweepInv
  <2> QED
    BY <1>6, <2>1, <2>2, QuietKeeps DEF SweepDone
<1> QED
  BY <1>1, <1>2, <1>3, <1>4, <1>5, <1>6

(* p lets go of its file.                                                  *)
LEMMA LeavingKeeps ==
  ASSUME Inv, NEW p \in Process, Restart(p) \/ Close(p)
  PROVE  Inv'
<1> USE DEF Goto
<1>0. TypeInv /\ RecordInv(p) /\ SweepInv(p)
  BY DEF Inv
<1>1. TypeInv' /\ UNCHANGED <<now, files, gone, cutoff>> /\ \A q \in Process \ {p} : Same(q)
  BY <1>0 DEF Restart, Close, TypeInv, Label, Same, NoDay, NoTime
<1>2. file'[p] = NoDay /\ unlinked' = unlinked \ {p}
  BY <1>0 DEF Restart, Close, TypeInv
<1>3. RecordInv(p)' /\ SweepInv(p)'
  BY <1>0, <1>1 DEF Restart, Close, TypeInv, RecordInv, SweepInv
<1>4. Touched
  BY <1>1 DEF Touched
<1>5. LinkInv(p)'
  BY <1>2 DEF LinkInv
<1>6. ASSUME NEW q \in Process \ {p} PROVE (RecordInv(q) /\ LinkInv(q) /\ SweepInv(q))'
  BY <1>1, <1>2, <1>4, <1>6, RecordKept, SweepKept, LinkKept DEF Same
<1> QED
  BY <1>1, <1>3, <1>4, <1>5, <1>6, DirKept DEF Inv

LEMMA RotateKeeps ==
  ASSUME Inv, NEW p \in Process, Rotate(p)
  PROVE  Inv'
<1> USE DEF Rotate, Goto
<1>0. TypeInv /\ RecordInv(p) /\ now \in Nat /\ (\A d \in DOMAIN files : d \in Nat)
  BY DEF Inv, TypeInv, DirInv
<1>1. Today \in Nat /\ Start(Today) \in Int /\ Start(Today) <= now /\ now < Start(Today) + Retention
  BY <1>0, TodayFacts, RetentionFacts, DayNat
<1>2. DOMAIN files' = DOMAIN files \cup {Today}
  OBVIOUS
<1>3. Touched
  BY <1>1 DEF Touched
<1>4. TypeInv'
  <2>1. left' \in [Process -> SUBSET Nat]
    BY <1>0, <1>1, <1>2 DEF TypeInv
  <2>2. Cutoff \in Int
    BY <1>0, RetentionFacts DEF Cutoff, Retention
  <2> QED
    BY <1>0, <1>1, <2>1, <2>2 DEF TypeInv, Label
<1>5. \A q \in Process \ {p} : Same(q) /\ (q \in unlinked' <=> q \in unlinked)
  BY <1>0 DEF TypeInv, Same
<1>6. RecordInv(p)'
  <2>1. date'[p] = Today /\ file'[p] = Today /\ stamp'[p] = stamp[p]
    BY <1>0 DEF TypeInv
  <2>2. ASSUME stamp[p] # NoTime PROVE Start(Day(stamp[p])) <= Start(Today)
    <3>1. stamp[p] \in Nat /\ stamp[p] <= now
      BY <1>0, <2>2 DEF TypeInv, RecordInv
    <3>2. Day(stamp[p]) <= Day(now) /\ Day(stamp[p]) \in Nat
      BY <1>0, <3>1, DayFacts, DayMonotone
    <3> QED
      BY <1>1, <3>2, StartFacts, DayNat DEF Today
  <2> QED
    BY <1>0, <1>1, <2>1, <2>2 DEF RecordInv
<1>7. LinkInv(p)'
  <2>1. file'[p] = Today /\ p \notin unlinked'
    BY <1>0 DEF TypeInv
  <2> QED
    BY <1>2, <2>1 DEF LinkInv
<1>8. SweepInv(p)'
  <2>1. pc'[p] = "sweep" /\ left'[p] = DOMAIN files' /\ cutoff'[p] = now - Retention
    BY <1>0 DEF TypeInv, Cutoff, Retention
  <2> QED
    BY <1>0, <2>1, RetentionFacts DEF SweepInv
<1>9. ASSUME NEW q \in Process \ {p} PROVE (RecordInv(q) /\ LinkInv(q) /\ SweepInv(q))'
  BY <1>2, <1>3, <1>5, <1>9, RecordKept, SweepKept, LinkKept DEF Same
<1> QED
  BY <1>3, <1>4, <1>6, <1>7, <1>8, <1>9, DirKept DEF Inv

LEMMA RemoveKeeps ==
  ASSUME Inv, NEW p \in Process, Remove(p)
  PROVE  Inv'
<1> DEFINE e == Entry(p)
<1>0. /\ TypeInv /\ SweepInv(p) /\ now \in Nat /\ pc[p] = "remove"
      /\ e \in DOMAIN files /\ e \in Nat /\ files[e] \in Nat
  BY DEF Inv, TypeInv, DirInv, Remove
<1>1. /\ Start(e) \in Int /\ Start(e) + Retention <= now /\ files[e] + Retention <= now
  BY <1>0, StartFacts, RetentionFacts DEF SweepInv, TypeInv
<1>2. /\ files' = [d \in DOMAIN files \ {e} |-> files[d]] /\ gone' = gone \cup {files[e]}
      /\ unlinked' = unlinked \cup {q \in Process : file[q] = e}
      /\ left' = [left EXCEPT ![p] = left[p] \ {e}] /\ pc' = [pc EXCEPT ![p] = "sweep"]
      /\ UNCHANGED <<now, file, date, stamp, cutoff>>
  BY DEF Remove, Goto
<1> HIDE DEF e
<1>3. Touched
  BY <1>2 DEF Touched
<1>4. TypeInv' /\ \A q \in Process \ {p} : Same(q)
  BY <1>0, <1>2 DEF TypeInv, Label, Same
<1>5. DirInv'
  BY <1>0, <1>1, <1>2 DEF Inv, DirInv
<1>6. ASSUME NEW q \in Process PROVE LinkInv(q)'
  <2>1. LinkInv(q) /\ file'[q] = file[q]
    BY <1>2 DEF Inv
  <2>2. CASE file[q] = e
    BY <1>0, <1>1, <1>2, <2>1, <2>2 DEF LinkInv, NoDay
  <2>3. CASE file[q] # e
    BY <1>2, <2>1, <2>3 DEF LinkInv
  <2> QED
    BY <2>2, <2>3
<1>7. SweepInv(p)'
  <2>1. pc'[p] = "sweep" /\ left'[p] = left[p] \ {e}
    BY <1>0, <1>2 DEF TypeInv
  <2> QED
    BY <1>0, <1>2, <2>1 DEF SweepInv
<1>8. RecordInv(p)'
  BY <1>0, <1>2 DEF Inv, TypeInv, RecordInv
<1>9. ASSUME NEW q \in Process \ {p} PROVE RecordInv(q)' /\ SweepInv(q)'
  BY <1>2, <1>3, <1>4, <1>9, RecordKept, SweepKept DEF Same
<1> QED
  BY <1>4, <1>5, <1>6, <1>7, <1>8, <1>9 DEF Inv

(* The record goes to the file of a day that is not long over: never to    *)
(* one that is unlinked.                                                   *)
LEMMA AppendKeeps ==
  ASSUME Inv, NEW p \in Process, Append(p)
  PROVE  Inv'
<1>0. TypeInv /\ RecordInv(p) /\ LinkInv(p) /\ now \in Nat /\ pc[p] = "append"
  BY DEF Inv, TypeInv, Append
<1>1. /\ stamp' = [stamp EXCEPT ![p] = NoTime] /\ pc' = [pc EXCEPT ![p] = "idle"]
      /\ UNCHANGED <<now, file, unlinked, date, cutoff, left>>
  BY DEF Append, Goto
<1>2. Touched /\ DOMAIN files' = DOMAIN files /\ gone' = gone
  <2>1. CASE stamp[p] = NoTime \/ file[p] = NoDay
    BY <2>1 DEF Append, Touched
  <2>2. CASE stamp[p] # NoTime /\ file[p] # NoDay
    <3>1. file[p] \in Nat /\ now < Start(file[p]) + Retention
      BY <1>0, <2>2, WritesToday
    <3>2. p \notin unlinked
      BY <1>0, <2>2, <3>1, StartFacts, RetentionFacts DEF LinkInv
    <3>3. file[p] \in DOMAIN files
      BY <1>0, <2>2, <3>2 DEF LinkInv
    <3>4. Start(file[p]) <= now
      BY <1>0, <3>1, <3>3, StartFacts DEF Inv, DirInv
    <3>5. files' = [files EXCEPT ![file[p]] = now] /\ gone' = gone
      BY <2>2, <3>2 DEF Append
    <3> QED
      BY <3>1, <3>3, <3>4, <3>5 DEF Touched
  <2> QED
    BY <2>1, <2>2
<1>3. TypeInv' /\ \A q \in Process \ {p} : Same(q)
  BY <1>0, <1>1 DEF TypeInv, Label, Same, NoTime
<1>4. RecordInv(p)' /\ SweepInv(p)'
  BY <1>0, <1>1 DEF TypeInv, RecordInv, SweepInv
<1>5. ASSUME NEW q \in Process PROVE LinkInv(q)'
  BY <1>1, <1>2, LinkKept
<1>6. ASSUME NEW q \in Process \ {p} PROVE RecordInv(q)' /\ SweepInv(q)'
  BY <1>1, <1>2, <1>3, <1>6, RecordKept, SweepKept DEF Same
<1> QED
  BY <1>1, <1>2, <1>3, <1>4, <1>5, <1>6, DirKept DEF Inv

LEMMA NextKeepsInv == Inv /\ [Next]_vars => Inv'
<1> SUFFICES ASSUME Inv, [Next]_vars PROVE Inv'
  OBVIOUS
<1>1. CASE Tick
  BY <1>1, TickKeeps
<1>2. ASSUME NEW p \in Process,
             \/ Write(p) \/ SameDay(p) \/ RotateFails(p) \/ Inspect(p) \/ RemoveFails(p)
             \/ SweepDone(p) \/ Restart(p) \/ Close(p) \/ Rotate(p) \/ Remove(p) \/ Append(p)
      PROVE  Inv'
  BY <1>2, QuietSteps, LeavingKeeps, RotateKeeps, RemoveKeeps, AppendKeeps
<1>3. CASE UNCHANGED vars
  BY <1>3 DEF vars, Inv, TypeInv, DirInv, RecordInv, LinkInv, SweepInv, Entry
<1> QED
  BY <1>1, <1>2, <1>3 DEF Next

LEMMA Invariance == Spec => []Inv
BY InitInv, NextKeepsInv, PTL DEF Spec

-----------------------------------------------------------------------------
(* Every file is of a day that has begun and was written on that day or    *)
(* later, and the writer knows which files it has lost (dailyWriter).      *)
THEOREM TypeCorrect == Spec => []TypeOK
<1>1. Inv => TypeOK
  <2> SUFFICES ASSUME Inv PROVE TypeOK
    OBVIOUS
  <2>1. now \in Nat /\ Today \in Nat
    BY TodayFacts DEF Inv, TypeInv
  <2>2. ASSUME NEW d \in DOMAIN files
        PROVE  d \in 0 .. Today /\ files[d] \in d * DayLength .. now
    <3>1. d \in Nat /\ files[d] \in Nat /\ Start(d) <= files[d] /\ files[d] <= now
      BY DEF Inv, DirInv
    <3>2. d <= Today
      BY <2>1, <3>1, TodayFacts, StartFacts, DayNat
    <3>3. Start(d) \in Int
      BY <3>1, StartFacts
    <3> QED
      BY <2>1, <3>1, <3>2, <3>3 DEF Start
  <2>3. ASSUME NEW p \in Process
        PROVE  /\ file[p] \in {NoDay, date[p]}
               /\ pc[p] = "remove" => left[p] # {}
               /\ file[p] # NoDay => (p \in unlinked) = (file[p] \notin DOMAIN files)
    BY DEF Inv, RecordInv, SweepInv, LinkInv
  <2> QED
    BY <2>1, <2>2, <2>3 DEF TypeOK
<1> QED
  BY Invariance, <1>1, PTL

(* No record is lost before its retention is over, whoever sweeps beside   *)
(* whom and wherever a process is between its check of the date and its    *)
(* write (pruneLogs, dailyWriter.Write).                                   *)
THEOREM RetentionKept == Spec => []RecentKept
<1>1. Inv => RecentKept
  BY DEF Inv, DirInv, RecentKept, Retention
<1> QED
  BY Invariance, <1>1, PTL

(* No record goes to the file of an earlier day (dailyWriter.Write: the    *)
(* date is checked under the mutex).                                       *)
THEOREM NeverFiledEarly == Spec => []FiledByDay
<1>1. Inv => FiledByDay
  <2> SUFFICES ASSUME Inv, NEW p \in Process, pc[p] \in {"sweep", "remove", "append"},
                      stamp[p] # NoTime
               PROVE  date[p] >= Day(stamp[p])
    BY DEF FiledByDay
  <2>1. date[p] \in Nat /\ Start(Day(stamp[p])) <= Start(date[p]) /\ stamp[p] \in Nat
    BY DEF Inv, RecordInv, TypeInv
  <2>2. Day(stamp[p]) \in Nat
    BY <2>1, DayFacts
  <2> QED
    BY <2>1, <2>2, StartFacts, DayNat
<1> QED
  BY Invariance, <1>1, PTL

(* A sweep that comes to its end leaves no file that had expired when it   *)
(* began (pruneLogs).                                                      *)
THEOREM SweepsComplete == Spec => SweptClean
<1>1. Inv /\ [Next]_vars =>
        [\A p \in Process :
           pc[p] = "sweep" /\ left[p] = {} /\ pc'[p] = "append" =>
             \A d \in DOMAIN files : files[d] > cutoff[p]]_vars
  BY DEF Inv, SweepInv
<1> QED
  BY Invariance, <1>1, PTL DEF Spec, SweptClean

=============================================================================
