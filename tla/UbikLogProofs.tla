--------------------------- MODULE UbikLogProofs ---------------------------
(* Proofs about UbikLog. *)
EXTENDS UbikLog, TLAPS

-----------------------------------------------------------------------------
(* Files and log records. *)

LEMMA PagesArePositions ==
    ASSUME PageSize = 1
    PROVE  /\ \A c \in Position : PageOf(c) = c
           /\ Page = Position
<1>1. \A c \in Position : PageOf(c) = c
  BY LogAssumption, SMT DEF Position, PageOf
<1> QED
  BY <1>1 DEF Page

LEMMA ImageFacts ==
    ASSUME NEW img \in Image
    PROVE  /\ img.len \in 0 .. Size
           /\ img.data \in [Position -> Value \cup {0}]
           /\ \A c \in Position : c >= img.len => img.data[c] = 0
           /\ img = [len |-> img.len, data |-> img.data]
  BY DEF Image, Data

LEMMA EmptyImage == Empty \in Image
  BY LogAssumption DEF Empty, Image, Data, Position

LEMMA PutImage ==
    ASSUME NEW img \in Image, NEW c \in Position, NEW v \in Value
    PROVE  Put(img, c, v) \in Image
<1>1. img.len \in 0 .. Size /\ img.data \in Data /\ c \in 0 .. Size - 1 /\ Size \in Nat
  BY LogAssumption DEF Image, Position
<1>2. Larger(img.len, c + 1) \in 0 .. Size
  BY <1>1 DEF Larger
<1>3. [img.data EXCEPT ![c] = v] \in Data
  BY <1>1 DEF Data
<1>4. ASSUME NEW d \in Position, d >= Larger(img.len, c + 1)
      PROVE  [img.data EXCEPT ![c] = v][d] = 0
  <2>1. d # c /\ d >= img.len
    BY <1>1, <1>4 DEF Larger, Position
  <2> QED
    BY <1>1, <2>1 DEF Image, Data
<1> QED
  BY <1>2, <1>3, <1>4 DEF Put, Image

LEMMA CutImage ==
    ASSUME NEW img \in Image, NEW n \in 0 .. Size
    PROVE  Cut(img, n) \in Image
  BY LogAssumption DEF Cut, Image, Data, Position

LEMMA ReplayedImage ==
    ASSUME NEW img \in Image, NEW l \in Log, WellFormed(l)
    PROVE  Replayed(img, l) \in Image
<1>1. /\ img.len \in 0 .. Size /\ l.len \in 0 .. Size /\ l.cut \in BOOLEAN /\ l.data \in Data
      /\ img.data \in Data
  BY DEF Image, Log
<1> DEFINE n == IF l.cut THEN l.len ELSE Larger(img.len, l.len)
           d == [c \in Position |-> IF c \in l.touched THEN l.data[c] ELSE img.data[c]]
<1>2. n \in 0 .. Size
  BY <1>1, LogAssumption DEF Larger
<1>3. d \in Data
  BY <1>1 DEF Data
<1>4. ASSUME NEW c \in Position, c >= n PROVE d[c] = 0
  BY <1>1, <1>4, LogAssumption DEF WellFormed, Larger, Image, Data, Position
<1> HIDE DEF n, d
<1>5. [len |-> n, data |-> d] \in Image
  BY <1>2, <1>3, <1>4 DEF Image
<1> QED
  BY <1>5 DEF Replayed, n, d

LEMMA FlushedImage ==
    ASSUME PageSize = 1, TypeOK, NEW n \in 0 .. Size, FlushLength(n)
    PROVE  Flushed(n) \in Image
<1>1. Flushed(n).data \in Data
  BY DEF Flushed, TypeOK, Image, Data
<1>2. ASSUME NEW c \in Position, c >= n PROVE Flushed(n).data[c] = 0
  <2>1. c \notin dirty /\ c >= disk.len
    BY <1>2, LogAssumption DEF FlushLength, TypeOK, Image, Position
  <2> QED
    BY <2>1, <1>2, PagesArePositions DEF Flushed, TypeOK, Image
<1> QED
  BY <1>1, <1>2 DEF Flushed, Image

LEMMA NoLogType == NoLog \in Log /\ WellFormed(NoLog)
  BY LogAssumption DEF NoLog, Log, Data, WellFormed, Position

LEMMA LogDataType ==
    ASSUME NEW l \in Log, WellFormed(l), NEW c \in Position, NEW v \in Value
    PROVE  /\ LogData(l, c, v) \in Log
           /\ WellFormed(LogData(l, c, v))
           /\ LogData(l, c, v).mark = l.mark
<1>1. /\ l.len \in 0 .. Size /\ l.cut \in BOOLEAN /\ l.data \in Data /\ l.touched \subseteq Position
      /\ Size \in Nat /\ c \in 0 .. Size - 1
  BY LogAssumption DEF Log, Position
<1>2. CASE l.mark # "open"
  BY <1>2 DEF LogData
<1>3. CASE l.mark = "open"
  <2> DEFINE r == LogData(l, c, v)
  <2>1. /\ r.touched = l.touched \cup {c} /\ r.data = [l.data EXCEPT ![c] = v]
        /\ r.len = Larger(l.len, c + 1) /\ r.cut = l.cut /\ r.mark = l.mark /\ r.version = l.version
    BY <1>3 DEF LogData
  <2>2. r \in Log
    <3>1. l.touched \cup {c} \in SUBSET Position /\ [l.data EXCEPT ![c] = v] \in Data
          /\ Larger(l.len, c + 1) \in 0 .. Size
      BY <1>1 DEF Data, Larger
    <3> QED
      BY <1>3, <3>1 DEF LogData, Log
  <2> HIDE DEF r
  <2>3. WellFormed(r)
    BY <1>1, <1>3, <2>1 DEF WellFormed, Larger, Data, Position
  <2> QED
    BY <2>1, <2>2, <2>3 DEF r
<1> QED
  BY <1>2, <1>3

LEMMA LogTruncateType ==
    ASSUME NEW l \in Log, WellFormed(l), NEW n \in 0 .. Size
    PROVE  /\ LogTruncate(l, n) \in Log
           /\ WellFormed(LogTruncate(l, n))
           /\ LogTruncate(l, n).mark = l.mark
<1>1. CASE l.mark # "open"
  BY <1>1 DEF LogTruncate
<1>2. CASE l.mark = "open"
  <2> DEFINE r == LogTruncate(l, n)
  <2>1. /\ r.touched = l.touched \cup {c \in Position : c >= n}
        /\ r.data = [c \in Position |-> IF c < n THEN l.data[c] ELSE 0]
        /\ r.len = n /\ r.cut = TRUE /\ r.mark = l.mark /\ r.version = l.version
    BY <1>2 DEF LogTruncate, Log
  <2>2. r \in Log
    BY <1>2 DEF LogTruncate, Log, Data
  <2> HIDE DEF r
  <2>3. WellFormed(r)
    BY <1>2, <2>1, LogAssumption DEF WellFormed, Position
  <2> QED
    BY <2>1, <2>2, <2>3 DEF r
<1> QED
  BY <1>1, <1>2

LEMMA LogMarkType ==
    ASSUME NEW l \in Log, WellFormed(l), NEW m \in {"end", "abort"}, NEW n \in Nat,
           m = "end" => n > 0, l.mark = "open"
    PROVE  /\ LogMark(l, m, n) \in Log
           /\ WellFormed(LogMark(l, m, n))
           /\ LogMark(l, m, n).mark = m /\ LogMark(l, m, n).version = n
<1> DEFINE r == LogMark(l, m, n)
<1>1. /\ r.touched = l.touched /\ r.data = l.data /\ r.len = l.len /\ r.cut = l.cut
      /\ r.mark = m /\ r.version = n
  BY DEF LogMark, Log
<1>2. r \in Log
  BY DEF LogMark, Log
<1> HIDE DEF r
<1>3. WellFormed(r)
  BY <1>1 DEF WellFormed
<1> QED
  BY <1>1, <1>2, <1>3 DEF r

-----------------------------------------------------------------------------
(* The invariant: initially, and transactions up to their end. *)

LEMMA WriteFileType ==
    ASSUME TypeOK, NEW img \in Image, WriteFile(img)
    PROVE  /\ disk' \in Image
           /\ unsure' \in [len : SUBSET (0 .. Size), data : [Position -> SUBSET (Value \cup {0})]]
  BY ImageFacts DEF WriteFile, TypeOK

LEMMA CertainType ==
    ASSUME NEW img \in Image
    PROVE  Certain(img) \in [len : SUBSET (0 .. Size), data : [Position -> SUBSET (Value \cup {0})]]
  BY ImageFacts DEF Certain

LEMMA LogInvInitially == Init => LogInv
<1> SUFFICES ASSUME Init PROVE LogInv
  OBVIOUS
<1>1. TypeOK
  BY EmptyImage, CertainType, NoLogType, LogAssumption
     DEF Init, TypeOK, Certain, Empty, Data, NoCut
<1>2. \A l \in logs : WellFormed(l)
  BY NoLogType DEF Init
<1>3. BuffersInv
  BY DEF Init, BuffersInv
<1>4. IdleInv /\ CommitInv /\ RestartInv /\ SettledInv
  BY DEF Init, IdleInv, CommitInv, RestartInv, SettledInv, Ended, Committing, Settled
<1> QED
  BY <1>1, <1>2, <1>3, <1>4 DEF LogInv

LEMMA SlotFacts ==
    ASSUME NEW p, NEW kept \in Slots(p)
    PROVE  dirty \subseteq kept /\ p \in kept /\ kept \subseteq cached \cup {p}
  BY DEF Slots

LEMMA BuffersType ==
    ASSUME TypeOK, NEW kept
    PROVE  Buffers(kept) \in Data
  BY ImageFacts DEF Buffers, TypeOK, Data

LEMMA ReadKeeps ==
    ASSUME PageSize = 1, LogInv, NEW p \in Page, Read(p)
    PROVE  LogInv'
<1> USE PagesArePositions
<1>0. PICK kept \in Slots(p) :
          /\ cached' = IF p \in cached \/ Readable(p) THEN kept ELSE kept \ {p}
          /\ mem' = Buffers(cached')
  BY DEF Read
<1>1. /\ phase = "idle" /\ UNCHANGED <<fileVars, logVars, dirty, transVars, version, phase>>
      /\ dirty \subseteq kept /\ p \in kept /\ kept \subseteq cached \cup {p}
  BY SlotFacts DEF Read
<1>2. cached' \subseteq Page /\ dirty' \subseteq cached'
  BY <1>0, <1>1 DEF LogInv, TypeOK
<1>3. TypeOK'
  BY <1>0, <1>1, <1>2, BuffersType
     DEF LogInv, TypeOK, fileVars, logVars, transVars
<1>4. BuffersInv'
  BY <1>0, <1>1 DEF LogInv, BuffersInv, Buffers, fileVars
<1>5. ASSUME NEW c \in Position, PageOf(c) \in dirty PROVE mem'[c] = mem[c]
  BY <1>0, <1>1, <1>2, <1>5 DEF LogInv, TypeOK, Buffers
<1>6. BuffersMakeGoal => BuffersMakeGoal'
  BY <1>1, <1>5 DEF BuffersMakeGoal, Survives, FlushLength, fileVars, logVars, transVars
<1>7. IdleInv'
  BY <1>1, <1>6 DEF LogInv, IdleInv, Ended, Stale, Pins, fileVars, logVars, transVars
<1>8. CommitInv' /\ RestartInv' /\ SettledInv' /\ (\A l \in logs : WellFormed(l))'
  BY <1>1 DEF LogInv, CommitInv, RestartInv, SettledInv, Committing, Restarting, Settled,
     fileVars, logVars, transVars, WellFormed
<1> QED
  BY <1>3, <1>4, <1>7, <1>8 DEF LogInv

LEMMA BeginKeeps ==
    ASSUME PageSize = 1, LogInv, Begin
    PROVE  LogInv'
<1>1. /\ phase = "idle" /\ trans = "none" /\ trans' = "active" /\ cutAt' = NoCut /\ goal' = disk
      /\ UNCHANGED <<disk, unsure, label, labels, log, logs, cached, dirty, mem, version, phase>>
  BY DEF Begin, fileVars, logVars, bufferVars
<1>2. TypeOK'
  BY <1>1, LogAssumption DEF LogInv, TypeOK, NoCut
<1>3. log = NoLog /\ dirty = {} /\ unsure = Certain(disk)
  BY <1>1 DEF LogInv, IdleInv, Ended, SettledInv, Settled
<1>4. Pins(log, goal)'
  BY <1>1, <1>3, ImageFacts, LogAssumption
     DEF Pins, Fixes, NoLog, Certain, LogInv, TypeOK, Larger
<1>5. BuffersMakeGoal'
  BY <1>1, <1>3 , ImageFacts DEF BuffersMakeGoal, FlushLength, LogInv, TypeOK
<1>6. BuffersInv' /\ (\A l \in logs : WellFormed(l))'
  BY <1>1 DEF LogInv, BuffersInv, WellFormed
<1>7. IdleInv'
  BY <1>1, <1>4, <1>5 DEF LogInv, IdleInv, Ended, Stale, Pins
<1>8. CommitInv' /\ RestartInv' /\ SettledInv'
  BY <1>1 DEF LogInv, CommitInv, RestartInv, SettledInv, Committing, Restarting, Settled
<1> QED
  BY <1>2, <1>6, <1>7, <1>8 DEF LogInv

LEMMA EndKeeps ==
    ASSUME LogInv, End
    PROVE  LogInv'
<1>1. /\ phase = "idle" /\ trans \in {"committed", "aborted"} /\ trans' = "none" /\ cutAt' = NoCut
      /\ goal' = Empty
      /\ UNCHANGED <<disk, unsure, label, labels, log, logs, cached, dirty, mem, version, phase>>
  BY DEF End, fileVars, logVars, bufferVars
<1>2. TypeOK'
  BY <1>1, EmptyImage, LogAssumption DEF LogInv, TypeOK, NoCut
<1>3. BuffersInv' /\ (\A l \in logs : WellFormed(l))'
  BY <1>1 DEF LogInv, BuffersInv, WellFormed
<1>4. IdleInv'
  BY <1>1 DEF LogInv, IdleInv, Ended, Stale, Pins
<1>5. CommitInv' /\ RestartInv' /\ SettledInv'
  BY <1>1 DEF LogInv, CommitInv, RestartInv, SettledInv, Committing, Restarting, Settled
<1> QED
  BY <1>2, <1>3, <1>4, <1>5 DEF LogInv

LEMMA WriteKeeps ==
    ASSUME PageSize = 1, LogInv, NEW c \in Position, NEW v \in Value, Write(c, v)
    PROVE  LogInv'
<1> USE PagesArePositions
<1>0. PICK kept \in Slots(PageOf(c)) : cached' = kept /\ mem' = [Buffers(kept) EXCEPT ![c] = v]
  BY DEF Write
<1>1. /\ phase = "idle" /\ trans = "active" /\ CallerTouches(c)
      /\ log' = LogData(log, c, v) /\ logs' = logs \cup {log'}
      /\ cutAt' = IF cutAt = NoCut THEN NoCut ELSE Larger(cutAt, c + 1)
      /\ dirty' = dirty \cup {c} /\ goal' = Put(goal, c, v)
      /\ UNCHANGED <<disk, unsure, label, labels, trans, version, phase>>
  BY DEF Write, WriteLog, fileVars
<1>2. dirty \subseteq kept /\ c \in kept /\ kept \subseteq cached \cup {c}
  BY SlotFacts
<1>3. /\ TypeOK /\ log \in Log /\ WellFormed(log) /\ log.mark = "open"
      /\ Pins(log, goal) /\ BuffersMakeGoal /\ unsure = Certain(disk)
  BY <1>1 DEF LogInv, TypeOK, IdleInv, SettledInv, Settled
<1>4. /\ log' \in Log /\ WellFormed(log') /\ log'.mark = "open" 
      /\ log'.touched = log.touched \cup {c} /\ log'.data = [log.data EXCEPT ![c] = v]
      /\ log'.cut = log.cut /\ log'.len = Larger(log.len, c + 1)
  BY <1>1, <1>3, LogDataType DEF LogData
<1>5. /\ c \in Nat /\ c < Size /\ Size \in Nat /\ cutAt \in 0 .. Size + 1
      /\ Buffers(kept) \in Data /\ goal \in Image /\ disk \in Image
  BY <1>3, BuffersType, LogAssumption DEF TypeOK, NoCut, Position
<1>6. TypeOK'
  <2>1. cutAt' \in 0 .. NoCut
    BY <1>1, <1>5 DEF NoCut, Larger
  <2>2. mem' \in Data
    BY <1>0, <1>5 DEF Data
  <2>3. goal' \in Image
    BY <1>1, <1>5, PutImage
  <2>4. cached' \subseteq Page /\ dirty' \subseteq cached'
    BY <1>0, <1>1, <1>2, <1>3 DEF TypeOK
  <2>5. log' \in logs' /\ logs' \subseteq Log
    BY <1>1, <1>3, <1>4 DEF TypeOK
  <2> QED
    BY <1>1, <1>3, <2>1, <2>2, <2>3, <2>4, <2>5 DEF TypeOK
<1>7. (\A l \in logs : WellFormed(l))'
  <2>1. \A l \in logs' : WellFormed(l)
    BY <1>1, <1>4 DEF LogInv
  <2> QED
    BY <2>1 DEF WellFormed
<1>8. \A d \in Position : d # c /\ PageOf(d) \in kept =>
          mem'[d] = IF d \in cached THEN mem[d] ELSE IF Readable(d) THEN disk.data[d] ELSE 0
  BY <1>0, <1>5 DEF Data, Buffers
<1>9. mem'[c] = v
  BY <1>0, <1>5 DEF Data
<1>10. BuffersInv'
  BY <1>0, <1>1, <1>2, <1>5, <1>8 DEF LogInv, BuffersInv, Image, Position, Readable
<1>11. goal'.len = Larger(goal.len, c + 1) /\ goal'.data = [goal.data EXCEPT ![c] = v]
  BY <1>1 DEF Put
<1>12. Pins(log, goal)'
  <2>1. ASSUME NEW d \in Position
        PROVE  IF d \in log'.touched THEN log'.data[d] = goal'.data[d]
               ELSE /\ unsure.data[d] = {goal'.data[d]}
                    /\ \A n \in unsure.len : d >= n => goal'.data[d] = 0
    BY <1>3, <1>4, <1>5, <1>11 DEF Pins, Fixes, Image, Data, Log
  <2>2. IF log'.cut THEN log'.len = goal'.len
        ELSE \A n \in unsure.len : Larger(n, log'.len) = goal'.len
    BY <1>3, <1>4, <1>5, <1>11, ImageFacts DEF Pins, Fixes, Larger, Log, Certain
  <2> QED
    BY <1>1, <2>1, <2>2 DEF Pins, Fixes
<1>13. BuffersMakeGoal'
  <2>1. ASSUME NEW d \in Position PROVE PageOf(d) \in dirty' => d \in log'.touched
    BY <1>1, <1>3, <1>4 DEF BuffersMakeGoal
  <2>2. ASSUME NEW d \in Position, Survives(d)'
        PROVE  goal'.data[d] = IF PageOf(d) \in dirty' THEN mem'[d] ELSE disk.data[d]
    <3>1. CASE d = c
      BY <1>1, <1>9, <1>5, <1>11, <3>1 DEF Image, Data
    <3>2. CASE d # c
      <4>1. Survives(d)
        BY <1>1, <1>5, <2>2, <3>2 DEF Survives, CallerTouches, NoCut, Larger, Position
      <4>2. goal'.data[d] = goal.data[d]
        BY <1>5, <1>11, <3>2 DEF Image, Data
      <4>3. PageOf(d) \in dirty' <=> PageOf(d) \in dirty
        BY <1>1, <3>2
      <4>4. PageOf(d) \in dirty => mem'[d] = mem[d]
        BY <1>2, <1>3, <1>8, <3>2 DEF TypeOK
      <4> QED
        BY <1>3, <4>1, <4>2, <4>3, <4>4 DEF BuffersMakeGoal
    <3> QED
      BY <3>1, <3>2
  <2>3. IF cutAt' = NoCut THEN FlushLength(goal.len)' ELSE goal'.len = cutAt' /\ log'.cut
    <3>1. CASE cutAt = NoCut
      <4>1. FlushLength(goal.len)
        BY <1>3, <3>1 DEF BuffersMakeGoal
      <4>2. dirty \subseteq Nat /\ goal.len \in Nat /\ disk.len \in Nat
        BY <1>3, <1>5, ImageFacts DEF TypeOK, Position
      <4> QED
        BY <1>1, <1>5, <1>11, <3>1, <4>1, <4>2 DEF FlushLength, Larger
    <3>2. CASE cutAt # NoCut
      BY <1>1, <1>3, <1>4, <1>5, <1>11, <3>2 DEF BuffersMakeGoal, NoCut, Larger
    <3> QED
      BY <3>1, <3>2
  <2> QED
    BY <1>1, <2>1, <2>2, <2>3 DEF BuffersMakeGoal
<1>14. IdleInv'
  <2>1. \A l \in logs' : Stale(l)'
    BY <1>1, <1>4 DEF LogInv, IdleInv, Stale, Pins
  <2> QED
    BY <1>1, <1>4, <1>12, <1>13, <2>1 DEF LogInv, IdleInv, Ended
<1>15. CommitInv' /\ RestartInv' /\ SettledInv'
  BY <1>1 DEF LogInv, CommitInv, RestartInv, SettledInv, Committing, Restarting, Settled
<1> QED
  BY <1>6, <1>7, <1>10, <1>14, <1>15 DEF LogInv

LEMMA WriteFailsKeeps ==
    ASSUME LogInv, NEW c \in Position, NEW v \in Value, WriteFails(c, v)
    PROVE  LogInv'
<1>1. /\ phase = "idle" /\ trans = "active" /\ CallerTouches(c)
      /\ log' = LogData(log, c, v) /\ logs' = logs \cup {log'}
      /\ cutAt' = IF cutAt = NoCut THEN NoCut ELSE Larger(cutAt, c + 1)
      /\ trans' = "failed"
      /\ UNCHANGED <<disk, unsure, label, labels, cached, dirty, mem, goal, version, phase>>
  BY DEF WriteFails, WriteLog, fileVars, bufferVars
<1>2. log \in Log /\ WellFormed(log) /\ log.mark = "open"
  BY <1>1 DEF LogInv, TypeOK, IdleInv
<1>3. log' \in Log /\ WellFormed(log') /\ log'.mark = "open"
  BY <1>1, <1>2, LogDataType
<1>4. cutAt' \in 0 .. NoCut
  BY <1>1, LogAssumption DEF LogInv, TypeOK, NoCut, Larger, Position
<1>5. TypeOK'
  BY <1>1, <1>3, <1>4 DEF LogInv, TypeOK
<1>6. (\A l \in logs : WellFormed(l))'
  <2>1. \A l \in logs' : WellFormed(l)
    BY <1>1, <1>3 DEF LogInv
  <2> QED
    BY <2>1 DEF WellFormed
<1>7. BuffersInv'
  BY <1>1 DEF LogInv, BuffersInv
<1>8. IdleInv'
  <2>1. \A l \in logs' : Stale(l)'
    BY <1>1, <1>3 DEF LogInv, IdleInv, Stale, Pins
  <2> QED
    BY <1>1, <1>3, <2>1 DEF LogInv, IdleInv, Ended
<1>9. CommitInv' /\ RestartInv' /\ SettledInv'
  BY <1>1 DEF LogInv, CommitInv, RestartInv, SettledInv, Committing, Restarting, Settled
<1> QED
  BY <1>5, <1>6, <1>7, <1>8, <1>9 DEF LogInv

LEMMA TruncateKeeps ==
    ASSUME LogInv, NEW n \in 0 .. Size, Truncate(n)
    PROVE  LogInv'
<1>1. /\ phase = "idle" /\ trans = "active" /\ CallerTouches(n)
      /\ log' = LogTruncate(log, n) /\ logs' = logs \cup {log'}
      /\ cutAt' = n /\ goal' = Cut(goal, n)
      /\ UNCHANGED <<disk, unsure, label, labels, cached, dirty, mem, trans, version, phase>>
  <2>1. (IF cutAt > n THEN n ELSE cutAt) = n
    BY LogAssumption DEF Truncate, CallerTouches, LogInv, TypeOK, NoCut
  <2> QED
    BY <2>1 DEF Truncate, WriteLog, fileVars, bufferVars
<1>2. /\ log \in Log /\ WellFormed(log) /\ log.mark = "open" /\ goal \in Image
      /\ Pins(log, goal) /\ BuffersMakeGoal /\ cutAt \in 0 .. NoCut
  BY <1>1 DEF LogInv, TypeOK, IdleInv
<1>3. /\ log' \in Log /\ WellFormed(log') /\ log'.mark = "open"
      /\ log'.touched = log.touched \cup {d \in Position : d >= n}
      /\ log'.data = [d \in Position |-> IF d < n THEN log.data[d] ELSE 0]
      /\ log'.cut = TRUE /\ log'.len = n
  <2>1. log' \in Log /\ WellFormed(log') /\ log'.mark = "open"
    BY <1>1, <1>2, LogTruncateType
  <2> QED
    BY <1>1, <1>2, <2>1 DEF LogTruncate
<1>4. goal' \in Image /\ goal'.len = n
      /\ goal'.data = [d \in Position |-> IF d < n THEN goal.data[d] ELSE 0]
  BY <1>1, <1>2, CutImage DEF Cut
<1>5. n \in Nat /\ n # NoCut /\ n \in 0 .. NoCut /\ NoCut \in Nat
  BY LogAssumption DEF NoCut
<1>6. TypeOK'
  BY <1>1, <1>3, <1>4, <1>5 DEF LogInv, TypeOK
<1>7. (\A l \in logs : WellFormed(l))'
  <2>1. \A l \in logs' : WellFormed(l)
    BY <1>1, <1>3 DEF LogInv
  <2> QED
    BY <2>1 DEF WellFormed
<1>8. BuffersInv'
  BY <1>1 DEF LogInv, BuffersInv
<1>9. Pins(log, goal)'
  <2>1. ASSUME NEW d \in Position
        PROVE  IF d \in log'.touched THEN log'.data[d] = goal'.data[d]
               ELSE /\ unsure.data[d] = {goal'.data[d]}
                    /\ \A m \in unsure.len : d >= m => goal'.data[d] = 0
    <3>1. d \in Int
      BY LogAssumption DEF Position
    <3> QED
      BY <1>2, <1>3, <1>4, <1>5, <3>1 DEF Pins, Fixes
  <2> QED
    BY <1>1, <1>3, <1>4, <2>1 DEF Pins, Fixes
<1>10. BuffersMakeGoal'
  <2>1. ASSUME NEW d \in Position
        PROVE  /\ PageOf(d) \in dirty => d \in log'.touched
               /\ Survives(d)' => goal'.data[d] = IF PageOf(d) \in dirty THEN mem[d] ELSE disk.data[d]
    <3>1. d \in Int
      BY LogAssumption DEF Position
    <3>2. Survives(d)' => d < n /\ Survives(d)
      BY <1>1, <1>2, <1>5, <3>1 DEF Survives, CallerTouches
    <3> QED
      BY <1>2, <1>3, <1>4, <3>2 DEF BuffersMakeGoal
  <2> QED
    BY <1>1, <1>3, <1>4, <1>5, <2>1 DEF BuffersMakeGoal
<1>11. IdleInv'
  <2>1. \A l \in logs' : Stale(l)'
    BY <1>1, <1>3 DEF LogInv, IdleInv, Stale, Pins
  <2> QED
    BY <1>1, <1>3, <1>9, <1>10, <2>1 DEF LogInv, IdleInv, Ended
<1>12. CommitInv' /\ RestartInv' /\ SettledInv'
  BY <1>1 DEF LogInv, CommitInv, RestartInv, SettledInv, Committing, Restarting, Settled
<1> QED
  BY <1>6, <1>7, <1>8, <1>11, <1>12 DEF LogInv

LEMMA AbortLogKeeps ==
    ASSUME LogInv, AbortLog
    PROVE  LogInv'
<1>1. /\ phase = "idle" /\ trans \in {"active", "failed"}
      /\ log' = LogMark(log, "abort", 0) /\ logs' = {log'}
      /\ phase' = "aborting" /\ trans' = "aborted"
      /\ UNCHANGED <<disk, unsure, label, labels, cached, dirty, mem, cutAt, goal, version>>
  BY DEF AbortLog, fileVars, bufferVars
<1>2. log \in Log /\ WellFormed(log) /\ log.mark = "open"
  BY <1>1 DEF LogInv, TypeOK, IdleInv
<1>3. log' \in Log /\ WellFormed(log') /\ log'.mark = "abort"
  BY <1>1, <1>2, LogMarkType
<1>4. TypeOK'
  BY <1>1, <1>3 DEF LogInv, TypeOK
<1>5. (\A l \in logs : WellFormed(l))'
  BY <1>1, <1>3 DEF WellFormed
<1>6. BuffersInv'
  BY <1>1 DEF LogInv, BuffersInv
<1>7. IdleInv'
  <2>1. \A l \in logs' : Stale(l)'
    BY <1>1, <1>3 DEF Stale
  <2> QED
    BY <1>1, <2>1 DEF LogInv, IdleInv, Ended
<1>8. CommitInv' /\ RestartInv' /\ SettledInv'
  BY <1>1 DEF LogInv, CommitInv, RestartInv, SettledInv, Committing, Restarting, Settled
<1> QED
  BY <1>4, <1>5, <1>6, <1>7, <1>8 DEF LogInv

LEMMA AbortDiscardKeeps ==
    ASSUME LogInv, AbortDiscard
    PROVE  LogInv'
<1>1. /\ phase = "aborting" /\ log' = NoLog /\ logs' = logs \cup {NoLog}
      /\ cached' = cached \ dirty /\ mem' = Buffers(cached') /\ dirty' = {}
      /\ phase' = "idle"
      /\ UNCHANGED <<disk, unsure, label, labels, trans, cutAt, goal, version>>
  BY DEF AbortDiscard, WriteLog, DAbort, fileVars, transVars
<1>2. TypeOK'
  BY <1>1, NoLogType, BuffersType DEF LogInv, TypeOK
<1>3. (\A l \in logs : WellFormed(l))'
  <2>1. \A l \in logs' : WellFormed(l)
    BY <1>1, NoLogType DEF LogInv
  <2> QED
    BY <2>1 DEF WellFormed
<1>4. BuffersInv'
  BY <1>1 DEF LogInv, BuffersInv, Buffers
<1>5. IdleInv'
  <2>1. \A l \in logs' : Stale(l)'
    BY <1>1 DEF LogInv, IdleInv, Stale, Pins, NoLog
  <2> QED
    BY <1>1, <2>1 DEF LogInv, IdleInv, Ended, NoLog
<1>6. CommitInv' /\ RestartInv' /\ SettledInv'
  BY <1>1 DEF LogInv, CommitInv, RestartInv, SettledInv, Committing, Restarting, Settled
<1> QED
  BY <1>2, <1>3, <1>4, <1>5, <1>6 DEF LogInv

-----------------------------------------------------------------------------
(* What a replay makes of a file whose writes are not all on the disk. *)

FileChoices == [len : SUBSET (0 .. Size), data : [Position -> SUBSET (Value \cup {0})]]

\* The file with img written to it, in u.
Written(u, img) == [len  |-> u.len \cup {img.len},
                    data |-> [c \in Position |-> u.data[c] \cup {img.data[c]}]]

LEMMA FixesCertain ==
    ASSUME NEW u \in FileChoices, NEW l \in Log, NEW img \in Image, Fixes(u, l, img),
           NEW left \in Image, left.len \in u.len,
           \A c \in Position : c < left.len => left.data[c] \in u.data[c]
    PROVE  Fixes(Certain(left), l, img)
<1>1. /\ Certain(left).len = {left.len}
      /\ \A c \in Position : Certain(left).data[c] = {left.data[c]}
  BY DEF Certain
<1>2. ASSUME NEW c \in Position, c \notin l.touched
      PROVE  left.data[c] = img.data[c] /\ (c >= left.len => img.data[c] = 0)
  <2>1. c \in Int /\ left.len \in Int
    BY LogAssumption, ImageFacts DEF Position
  <2>2. u.data[c] = {img.data[c]} /\ (c >= left.len => img.data[c] = 0)
    BY <1>2 DEF Fixes
  <2> QED
    BY <2>1, <2>2, ImageFacts
<1>3. \A c \in l.touched : l.data[c] = img.data[c]
  BY DEF Fixes, Log
<1>4. IF l.cut THEN l.len = img.len ELSE Larger(left.len, l.len) = img.len
  BY DEF Fixes
<1> QED
  BY <1>1, <1>2, <1>3, <1>4 DEF Fixes

LEMMA FixesWritten ==
    ASSUME NEW u \in FileChoices, NEW l \in Log, NEW img \in Image, Fixes(u, l, img),
           NEW w \in Image,
           \A c \in Position \ l.touched : w.data[c] = img.data[c],
           l.cut \/ Larger(w.len, l.len) = img.len
    PROVE  Fixes(Written(u, w), l, img)
<1>1. /\ Written(u, w).len = u.len \cup {w.len}
      /\ \A c \in Position : Written(u, w).data[c] = u.data[c] \cup {w.data[c]}
  BY DEF Written
<1>2. ASSUME NEW c \in Position, c \notin l.touched
      PROVE  /\ Written(u, w).data[c] = {img.data[c]}
             /\ \A n \in Written(u, w).len : c >= n => img.data[c] = 0
  BY <1>1, <1>2, ImageFacts DEF Fixes
<1>3. \A c \in l.touched : l.data[c] = img.data[c]
  BY DEF Fixes, Log
<1>4. IF l.cut THEN l.len = img.len ELSE \A n \in Written(u, w).len : Larger(n, l.len) = img.len
  BY <1>1 DEF Fixes
<1> QED
  BY <1>2, <1>3, <1>4 DEF Fixes

LEMMA FixesReplayed ==
    ASSUME NEW img \in Image, NEW l \in Log
    PROVE  Fixes(Certain(img), l, Replayed(img, l))
  BY ImageFacts DEF Fixes, Certain, Replayed

\* Writing the outcome of the replay itself.
LEMMA FixesTarget ==
    ASSUME NEW u \in FileChoices, u.len # {}, NEW l \in Log, NEW img \in Image, Fixes(u, l, img)
    PROVE  Fixes(Written(u, img), l, img)
<1>1. l.cut \/ Larger(img.len, l.len) = img.len
  <2>1. PICK n \in u.len : TRUE
    OBVIOUS
  <2>2. n \in Int /\ l.len \in Int
    BY LogAssumption DEF FileChoices, Log
  <2>3. ~l.cut => Larger(n, l.len) = img.len
    BY <2>1 DEF Fixes
  <2> QED
    BY <2>2, <2>3 DEF Larger
<1> QED
  BY <1>1, FixesWritten

-----------------------------------------------------------------------------
(* The invariant: a commit. *)

LEMMA CommitLogKeeps ==
    ASSUME LogInv, CommitLog
    PROVE  LogInv'
<1>1. /\ phase = "idle" /\ trans = "active" /\ trans' = "committed" /\ version' = version + 1
      /\ log' = LogMark(log, "end", version + 1) /\ logs' = logs \cup {log'}
      /\ phase' = "logged"
      /\ UNCHANGED <<disk, unsure, label, labels, cached, dirty, mem, cutAt, goal>>
  BY DEF CommitLog, WriteLog, fileVars, bufferVars
<1>2. /\ log \in Log /\ WellFormed(log) /\ log.mark = "open"
      /\ version \in Nat /\ version = label /\ label > 0
      /\ Pins(log, goal) /\ BuffersMakeGoal
  BY <1>1 DEF LogInv, TypeOK, IdleInv
<1>3. /\ log' \in Log /\ WellFormed(log') /\ log'.mark = "end" /\ log'.version = version + 1
      /\ log'.touched = log.touched /\ log'.data = log.data /\ log'.cut = log.cut
      /\ log'.len = log.len
  <2>1. log' \in Log /\ WellFormed(log') /\ log'.mark = "end" /\ log'.version = version + 1
    BY <1>1, <1>2, LogMarkType
  <2> QED
    BY <1>1, <1>2, <2>1 DEF LogMark, Log
<1>4. TypeOK'
  BY <1>1, <1>2, <1>3 DEF LogInv, TypeOK
<1>5. (\A l \in logs : WellFormed(l))'
  <2>1. \A l \in logs' : WellFormed(l)
    BY <1>1, <1>3 DEF LogInv
  <2> QED
    BY <2>1 DEF WellFormed
<1>6. BuffersInv'
  BY <1>1 DEF LogInv, BuffersInv
<1>7. CommitInv'
  <2>1. Pins(log, goal)'
    BY <1>1, <1>2, <1>3 DEF Pins, Fixes
  <2>2. BuffersMakeGoal'
    BY <1>1, <1>2, <1>3 DEF BuffersMakeGoal, Survives, FlushLength
  <2>3. \A l \in logs' : l = log' \/ Stale(l)'
    BY <1>1 DEF LogInv, IdleInv, Stale, Pins
  <2> QED
    BY <1>1, <1>2, <1>3, <2>1, <2>2, <2>3 DEF CommitInv, Committing
<1>8. IdleInv' /\ RestartInv' /\ SettledInv'
  BY <1>1 DEF LogInv, IdleInv, RestartInv, SettledInv, Ended, Restarting, Settled
<1> QED
  BY <1>4, <1>5, <1>6, <1>7, <1>8 DEF LogInv

LEMMA CommitSyncKeeps ==
    ASSUME LogInv, CommitSync
    PROVE  LogInv'
<1>1. /\ phase = "logged" /\ logs' = {log} /\ log' = log /\ phase' = "flush"
      /\ UNCHANGED <<disk, unsure, label, labels, cached, dirty, mem, trans, cutAt, goal, version>>
  BY DEF CommitSync, SyncLog, fileVars, bufferVars, transVars
<1>2. TypeOK' /\ (\A l \in logs : WellFormed(l))' /\ BuffersInv'
  BY <1>1 DEF LogInv, TypeOK, WellFormed, BuffersInv
<1>3. CommitInv'
  <2>1. BuffersMakeGoal'
    BY <1>1 DEF LogInv, CommitInv, BuffersMakeGoal, Survives, FlushLength
  <2> QED
    BY <1>1, <2>1 DEF LogInv, CommitInv, Committing, Pins
<1>4. IdleInv' /\ RestartInv' /\ SettledInv'
  BY <1>1 DEF LogInv, IdleInv, RestartInv, SettledInv, Ended, Restarting, Settled
<1> QED
  BY <1>2, <1>3, <1>4 DEF LogInv

LEMMA CommitFlushKeeps ==
    ASSUME PageSize = 1, LogInv, CommitFlush
    PROVE  LogInv'
<1> USE PagesArePositions
<1>0. PICK n \in 0 .. Size : FlushLength(n) /\ WriteFile(Flushed(n))
  BY DEF CommitFlush
<1>1. /\ phase = "flush" /\ phase' = "sync" /\ disk' = Flushed(n) /\ unsure' = Written(unsure, disk')
      /\ UNCHANGED <<label, labels, log, logs, cached, dirty, mem, trans, cutAt, goal, version>>
  BY <1>0 DEF CommitFlush, WriteFile, Written, logVars, bufferVars, transVars
<1>2. /\ disk \in Image /\ goal \in Image /\ disk' \in Image /\ unsure \in FileChoices
      /\ log \in Log /\ WellFormed(log) /\ log.mark = "end" /\ unsure = Certain(disk)
      /\ labels = {label} /\ cutAt \in 0 .. NoCut
      /\ Fixes(unsure, log, goal) /\ BuffersMakeGoal /\ dirty \subseteq cached
  BY <1>0, <1>1, FlushedImage
     DEF LogInv, TypeOK, CommitInv, Committing, SettledInv, Settled, Pins, FileChoices
<1>3. disk'.len = n
      /\ \A c \in Position : disk'.data[c] = IF c \in dirty THEN mem[c] ELSE disk.data[c]
  BY <1>1 DEF Flushed
<1>4. \A c \in Position : Survives(c) => disk'.data[c] = goal.data[c]
  BY <1>2, <1>3 DEF BuffersMakeGoal
<1>5. cutAt = NoCut => goal = disk'
  <2> SUFFICES ASSUME cutAt = NoCut PROVE goal = disk'
    OBVIOUS
  <2>1. goal.len = disk'.len
    <3>1. FlushLength(goal.len)
      BY <1>2 DEF BuffersMakeGoal
    <3>2. goal.len \in Int /\ n \in Int /\ disk.len \in Int /\ dirty \subseteq Int
      BY <1>2, ImageFacts, LogAssumption DEF LogInv, TypeOK, Position
    <3>3. ASSUME NEW a \in Int, NEW b \in Int, FlushLength(a), FlushLength(b) PROVE a >= b
      BY <3>2, <3>3 DEF FlushLength
    <3> QED
      BY <1>0, <1>3, <3>1, <3>2, <3>3
  <2>2. goal.data = disk'.data
    BY <1>2, <1>4 DEF Survives, Image, Data
  <2> QED
    BY <1>2, <2>1, <2>2, ImageFacts
<1>6. cutAt # NoCut => log.cut /\ goal = Cut(disk', cutAt)
  <2> SUFFICES ASSUME cutAt # NoCut PROVE log.cut /\ goal = Cut(disk', cutAt)
    OBVIOUS
  <2>1. goal.len = cutAt /\ log.cut
    BY <1>2 DEF BuffersMakeGoal
  <2>2. ASSUME NEW c \in Position PROVE goal.data[c] = IF c < cutAt THEN disk'.data[c] ELSE 0
    <3>1. c \in Int /\ cutAt \in Int
      BY <1>2, LogAssumption DEF NoCut, Position
    <3> QED
      BY <1>2, <1>4, <2>1, <3>1, ImageFacts DEF Survives
  <2>3. goal.data = [c \in Position |-> IF c < cutAt THEN disk'.data[c] ELSE 0]
    BY <1>2, <2>2 DEF Image, Data
  <2> QED
    BY <1>2, <2>1, <2>3, ImageFacts DEF Cut
<1>7. TypeOK'
  BY <1>0, <1>1, <1>2, WriteFileType DEF LogInv, TypeOK, Written
<1>8. (\A l \in logs : WellFormed(l))'
  BY <1>1 DEF LogInv, WellFormed
<1>9. BuffersInv'
  BY <1>1, <1>2, <1>3 DEF LogInv, BuffersInv
<1>10. Fixes(unsure', log, goal)
  <2>1. ASSUME NEW c \in Position, c \notin log.touched PROVE disk'.data[c] = goal.data[c]
    <3>1. CASE Survives(c)
      BY <1>4, <3>1
    <3>2. CASE ~ Survives(c)
      <4>1. log.cut /\ goal.len = cutAt /\ c >= cutAt
        BY <1>2, <1>6, <3>2, LogAssumption DEF Survives, BuffersMakeGoal, NoCut, Position
      <4>2. c < log.len
        BY <1>2, <2>1, <4>1, LogAssumption DEF WellFormed, Log, Position
      <4>3. log.len = goal.len
        BY <1>2, <4>1 DEF Fixes
      <4> QED
        BY <4>1, <4>2, <4>3, <1>2, LogAssumption DEF Log, NoCut, Position
    <3> QED
      BY <3>1, <3>2
  <2>2. log.cut \/ Larger(disk'.len, log.len) = goal.len
    <3>1. CASE cutAt = NoCut
      <4>1. PICK k \in unsure.len : TRUE
        BY <1>2 DEF Certain
      <4>2. k \in Int /\ log.len \in Int /\ (~log.cut => Larger(k, log.len) = goal.len)
        BY <1>2, LogAssumption DEF FileChoices, Log, Fixes
      <4> QED
        BY <1>5, <3>1, <4>2 DEF Larger
    <3>2. CASE cutAt # NoCut
      BY <1>6, <3>2
    <3> QED
      BY <3>1, <3>2
  <2> QED
    BY <1>1, <1>2, <2>1, <2>2, FixesWritten
<1>11. CommitInv'
  BY <1>1, <1>5, <1>6, <1>10 DEF LogInv, CommitInv, Committing, Pins
<1>12. IdleInv' /\ RestartInv'
  BY <1>1 DEF LogInv, IdleInv, RestartInv, Ended, Restarting
<1>13. SettledInv'
  <2>1. ASSUME dirty = {} PROVE unsure' = Certain(disk')
    <3>1. n = disk.len
      BY <1>0, <2>1 DEF FlushLength
    <3>2. disk' = disk
      <4>1. disk'.data = disk.data
        BY <1>2, <1>3, <2>1 DEF Image, Data
      <4> QED
        BY <1>2, <1>3, <3>1, <4>1, ImageFacts
    <3> QED
      BY <1>1, <1>2, <3>2 DEF Written, Certain
  <2> QED
    BY <1>1, <1>2, <2>1 DEF SettledInv, Settled
<1> QED
  BY <1>7, <1>8, <1>9, <1>11, <1>12, <1>13 DEF LogInv

LEMMA CommitPagesKeeps ==
    ASSUME LogInv, CommitPages
    PROVE  LogInv'
<1>1. /\ phase = "sync" /\ phase' = "truncs" /\ dirty' = {}
      /\ unsure' = Certain(disk) /\ labels' = {label}
      /\ UNCHANGED <<disk, label, log, logs, cached, mem, trans, cutAt, goal, version>>
  BY DEF CommitPages, SyncFile, logVars, transVars, fileVars, LogInv, SettledInv, Settled
<1>2. TypeOK'
  BY <1>1, CertainType, ImageFacts DEF LogInv, TypeOK, Certain
<1>3. Fixes(unsure', log, goal)
  BY <1>1, FixesCertain DEF LogInv, TypeOK, CommitInv, Committing, Pins, FileChoices
<1>4. (\A l \in logs : WellFormed(l))' /\ BuffersInv'
  BY <1>1 DEF LogInv, WellFormed, BuffersInv
<1>5. CommitInv'
  BY <1>1, <1>3 DEF LogInv, CommitInv, Committing, Pins
<1>6. IdleInv' /\ RestartInv' /\ SettledInv'
  BY <1>1 DEF LogInv, IdleInv, RestartInv, SettledInv, Ended, Restarting, Settled
<1> QED
  BY <1>2, <1>4, <1>5, <1>6 DEF LogInv

LEMMA CommitTruncsKeeps ==
    ASSUME PageSize = 1, LogInv, CommitTruncs
    PROVE  LogInv'
<1> USE PagesArePositions
<1>1. /\ phase = "truncs" /\ phase' = "label" /\ cutAt' = NoCut
      /\ UNCHANGED <<label, labels, log, logs, dirty, trans, goal, version>>
  BY DEF CommitTruncs, logVars
<1>2. /\ disk \in Image /\ goal \in Image /\ unsure \in FileChoices /\ log \in Log
      /\ cutAt \in 0 .. NoCut /\ Fixes(unsure, log, goal) /\ unsure = Certain(disk)
      /\ labels = {label} /\ dirty = {} /\ mem \in Data /\ cached \subseteq Page
      /\ goal = IF cutAt = NoCut THEN disk ELSE Cut(disk, cutAt)
      /\ \A c \in cached : mem[c] = disk.data[c]
  BY <1>1 DEF LogInv, TypeOK, CommitInv, Committing, SettledInv, Settled, Pins, FileChoices,
     BuffersInv
<1>3. /\ disk' = goal
      /\ unsure' = unsure \/ unsure' = Written(unsure, goal)
      /\ cached' \subseteq cached /\ mem' \in Data
      /\ \A c \in cached' : mem'[c] = disk'.data[c]
      /\ disk'.len \in unsure'.len /\ \A c \in Position : disk'.data[c] \in unsure'.data[c]
  <2>1. CASE cutAt = NoCut
    BY <1>2, <2>1 DEF CommitTruncs, Certain
  <2>2. CASE cutAt # NoCut
    <3>1. /\ disk' = goal /\ unsure' = Written(unsure, goal)
          /\ cached' = {p \in cached : p * PageSize < cutAt} /\ mem' = Buffers(cached')
      BY <1>2, <2>2 DEF CommitTruncs, WriteFile, Written
    <3>2. mem' \in Data
      BY <3>1, BuffersType DEF LogInv
    <3>3. ASSUME NEW c \in cached' PROVE mem'[c] = goal.data[c]
      <4>1. c \in Position /\ c \in cached
        BY <1>2, <3>1, <3>3
      <4>2. c < cutAt
        BY <3>1, <3>3, <4>1, LogAssumption DEF Position
      <4>3. mem'[c] = mem[c]
        BY <3>1, <3>3, <4>1 DEF Buffers
      <4> QED
        BY <1>2, <2>2, <4>1, <4>2, <4>3 DEF Cut
    <3> QED
      BY <3>1, <3>2, <3>3 DEF Written
  <2> QED
    BY <2>1, <2>2
<1>4. Fixes(unsure', log, goal)
  <2>1. unsure.len # {}
    BY <1>2 DEF Certain
  <2> QED
    BY <1>2, <1>3, <2>1, FixesTarget
<1>5. TypeOK'
  <2>1. unsure' \in FileChoices
    BY <1>2, <1>3, ImageFacts DEF Written, FileChoices
  <2>2. cutAt' \in 0 .. NoCut
    BY <1>1, LogAssumption DEF NoCut
  <2> QED
    BY <1>1, <1>2, <1>3, <2>1, <2>2 DEF LogInv, TypeOK, FileChoices
<1>6. (\A l \in logs : WellFormed(l))' /\ BuffersInv'
  BY <1>1, <1>3 DEF LogInv, WellFormed, BuffersInv
<1>7. CommitInv'
  BY <1>1, <1>3, <1>4 DEF LogInv, CommitInv, Committing, Pins
<1>8. IdleInv' /\ RestartInv' /\ SettledInv'
  BY <1>1 DEF LogInv, IdleInv, RestartInv, SettledInv, Ended, Restarting, Settled
<1> QED
  BY <1>5, <1>6, <1>7, <1>8 DEF LogInv

LEMMA CommitLabelKeeps ==
    ASSUME LogInv, CommitLabel
    PROVE  LogInv'
<1>1. /\ phase = "label" /\ phase' = "fsync" /\ label' = version /\ labels' = labels \cup {version}
      /\ UNCHANGED <<disk, unsure, log, logs, cached, dirty, mem, trans, cutAt, goal, version>>
  BY DEF CommitLabel, WriteLabel, logVars, bufferVars, transVars
<1>2. TypeOK' /\ (\A l \in logs : WellFormed(l))' /\ BuffersInv'
  BY <1>1 DEF LogInv, TypeOK, WellFormed, BuffersInv
<1>3. CommitInv'
  BY <1>1 DEF LogInv, CommitInv, Committing, Pins
<1>4. IdleInv' /\ RestartInv' /\ SettledInv'
  BY <1>1 DEF LogInv, IdleInv, RestartInv, SettledInv, Ended, Restarting, Settled
<1> QED
  BY <1>2, <1>3, <1>4 DEF LogInv

LEMMA CommitLabelSyncKeeps ==
    ASSUME LogInv, CommitLabelSync
    PROVE  LogInv'
<1>1. /\ phase = "fsync" /\ phase' = "discard" /\ unsure' = Certain(disk) /\ labels' = {label}
      /\ UNCHANGED <<disk, label, log, logs, cached, dirty, mem, trans, cutAt, goal, version>>
  BY DEF CommitLabelSync, SyncFile, logVars, bufferVars, transVars
<1>2. TypeOK'
  BY <1>1, CertainType, ImageFacts DEF LogInv, TypeOK, Certain
<1>3. Fixes(unsure', log, goal)
  BY <1>1, FixesCertain DEF LogInv, TypeOK, CommitInv, Committing, Pins, FileChoices
<1>4. (\A l \in logs : WellFormed(l))' /\ BuffersInv'
  BY <1>1 DEF LogInv, WellFormed, BuffersInv
<1>5. CommitInv'
  BY <1>1, <1>3 DEF LogInv, CommitInv, Committing, Pins
<1>6. IdleInv' /\ RestartInv' /\ SettledInv'
  BY <1>1 DEF LogInv, IdleInv, RestartInv, SettledInv, Ended, Restarting, Settled
<1> QED
  BY <1>2, <1>4, <1>5, <1>6 DEF LogInv

LEMMA CommitDiscardKeeps ==
    ASSUME LogInv, CommitDiscard
    PROVE  LogInv'
<1>1. /\ phase = "discard" /\ phase' = "idle" /\ log' = NoLog /\ logs' = logs \cup {NoLog}
      /\ UNCHANGED <<disk, unsure, label, labels, cached, dirty, mem, trans, cutAt, goal, version>>
  BY DEF CommitDiscard, WriteLog, fileVars, bufferVars, transVars
<1>2. /\ trans = "committed" /\ log.mark = "end" /\ log.version = version /\ Pins(log, goal)
      /\ logs = {log} /\ disk = goal /\ dirty = {} /\ label = version /\ WellFormed(log)
  BY <1>1 DEF LogInv, TypeOK, CommitInv, Committing
<1>3. TypeOK'
  BY <1>1, NoLogType DEF LogInv, TypeOK
<1>4. (\A l \in logs : WellFormed(l))'
  <2>1. \A l \in logs' : WellFormed(l)
    BY <1>1, NoLogType DEF LogInv
  <2> QED
    BY <2>1 DEF WellFormed
<1>5. BuffersInv'
  BY <1>1 DEF LogInv, BuffersInv
<1>6. IdleInv'
  <2>1. \A l \in logs' : Stale(l)'
    BY <1>1, <1>2 DEF Stale, Pins, NoLog
  <2>2. version > 0
    BY <1>2 DEF WellFormed
  <2> QED
    BY <1>1, <1>2, <2>1, <2>2 DEF LogInv, IdleInv, Ended, NoLog
<1>7. CommitInv' /\ RestartInv' /\ SettledInv'
  BY <1>1 DEF LogInv, CommitInv, RestartInv, SettledInv, Committing, Restarting, Settled
<1> QED
  BY <1>3, <1>4, <1>5, <1>6, <1>7 DEF LogInv

-----------------------------------------------------------------------------
(* The invariant: crash and restart. *)

LEMMA CrashKeeps ==
    ASSUME LogInv, Crash
    PROVE  LogInv'
<1>1. PICK img \in Survivors, n \in labels, l \in logs :
          /\ disk' = img /\ unsure' = Certain(img)
          /\ label' = n /\ labels' = {n}
          /\ log' = l /\ logs' = {l}
  BY DEF Crash
<1>2. /\ cached' = {} /\ dirty' = {} /\ mem' = Empty.data /\ trans' = "none" /\ cutAt' = NoCut
      /\ goal' = Empty /\ version' = 0 /\ phase' = "down"
  BY DEF Crash
<1>3. /\ img \in Image /\ n \in Nat /\ l \in Log /\ WellFormed(l)
  BY DEF LogInv, TypeOK, Survivors
<1>4. TypeOK'
  <2>1. unsure' \in FileChoices
    BY <1>1, <1>3, CertainType DEF FileChoices
  <2>2. goal' \in Image /\ mem' \in Data /\ cutAt' \in 0 .. NoCut
    BY <1>2, EmptyImage, ImageFacts, LogAssumption DEF NoCut, Data
  <2> QED
    BY <1>1, <1>2, <1>3, <2>1, <2>2 DEF TypeOK, FileChoices, Certain
<1>5. (\A k \in logs : WellFormed(k))'
  BY <1>1, <1>3 DEF WellFormed
<1>6. BuffersInv' /\ IdleInv' /\ CommitInv' /\ RestartInv' /\ SettledInv'
  BY <1>1, <1>2 DEF BuffersInv, IdleInv, CommitInv, RestartInv, SettledInv, Ended, Committing,
     Restarting, Settled
<1> QED
  BY <1>4, <1>5, <1>6 DEF LogInv

LEMMA StartReplayKeeps ==
    ASSUME NetworkOrder, LogInv, StartReplay
    PROVE  LogInv'
<1>1. /\ phase = "down" /\ phase' = IF log.mark = "end" THEN "replay" ELSE "clear"
      /\ UNCHANGED <<disk, unsure, label, labels, log, logs, cached, dirty, mem, trans, cutAt,
                     goal, version>>
  BY DEF StartReplay, IsCommitted, fileVars, logVars, bufferVars, transVars
<1>2. TypeOK' /\ (\A l \in logs : WellFormed(l))' /\ BuffersInv'
  BY <1>1 DEF LogInv, TypeOK, WellFormed, BuffersInv
<1>3. IdleInv' /\ CommitInv' /\ SettledInv'
  BY <1>1 DEF LogInv, IdleInv, CommitInv, SettledInv, Ended, Committing, Settled
<1>4. RestartInv'
  BY <1>1 DEF LogInv, RestartInv, Restarting, Stale
<1> QED
  BY <1>2, <1>3, <1>4 DEF LogInv

LEMMA ReplayRecordsKeeps ==
    ASSUME LogInv, ReplayRecords
    PROVE  LogInv'
<1>1. /\ phase = "replay" /\ phase' = "relabel"
      /\ disk' = Replayed(disk, log) /\ unsure' = Written(unsure, disk') /\ WriteFile(disk')
      /\ UNCHANGED <<label, labels, log, logs, cached, dirty, mem, trans, cutAt, goal, version>>
  BY DEF ReplayRecords, WriteFile, Written, logVars, bufferVars, transVars
<1>2. /\ disk \in Image /\ unsure \in FileChoices /\ unsure = Certain(disk)
      /\ log \in Log /\ WellFormed(log) /\ log.mark = "end" /\ cached = {}
  BY <1>1 DEF LogInv, TypeOK, RestartInv, Restarting, SettledInv, Settled, FileChoices
<1>3. disk' \in Image
  BY <1>1, <1>2, ReplayedImage
<1>4. Fixes(unsure', log, disk')
  BY <1>1, <1>2, <1>3, FixesReplayed, FixesTarget DEF Certain
<1>5. TypeOK'
  BY <1>1, <1>3, WriteFileType DEF LogInv, TypeOK, Written
<1>6. (\A l \in logs : WellFormed(l))' /\ BuffersInv'
  BY <1>1, <1>2 DEF LogInv, WellFormed, BuffersInv
<1>7. IdleInv' /\ CommitInv' /\ SettledInv'
  BY <1>1 DEF LogInv, IdleInv, CommitInv, SettledInv, Ended, Committing
<1>8. RestartInv'
  BY <1>1, <1>4 DEF LogInv, RestartInv, Restarting, Pins
<1> QED
  BY <1>5, <1>6, <1>7, <1>8 DEF LogInv

LEMMA ReplayLabelKeeps ==
    ASSUME LogInv, ReplayLabel
    PROVE  LogInv'
<1>1. /\ phase = "relabel" /\ phase' = "resync"
      /\ label' = log.version /\ labels' = labels \cup {log.version}
      /\ UNCHANGED <<disk, unsure, log, logs, cached, dirty, mem, trans, cutAt, goal, version>>
  BY DEF ReplayLabel, WriteLabel, logVars, bufferVars, transVars
<1>2. TypeOK'
  BY <1>1 DEF LogInv, TypeOK, Log
<1>3. (\A l \in logs : WellFormed(l))' /\ BuffersInv'
  BY <1>1 DEF LogInv, WellFormed, BuffersInv
<1>4. IdleInv' /\ CommitInv' /\ RestartInv' /\ SettledInv'
  BY <1>1 DEF LogInv, IdleInv, CommitInv, RestartInv, SettledInv, Ended, Committing, Restarting,
     Pins
<1> QED
  BY <1>2, <1>3, <1>4 DEF LogInv

LEMMA ReplaySyncKeeps ==
    ASSUME LogInv, ReplaySync
    PROVE  LogInv'
<1>1. /\ phase = "resync" /\ phase' = "clear" /\ unsure' = Certain(disk) /\ labels' = {label}
      /\ UNCHANGED <<disk, label, log, logs, cached, dirty, mem, trans, cutAt, goal, version>>
  BY DEF ReplaySync, SyncFile, logVars, bufferVars, transVars
<1>2. TypeOK'
  BY <1>1, CertainType, ImageFacts DEF LogInv, TypeOK, Certain
<1>3. Stale(log)'
  <2>1. Fixes(unsure', log, disk)
    BY <1>1, FixesCertain DEF LogInv, TypeOK, RestartInv, Pins, FileChoices
  <2> QED
    BY <1>1, <2>1 DEF LogInv, RestartInv, Stale, Pins
<1>4. (\A l \in logs : WellFormed(l))' /\ BuffersInv'
  BY <1>1 DEF LogInv, WellFormed, BuffersInv
<1>5. IdleInv' /\ CommitInv' /\ SettledInv'
  BY <1>1 DEF LogInv, IdleInv, CommitInv, SettledInv, Ended, Committing, Settled
<1>6. RestartInv'
  BY <1>1, <1>3 DEF LogInv, RestartInv, Restarting
<1> QED
  BY <1>2, <1>4, <1>5, <1>6 DEF LogInv

LEMMA ReplayClearKeeps ==
    ASSUME LogInv, ReplayClear
    PROVE  LogInv'
<1>1. /\ phase = "clear" /\ phase' = "initialize" /\ log' = NoLog /\ logs' = logs \cup {NoLog}
      /\ UNCHANGED <<disk, unsure, label, labels, cached, dirty, mem, trans, cutAt, goal, version>>
  BY DEF ReplayClear, WriteLog, fileVars, bufferVars, transVars
<1>2. TypeOK'
  BY <1>1, NoLogType DEF LogInv, TypeOK
<1>3. (\A l \in logs : WellFormed(l))'
  <2>1. \A l \in logs' : WellFormed(l)
    BY <1>1, NoLogType DEF LogInv
  <2> QED
    BY <2>1 DEF WellFormed
<1>4. BuffersInv'
  BY <1>1 DEF LogInv, BuffersInv
<1>5. IdleInv'
  <2>1. \A l \in logs' : Stale(l)'
    BY <1>1 DEF LogInv, RestartInv, Restarting, Stale, Pins, NoLog
  <2> QED
    BY <1>1, <2>1 DEF LogInv, IdleInv, RestartInv, Restarting, Ended
<1>6. CommitInv' /\ RestartInv' /\ SettledInv'
  BY <1>1 DEF LogInv, CommitInv, RestartInv, SettledInv, Committing, Restarting, Settled
<1> QED
  BY <1>2, <1>3, <1>4, <1>5, <1>6 DEF LogInv

LEMMA InitializeDBKeeps ==
    ASSUME LogInv, InitializeDB
    PROVE  LogInv'
<1>1. /\ phase = "initialize" /\ phase' = "idle"
      /\ version' = IF label = 0 THEN 1 ELSE label
      /\ label' = version' /\ labels' = {version'}
      /\ UNCHANGED <<disk, log, logs, cached, dirty, mem, trans, cutAt, goal>>
  BY DEF InitializeDB, logVars, bufferVars, transVars
<1>2. /\ unsure = Certain(disk) /\ unsure' = unsure /\ label \in Nat /\ log = NoLog /\ dirty = {}
      /\ trans = "none" /\ \A l \in logs : Stale(l) /\ WellFormed(l)
  BY <1>1 DEF InitializeDB, LogInv, TypeOK, SettledInv, Settled, IdleInv, RestartInv, Restarting
<1>3. TypeOK'
  BY <1>1, <1>2 DEF LogInv, TypeOK
<1>4. (\A l \in logs : WellFormed(l))' /\ BuffersInv'
  BY <1>1 DEF LogInv, WellFormed, BuffersInv
<1>5. IdleInv'
  <2>1. ASSUME NEW l \in logs PROVE Stale(l)'
    <3>1. l.mark = "end" => l.version = label /\ label > 0 /\ Pins(l, disk)
      BY <1>2, <2>1 DEF Stale, WellFormed
    <3> QED
      BY <1>1, <1>2, <3>1 DEF Stale, Pins
  <2> QED
    BY <1>1, <1>2, <2>1 DEF IdleInv, Ended, NoLog
<1>6. CommitInv' /\ RestartInv' /\ SettledInv'
  BY <1>1, <1>2 DEF CommitInv, RestartInv, SettledInv, Committing, Restarting, Settled
<1> QED
  BY <1>3, <1>4, <1>5, <1>6 DEF LogInv

-----------------------------------------------------------------------------
(* The invariant holds throughout.  The assumptions say what the code needs:  *)
(* every write to a file covers whole pages, and opcodes read as written.     *)

LEMMA LogInvStep ==
    ASSUME PageSize = 1, NetworkOrder, LogInv, [Next]_vars
    PROVE  LogInv'
<1>1. CASE \E p \in Page : Read(p)
  BY <1>1, ReadKeeps
<1>2. CASE Begin
  BY <1>2, BeginKeeps
<1>3. CASE \E c \in Position, v \in Value : Write(c, v) \/ WriteFails(c, v)
  BY <1>3, WriteKeeps, WriteFailsKeeps
<1>4. CASE \E n \in 0 .. Size : Truncate(n)
  BY <1>4, TruncateKeeps
<1>5. CASE AbortLog \/ AbortDiscard \/ End
  BY <1>5, AbortLogKeeps, AbortDiscardKeeps, EndKeeps
<1>6. CASE Commit
  BY <1>6, CommitLogKeeps, CommitSyncKeeps, CommitFlushKeeps, CommitPagesKeeps, CommitTruncsKeeps,
     CommitLabelKeeps, CommitLabelSyncKeeps, CommitDiscardKeeps DEF Commit
<1>7. CASE Crash \/ Replay
  BY <1>7, CrashKeeps, StartReplayKeeps, ReplayRecordsKeeps, ReplayLabelKeeps, ReplaySyncKeeps,
     ReplayClearKeeps, InitializeDBKeeps DEF Replay
<1>8. CASE UNCHANGED vars
  <2> USE <1>8 DEF vars, fileVars, logVars, bufferVars, transVars
  <2>1. TypeOK' /\ (\A l \in logs : WellFormed(l))' /\ BuffersInv'
    BY DEF LogInv, TypeOK, WellFormed, BuffersInv
  <2>2. BuffersMakeGoal => BuffersMakeGoal'
    BY DEF BuffersMakeGoal, Survives, FlushLength
  <2>3. IdleInv' /\ CommitInv'
    BY <2>2 DEF LogInv, IdleInv, CommitInv, Ended, Committing, Stale, Pins
  <2>4. RestartInv' /\ SettledInv'
    BY DEF LogInv, RestartInv, SettledInv, Restarting, Settled, Stale, Pins
  <2> QED
    BY <2>1, <2>3, <2>4 DEF LogInv
<1> QED
  BY <1>1, <1>2, <1>3, <1>4, <1>5, <1>6, <1>7, <1>8 DEF Next

(* Types, and why a crash at any point of disk.c's commit, abort and replay is
   harmless: whatever part of the unsynced writes survives, the log is either
   not committed, or was replayed before, or makes the committed file of it. *)
THEOREM LogInvariant ==
    ASSUME PageSize = 1, NetworkOrder
    PROVE  Spec => []LogInv
<1>1. Init => LogInv
  BY LogInvInitially
<1>2. LogInv /\ [Next]_vars => LogInv'
  BY LogInvStep
<1> QED
  BY <1>1, <1>2, PTL DEF Spec

-----------------------------------------------------------------------------
(* What a crash would leave, in each phase. *)

LEMMA DiskSurvives == ASSUME TypeOK PROVE disk \in Survivors
  BY DEF TypeOK, Survivors

LEMMA OneSurvivor ==
    ASSUME TypeOK, unsure = Certain(disk)
    PROVE  Survivors = {disk}
<1>1. ASSUME NEW img \in Survivors PROVE img = disk
  <2>1. img \in Image /\ disk \in Image /\ img.len = disk.len
    BY <1>1 DEF Survivors, Certain, TypeOK
  <2>2. ASSUME NEW c \in Position PROVE img.data[c] = disk.data[c]
    <3>1. c \in Int /\ disk.len \in Int
      BY <2>1, ImageFacts, LogAssumption DEF Position
    <3>2. c < disk.len => img.data[c] = disk.data[c]
      BY <1>1, <2>1 DEF Survivors, Certain
    <3> QED
      BY <2>1, <3>1, <3>2, ImageFacts
  <2>3. img.data = disk.data
    BY <2>1, <2>2 DEF Image, Data
  <2> QED
    BY <2>1, <2>3, ImageFacts
<1> QED
  BY <1>1, DiskSurvives

LEMMA FixedOutcome ==
    ASSUME NetworkOrder, TypeOK, NEW l \in Log, l.mark = "end", NEW img \in Image, Pins(l, img),
           NEW w \in Survivors, NEW n
    PROVE  Recovered(w, n, l) = [image |-> img, version |-> l.version]
<1>1. w \in Image /\ w.len \in unsure.len /\ unsure \in FileChoices
  BY DEF Survivors, TypeOK, FileChoices
<1>2. Fixes(Certain(w), l, img)
  BY <1>1, FixesCertain DEF Survivors, Pins
<1>3. Replayed(w, l).len = img.len
  BY <1>2 DEF Fixes, Certain, Replayed
<1>4. ASSUME NEW c \in Position PROVE Replayed(w, l).data[c] = img.data[c]
  BY <1>2 DEF Fixes, Certain, Replayed
<1>5. Replayed(w, l).data = img.data
  BY <1>4 DEF Replayed, Image, Data
<1>6. Replayed(w, l) = img
  BY <1>3, <1>5, ImageFacts DEF Replayed
<1> QED
  BY <1>6 DEF Recovered, IsCommitted

AsItIs == [image |-> disk, version |-> IF label = 0 THEN 1 ELSE label]
AsAsked == [image |-> goal, version |-> version]

LEMMA StaleOutcome ==
    ASSUME NetworkOrder, TypeOK, NEW l \in Log, WellFormed(l), Stale(l)
    PROVE  Recovered(disk, label, l) = AsItIs
<1>1. CASE l.mark = "end"
  <2>1. l.version = label /\ Pins(l, disk) /\ label > 0
    BY <1>1 DEF Stale, WellFormed
  <2>2. disk \in Image /\ label \in Nat /\ disk \in Survivors
    BY DiskSurvives DEF TypeOK
  <2> QED
    BY <1>1, <2>1, <2>2, FixedOutcome DEF AsItIs
<1>2. CASE l.mark # "end"
  BY <1>2 DEF Recovered, IsCommitted, AsItIs
<1> QED
  BY <1>1, <1>2

OutcomesInv ==
    /\ phase \in {"idle", "aborting", "clear", "initialize"} => Outcomes = {AsItIs}
    /\ phase = "logged" => /\ Outcomes \subseteq {AsItIs, AsAsked} /\ AsAsked \in Outcomes
                           /\ logs # {log} => AsItIs \in Outcomes
    /\ Committing => Outcomes = {AsAsked}
    /\ phase \in {"down", "replay"} => Outcomes = {Recovered(disk, label, log)}
    /\ phase \in {"relabel", "resync"} =>
           Outcomes = {[image |-> disk, version |-> log.version]}

LEMMA LogInvOutcomes ==
    ASSUME NetworkOrder, LogInv
    PROVE  OutcomesInv
<1> USE DEF LogInv
<1>1. /\ log \in logs /\ logs \subseteq Log /\ label \in labels /\ \A l \in logs : WellFormed(l)
      /\ disk \in Image /\ goal \in Image
  BY DEF TypeOK
<1>2. ASSUME Settled PROVE Outcomes = {Recovered(disk, label, l) : l \in logs}
  <2>1. Survivors = {disk} /\ labels = {label}
    BY <1>2, OneSurvivor DEF Settled
  <2> QED
    BY <2>1 DEF Outcomes
<1>3. ASSUME phase \in {"idle", "aborting", "clear", "initialize"} PROVE Outcomes = {AsItIs}
  <2>1. \A l \in logs : Stale(l)
    BY <1>3 DEF IdleInv, RestartInv, Restarting
  <2>2. \A l \in logs : Recovered(disk, label, l) = AsItIs
    BY <1>1, <2>1, StaleOutcome
  <2> QED
    BY <1>1, <1>2, <1>3, <2>2 DEF SettledInv
<1>4. ASSUME phase = "logged"
      PROVE  /\ Outcomes \subseteq {AsItIs, AsAsked} /\ AsAsked \in Outcomes
             /\ logs # {log} => AsItIs \in Outcomes
  <2>1. Outcomes = {Recovered(disk, label, l) : l \in logs}
    BY <1>2, <1>4 DEF SettledInv
  <2>2. Recovered(disk, label, log) = AsAsked
    BY <1>1, <1>4, FixedOutcome, DiskSurvives DEF CommitInv, AsAsked
  <2>3. \A l \in logs : l # log => Recovered(disk, label, l) = AsItIs
    BY <1>1, <1>4, StaleOutcome DEF CommitInv
  <2> QED
    BY <1>1, <2>1, <2>2, <2>3
<1>5. ASSUME Committing PROVE Outcomes = {AsAsked}
  <2>1. logs = {log} /\ log.mark = "end" /\ log.version = version /\ Pins(log, goal)
    BY <1>5 DEF CommitInv
  <2>2. \A w \in Survivors, n \in labels : Recovered(w, n, log) = AsAsked
    BY <1>1, <2>1, FixedOutcome DEF AsAsked
  <2> QED
    BY <1>1, <2>1, <2>2, DiskSurvives DEF Outcomes
<1>6. ASSUME phase \in {"down", "replay"} PROVE Outcomes = {Recovered(disk, label, log)}
  BY <1>2, <1>6 DEF SettledInv, RestartInv, Restarting
<1>7. ASSUME phase \in {"relabel", "resync"}
      PROVE  Outcomes = {[image |-> disk, version |-> log.version]}
  <2>1. logs = {log} /\ log.mark = "end" /\ Pins(log, disk)
    BY <1>7 DEF RestartInv, Restarting
  <2>2. \A w \in Survivors, n \in labels :
            Recovered(w, n, log) = [image |-> disk, version |-> log.version]
    BY <1>1, <2>1, FixedOutcome
  <2> QED
    BY <1>1, <2>1, <2>2, DiskSurvives DEF Outcomes
<1> QED
  BY <1>3, <1>4, <1>5, <1>6, <1>7 DEF OutcomesInv

(* A transaction that ended has left nothing in memory only, and nothing on the
   disk only: readers see what a crash leaves (disk.c: DAbort, DSync, udisk_abort
   and udisk_commit; recovery.c: ReplayLog). *)
THEOREM LogServesDurable ==
    ASSUME PageSize = 1, NetworkOrder
    PROVE  Spec => []ServedIsDurable
<1>1. ASSUME LogInv PROVE ServedIsDurable
  <2> SUFFICES ASSUME phase = "idle", trans \notin {"active", "failed"}
               PROVE  Outcomes = {[image |-> View, version |-> version]}
    BY DEF ServedIsDurable
  <2>1. Outcomes = {AsItIs}
    BY <1>1, LogInvOutcomes DEF OutcomesInv
  <2>2. AsItIs.version = version /\ dirty = {} /\ disk \in Image
    BY <1>1 DEF LogInv, TypeOK, IdleInv, Ended, AsItIs
  <2>3. \A c \in Position : PageOf(c) \in cached => mem[c] = disk.data[c]
    BY <1>1, <2>2 DEF LogInv, BuffersInv
  <2>4. View.data = disk.data
    BY <2>2, <2>3 DEF View, Image, Data
  <2>5. View = disk
    BY <2>2, <2>4, ImageFacts DEF View
  <2> QED
    BY <2>1, <2>2, <2>5 DEF AsItIs
<1> QED
  BY <1>1, LogInvariant, PTL

(* Once udisk_LogEnd has synced the end record, the transaction survives every
   crash, however far DFlush, DoTruncs and the label have got. *)
THEOREM LogCommitDurable ==
    ASSUME PageSize = 1, NetworkOrder
    PROVE  Spec => []CommitDurable
<1>1. ASSUME LogInv PROVE CommitDurable
  <2>1. CASE Committing
    BY <1>1, <2>1, LogInvOutcomes DEF OutcomesInv, AsAsked, CommitDurable
  <2>2. CASE phase = "idle" /\ trans = "committed"
    <3>1. disk = goal /\ version = label /\ label > 0
      BY <1>1, <2>2 DEF LogInv, IdleInv, Ended
    <3> QED
      BY <1>1, <2>2, <3>1, LogInvOutcomes DEF LogInv, TypeOK, OutcomesInv, AsItIs, CommitDurable
  <2> QED
    BY <2>1, <2>2 DEF CommitDurable, Committing
<1> QED
  BY <1>1, LogInvariant, PTL

-----------------------------------------------------------------------------
(* The refinement. *)

LEMMA LogInitRefines ==
    ASSUME Init
    PROVE  DB!DatabaseInit
<1>1. LogInv /\ unsure = Certain(disk) /\ labels = {0} /\ logs = {NoLog} /\ disk = Empty
  BY LogInvInitially DEF Init
<1>2. Survivors = {Empty}
  BY <1>1, OneSurvivor DEF LogInv
<1>3. Outcomes = {[image |-> Empty, version |-> 1]}
  BY <1>1, <1>2 DEF Outcomes, Recovered, IsCommitted, NoLog
<1> QED
  BY <1>3, EmptyImage DEF DB!DatabaseInit

LEMMA LogStepRefines ==
    ASSUME NetworkOrder, LogInv, LogInv', OutcomesInv, OutcomesInv', [Next]_vars
    PROVE  DB!DatabaseNext \/ Outcomes' = Outcomes
<1> DEFINE Result == DB!DatabaseNext \/ Outcomes' = Outcomes
<1> SUFFICES Result
  OBVIOUS
<1> HIDE DEF Result
<1>1. ASSUME NEW db \in Outcomes, Outcomes' = {db} PROVE Result
  BY <1>1 DEF Result, DB!DatabaseNext, DB!Decide
<1>2. ASSUME phase = "idle", phase' \in {"idle", "aborting"}, UNCHANGED <<disk, label>> PROVE Result
  BY <1>2 DEF Result, OutcomesInv, AsItIs
<1>3. ASSUME Committing, phase' \in {"sync", "truncs", "label", "fsync", "discard"},
             UNCHANGED <<goal, version>>
      PROVE  Result
  <2>1. Committing'
    BY <1>3 DEF Committing
  <2> QED
    BY <1>3, <2>1 DEF Result, OutcomesInv, AsAsked
<1>4. ASSUME \/ \E p \in Page : Read(p)
             \/ Begin
             \/ \E c \in Position, v \in Value : Write(c, v) \/ WriteFails(c, v)
             \/ \E n \in 0 .. Size : Truncate(n)
             \/ AbortLog \/ End
      PROVE  Result
  BY <1>4, <1>2 DEF Read, Begin, Write, WriteFails, Truncate, AbortLog, End, fileVars
<1>5. ASSUME AbortDiscard PROVE Result
  BY <1>5 DEF AbortDiscard, fileVars, Result, OutcomesInv, AsItIs
<1>6. ASSUME CommitLog PROVE Result
  <2>1. /\ phase = "idle" /\ trans = "active" /\ phase' = "logged" /\ version' = version + 1
        /\ log' = LogMark(log, "end", version + 1) /\ logs' = logs \cup {log'}
        /\ UNCHANGED <<disk, label, goal>>
    BY <1>6 DEF CommitLog, WriteLog, fileVars
  <2>2. /\ log \in logs /\ log \in Log /\ log.mark = "open" /\ goal \in Image
        /\ version = label /\ label > 0
    BY <2>1 DEF LogInv, TypeOK, IdleInv
  <2>3. logs' # {log'}
    BY <2>1, <2>2 DEF LogMark, Log
  <2>4. Outcomes = {AsItIs} /\ Outcomes' = {AsItIs, AsAsked'} /\ AsItIs' = AsItIs
    BY <2>1, <2>3 DEF OutcomesInv, AsItIs
  <2>5. AsAsked'.image \in Image /\ AsAsked'.version = AsItIs.version + 1
    BY <2>1, <2>2 DEF AsAsked, AsItIs
  <2> QED
    BY <2>4, <2>5 DEF Result, DB!DatabaseNext, DB!Offer
<1>7. ASSUME CommitSync PROVE Result
  <2>1. phase = "logged" /\ Committing' /\ AsAsked' = AsAsked
    BY <1>7 DEF CommitSync, Committing, AsAsked, transVars
  <2> QED
    BY <2>1, <1>1 DEF OutcomesInv
<1>8. ASSUME CommitFlush \/ CommitPages \/ CommitTruncs \/ CommitLabel \/ CommitLabelSync PROVE Result
  BY <1>8, <1>3 DEF CommitFlush, CommitPages, CommitTruncs, CommitLabel, CommitLabelSync,
     Committing, transVars
<1>9. ASSUME CommitDiscard PROVE Result
  <2>1. /\ phase = "discard" /\ phase' = "idle" /\ UNCHANGED <<disk, label, goal, version>>
        /\ disk = goal /\ label = version
    BY <1>9 DEF CommitDiscard, fileVars, transVars, LogInv, CommitInv
  <2>2. label > 0
    BY <2>1 DEF LogInv, CommitInv, Committing, TypeOK, WellFormed
  <2>3. AsItIs' = AsAsked
    BY <2>1, <2>2 DEF LogInv, TypeOK, AsItIs, AsAsked
  <2> QED
    BY <2>1, <2>3 DEF OutcomesInv, Committing, Result
<1>10. ASSUME Crash PROVE Result
  <2>1. PICK img \in Survivors, n \in labels, l \in logs : disk' = img /\ label' = n /\ log' = l
    BY <1>10 DEF Crash
  <2>2. Recovered(img, n, l) \in Outcomes
    BY <2>1 DEF Outcomes
  <2>3. phase' = "down"
    BY <1>10 DEF Crash
  <2>4. Outcomes' = {Recovered(disk, label, log)'}
    BY <2>3 DEF OutcomesInv
  <2>5. Recovered(disk, label, log)' = Recovered(img, n, l)
    BY <2>1 DEF Recovered, IsCommitted, Replayed
  <2> QED
    BY <2>2, <2>4, <2>5, <1>1
<1>11. ASSUME UNCHANGED <<unsure, labels, logs>> PROVE Result
  BY <1>11 DEF Result, Outcomes, Survivors
<1>12. ASSUME StartReplay \/ UNCHANGED vars PROVE Result
  BY <1>12, <1>11 DEF StartReplay, vars, fileVars, logVars
<1>13. ASSUME ReplayRecords PROVE Result
  <2>1. phase = "replay" /\ phase' = "relabel" /\ disk' = Replayed(disk, log) /\ log' = log
    BY <1>13 DEF ReplayRecords, WriteFile, logVars
  <2>2. log.mark = "end"
    BY <2>1 DEF LogInv, RestartInv
  <2>3. Recovered(disk, label, log) = [image |-> disk', version |-> log.version]
    BY <2>1, <2>2 DEF Recovered, IsCommitted
  <2> QED
    BY <2>1, <2>3 DEF OutcomesInv, Result
<1>14. ASSUME ReplayLabel PROVE Result
  BY <1>14 DEF ReplayLabel, logVars, OutcomesInv, Result
<1>15. ASSUME ReplaySync PROVE Result
  <2>1. /\ phase = "resync" /\ phase' = "clear" /\ UNCHANGED <<disk, label, log>>
        /\ label = log.version /\ log.mark = "end" /\ WellFormed(log)
    BY <1>15 DEF ReplaySync, SyncFile, logVars, LogInv, TypeOK, RestartInv
  <2>2. label > 0
    BY <2>1 DEF WellFormed
  <2>3. AsItIs' = [image |-> disk, version |-> log.version]
    BY <2>1, <2>2 DEF LogInv, TypeOK, AsItIs
  <2> QED
    BY <2>1, <2>3 DEF OutcomesInv, Result
<1>16. ASSUME ReplayClear PROVE Result
  BY <1>16 DEF ReplayClear, fileVars, OutcomesInv, AsItIs, Result
<1>17. ASSUME InitializeDB PROVE Result
  <2>1. /\ phase = "initialize" /\ phase' = "idle" /\ disk' = disk
        /\ label' = IF label = 0 THEN 1 ELSE label
    BY <1>17 DEF InitializeDB
  <2>2. AsItIs' = AsItIs
    BY <2>1 DEF AsItIs
  <2> QED
    BY <2>1, <2>2 DEF OutcomesInv, Result
<1> QED
  BY <1>4, <1>5, <1>6, <1>7, <1>8, <1>9, <1>10, <1>12, <1>13, <1>14, <1>15, <1>16, <1>17
     DEF Next, Commit, Replay

(* A crash anywhere in udisk_commit, udisk_abort or ReplayLog leaves the database
   from before the transaction or all of it, with the label that goes with it. *)
THEOREM LogImplementsDatabase ==
    ASSUME PageSize = 1, NetworkOrder
    PROVE  Spec => ImplementsDatabase
<1>1. Init => DB!DatabaseInit
  BY LogInitRefines
<1>2. LogInv => OutcomesInv
  BY LogInvOutcomes
<1>3. LogInv /\ LogInv' /\ OutcomesInv /\ OutcomesInv' /\ [Next]_vars =>
          [DB!DatabaseNext]_Outcomes
  BY LogStepRefines
<1> QED
  BY <1>1, <1>2, <1>3, LogInvariant, PTL DEF Spec, ImplementsDatabase, DB!DatabaseSpec

=============================================================================
