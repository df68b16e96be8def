--------------------------- MODULE UbikLockProofs ---------------------------
(***************************************************************************)
(* For any clients, handlers and bounds, UbikLock keeps its types, locks   *)
(* exclude, transactions are counted and no wakeup is lost.  The inductive *)
(* invariant adds to these properties that a client is in its transaction  *)
(* exactly while that is on dbase->activeTrans, and what calls refer to.   *)
(* A second one, on top of it, shows that nobody else changes the database *)
(* while a transaction has its lock, and a third one that nobody waits for *)
(* somebody who waits.                                                     *)
(***************************************************************************)
EXTENDS UbikLock, FiniteSetTheorems, TLAPS

States == {"idle", "begin", "beginWait", "open", "lock", "lockWait", "locked", "failed",
           "committing", "send", "sendWait", "sending", "bulk", "relock"}

\* The states of a client that is in a transaction.
InTrans == {"open", "lock", "lockWait", "locked", "failed", "committing"}

Writers == {t \in live : Kind(t) = "write"}
Readers == {t \in live : Kind(t) = "read"}

ThreadTypes ==
    /\ at \in [Thread -> States]
    /\ on \in [Thread -> Trans \cup {Nobody}]
    /\ kind \in [Client -> {"read", "write"}]
    /\ rounds \in [Client \cup {Recovery} -> Nat]
    /\ \A th \in Client \cup {Recovery} : rounds[th] <= MaxRounds[th]
    /\ seen \in [Client -> Nat]

TransTypes ==
    /\ live \subseteq Trans /\ IsFiniteSet(live)
    /\ done \subseteq live /\ want \subseteq live
    /\ held \subseteq [trans : live, type : {"read", "write"}]
    /\ writing \in BOOLEAN

RemoteTypes ==
    /\ current \in {Nobody} \cup (live \ Client)
    /\ ptr \in [Handler -> 0 .. MaxTid]
    /\ call \in [tid : 0 .. MaxTid, phase : {"over", "calling", "updated", "committed"},
                 by : Handler \cup {Nobody}]
    /\ site \in BOOLEAN /\ late \in BOOLEAN /\ version \in Nat

\* At most one transaction writes, and the others are counted.
Counted ==
    /\ writing => \E w \in live : Writers = {w}
    /\ ~writing => Writers = {}
    /\ readers = Cardinality(Readers)

\* What a client has begun, and as what.
ClientsIn ==
    \A c \in Client :
        /\ c \in live <=> at[c] \in InTrans
        /\ at[c] \in {"begin", "beginWait"} => kind[c] = "write"
        /\ at[c] = "committing" => kind[c] = "write"

\* Calls are about a transaction.
CallsRefer ==
    /\ \A h \in Handler : at[h] = "bulk" => ptr[h] # 0
    /\ call.phase # "over" \/ call.by # Nobody => call.tid # 0

LockInv ==
    /\ ThreadTypes /\ TransTypes /\ RemoteTypes
    /\ Counted /\ ClientsIn /\ CallsRefer
    /\ Exclusion /\ SleepersAreWoken
-----------------------------------------------------------------------------
(* Nobody is no transaction, clients are not numbers, and threads of different *)
(* kinds are different.                                                        *)
LEMMA Distinct ==
    /\ Client \subseteq Thread /\ Handler \subseteq Thread /\ Recovery \in Thread
    /\ Client \subseteq Trans /\ (1 .. MaxTid) \subseteq Trans
    /\ Client \cap (0 .. MaxTid) = {} /\ Nobody \notin Trans /\ Nobody \notin Thread
    /\ Client \cap Handler = {} /\ Recovery \notin Client /\ Recovery \notin Handler
    /\ MaxTid \in Nat /\ 0 \in 0 .. MaxTid /\ (1 .. MaxTid) \subseteq 0 .. MaxTid
BY LockAssumption DEF Thread, Trans, Nobody

(* A transaction either reads or writes, and those of others write.        *)
LEMMA KindOf ==
    ASSUME LockInv, NEW t \in live
    PROVE  /\ Kind(t) \in {"read", "write"}
           /\ t \notin Client => Kind(t) = "write"
BY DEF LockInv, ThreadTypes, Kind

(* udisk_end takes one transaction from the list and from the counts,      *)
(* whatever its type.                                                      *)
LEMMA EndCounts ==
    ASSUME LockInv, NEW t \in live, End(t), kind' = kind
    PROVE  live' = live \ {t} /\ Counted' /\ TransTypes'
<1> USE DEF LockInv
<1>1. live' = live \ {t}
    BY DEF End
<1>2. \A u \in live : Kind(u)' = Kind(u)
    BY DEF Kind
<1>3. Writers' = Writers \ {t} /\ Readers' = Readers \ {t}
    BY <1>1, <1>2 DEF Writers, Readers
<1>4. IsFiniteSet(Readers) /\ Cardinality(Readers) \in Nat
  <2>1. Readers \in SUBSET live
      BY DEF Readers
  <2> QED
      BY <2>1, FS_Subset, FS_CardinalityType DEF TransTypes
<1>5. Counted'
  <2>1. CASE Kind(t) = "write"
    <3>1. t \in Writers /\ t \notin Readers
        BY <2>1 DEF Writers, Readers
    <3>2. writing /\ Writers = {t}
        BY <3>1 DEF Counted
    <3>3. ~writing' /\ readers' = readers
        BY <2>1, <3>2 DEF End
    <3>4. Writers' = {} /\ Readers' = Readers
        BY <1>3, <3>1, <3>2
    <3> QED
        BY <3>3, <3>4 DEF Counted
  <2>2. CASE Kind(t) # "write"
    <3>1. t \in Readers /\ t \notin Writers
        BY <2>2, KindOf DEF Writers, Readers
    <3>2. writing' = writing /\ readers' = readers - 1
        BY <2>2 DEF End
    <3>3. Cardinality(Readers') = Cardinality(Readers) - 1
        BY <1>3, <1>4, <3>1, FS_RemoveElement
    <3>4. Writers' = Writers
        BY <1>3, <3>1
    <3>5. writing => \E w \in live' : Writers' = {w}
      <4> SUFFICES ASSUME writing PROVE \E w \in live' : Writers' = {w}
          OBVIOUS
      <4>1. PICK w \in live : Writers = {w}
          BY DEF Counted
      <4>2. w # t
          BY <4>1, <3>1
      <4> QED
          BY <4>1, <4>2, <3>4, <1>1
    <3> QED
        BY <3>2, <3>3, <3>4, <3>5 DEF Counted
  <2> QED
      BY <2>1, <2>2
<1>6. TransTypes'
  <2>1. IsFiniteSet(live')
      BY <1>1, FS_RemoveElement DEF TransTypes
  <2>2. held' \subseteq [trans : live', type : {"read", "write"}]
      BY <1>1 DEF TransTypes, End
  <2>3. writing' \in BOOLEAN
      BY DEF TransTypes, End
  <2> QED
      BY <1>1, <2>1, <2>2, <2>3 DEF TransTypes, End
<1> QED
    BY <1>1, <1>5, <1>6

(* A wakeup moves sleepers only, and leaves clients in their transactions. *)
LEMMA WokenStates ==
    ASSUME LockInv, NEW t
    PROVE  /\ Woken(t) \in [Thread -> States]
           /\ \A th \in Thread :
                 /\ Woken(t)[th] \in InTrans <=> at[th] \in InTrans
                 /\ Woken(t)[th] \notin {"beginWait", "sendWait"}
                 /\ Woken(t)[th] \in {"begin", "beginWait"}
                        <=> at[th] \in {"begin", "beginWait"}
                 /\ Woken(t)[th] \in {"bulk", "relock", "committing", "idle", "locked",
                                      "lockWait"}
                        => Woken(t)[th] = at[th]
                 /\ Woken(t)[th] = "lockWait" => ~(on[th] = t /\ t \in want)
BY DEF LockInv, ThreadTypes, Woken, States, InTrans

(* Whoever still sleeps after udisk_end sleeps on another transaction.     *)
LEMMA EndWakes ==
    ASSUME LockInv, NEW t \in live, End(t), kind' = kind,
           \A th \in Thread : at'[th] \in {Woken(t)[th], "idle"}
    PROVE  /\ Exclusion' /\ SleepersAreWoken'
           /\ on' \in [Thread -> Trans \cup {Nobody}]
<1> USE DEF LockInv
<1>1. Exclusion'
    BY DEF Exclusion, End
<1>2. on' \in [Thread -> Trans \cup {Nobody}]
    BY DEF End, ThreadTypes
<1>3. SleepersAreWoken'
  <2> SUFFICES ASSUME NEW th \in Thread
               PROVE  /\ at'[th] \in {"beginWait", "sendWait"} => writing'
                      /\ at'[th] = "lockWait" =>
                           on'[th] \in want' /\ \E l \in held' : l.trans = on'[th]
      BY DEF SleepersAreWoken
  <2>1. at'[th] \notin {"beginWait", "sendWait"}
      BY WokenStates
  <2>2. ASSUME at'[th] = "lockWait"
        PROVE  on'[th] \in want' /\ \E l \in held' : l.trans = on'[th]
    <3>1. Woken(t)[th] = "lockWait"
        BY <2>2
    <3>2. at[th] = "lockWait" /\ ~(on[th] = t /\ t \in want)
        BY <3>1, WokenStates
    <3>3. on[th] \in want /\ \E l \in held : l.trans = on[th]
        BY <3>2 DEF SleepersAreWoken
    <3>4. on'[th] = on[th] /\ on[th] # t
        BY <3>1, <3>2, <3>3 DEF End
    <3> QED
        BY <3>3, <3>4 DEF End
  <2> QED
      BY <2>1, <2>2
<1> QED
    BY <1>1, <1>2, <1>3

(* udisk_begin for a client that is in no transaction.                     *)
LEMMA BeginCounts ==
    ASSUME LockInv, NEW c \in Client, c \notin live, NEW type \in {"read", "write"},
           type = "write" => ~writing, BeginLocal(c, type),
           kind' \in [Client -> {"read", "write"}], kind'[c] = type,
           \A d \in Client \ {c} : kind'[d] = kind[d]
    PROVE  live' = live \cup {c} /\ Counted' /\ TransTypes'
<1> USE DEF LockInv
<1>1. live' = live \cup {c} /\ c \in Trans
    BY Distinct DEF BeginLocal
<1>2. \A u \in live : Kind(u)' = Kind(u)
    BY DEF Kind
<1>3. Kind(c)' = type
    BY DEF Kind
<1>4. /\ Writers' = IF type = "write" THEN Writers \cup {c} ELSE Writers
      /\ Readers' = IF type = "read" THEN Readers \cup {c} ELSE Readers
    BY <1>1, <1>2, <1>3 DEF Writers, Readers
<1>5. IsFiniteSet(Readers) /\ c \notin Readers
  <2>1. Readers \in SUBSET live
      BY DEF Readers
  <2> QED
      BY <2>1, FS_Subset DEF TransTypes
<1>6. TransTypes'
  <2>1. IsFiniteSet(live')
      BY <1>1, FS_AddElement DEF TransTypes
  <2> QED
      BY <1>1, <2>1 DEF TransTypes, BeginLocal
<1>7. CASE type = "write"
  <2>1. Writers = {}
      BY <1>7 DEF Counted
  <2>2. Writers' = {c} /\ Readers' = Readers
      BY <1>4, <1>7, <2>1
  <2>3. writing' /\ readers' = readers
      BY <1>7 DEF BeginLocal
  <2> QED
      BY <1>1, <1>6, <2>2, <2>3 DEF Counted
<1>8. CASE type = "read"
  <2>1. writing' = writing /\ readers' = readers + 1
      BY <1>8 DEF BeginLocal
  <2>2. Writers' = Writers /\ Readers' = Readers \cup {c}
      BY <1>4, <1>8
  <2>3. Cardinality(Readers') = Cardinality(Readers) + 1
      BY <2>2, <1>5, FS_AddElement
  <2>4. Counted'
      BY <1>1, <2>1, <2>2, <2>3 DEF Counted
  <2> QED
      BY <1>1, <1>6, <2>4
<1> QED
    BY <1>7, <1>8

(* A transaction that waits for a lock says so, and one that gets a lock   *)
(* shares it with none that excludes it.                                   *)
LEMMA Locking ==
    ASSUME LockInv, NEW th \in Thread, NEW t \in live, NEW type \in {"read", "write"},
           NEW pc \in States \ {"lockWait", "beginWait", "sendWait"},
           live' = live, writing' = writing, done' \subseteq live,
           Sleep(th, type) \/ Grant(th, t, type, pc)
    PROVE  TransTypes' /\ Exclusion' /\ SleepersAreWoken'
           /\ on' \in [Thread -> Trans \cup {Nobody}]
           /\ at' \in [Thread -> States]
<1> USE DEF LockInv
<1>1. CASE Sleep(th, type)
  <2>1. PICK l \in Conflicts(type) :
            want' = want \cup {l.trans} /\ on' = [on EXCEPT ![th] = l.trans]
      BY <1>1 DEF Sleep
  <2>2. l \in held /\ l.trans \in live /\ l.trans \in Trans
      BY <2>1 DEF Conflicts, TransTypes
  <2>3. at' = [at EXCEPT ![th] = "lockWait"] /\ held' = held
      BY <1>1 DEF Sleep
  <2>4. SleepersAreWoken'
      BY <2>1, <2>2, <2>3 DEF SleepersAreWoken, ThreadTypes
  <2> QED
      BY <2>1, <2>2, <2>3, <2>4 DEF TransTypes, ThreadTypes, Exclusion, States
<1>2. CASE Grant(th, t, type, pc)
  <2>1. /\ held' = held \cup {[trans |-> t, type |-> type]}
        /\ at' = [at EXCEPT ![th] = pc] /\ want' = want /\ on' = on
      BY <1>2 DEF Grant
  <2>2. Exclusion'
    <3>1. \A l \in held : type # "write" /\ l.type # "write"
        BY <1>2 DEF Grant, Conflicts
    <3> QED
        BY <2>1, <3>1 DEF Exclusion
  <2>3. SleepersAreWoken'
      BY <2>1 DEF SleepersAreWoken, ThreadTypes
  <2> QED
      BY <2>1, <2>2, <2>3 DEF TransTypes, ThreadTypes
<1> QED
    BY <1>1, <1>2
-----------------------------------------------------------------------------
(* A server that has started has no transactions.                          *)
LEMMA LockInitially == Init => LockInv
<1> SUFFICES ASSUME Init PROVE LockInv
    OBVIOUS
<1> USE DEF Init
<1>1. ThreadTypes
    BY Distinct, LockAssumption DEF ThreadTypes, States
<1>2. TransTypes /\ Counted
  <2>1. Writers = {} /\ Readers = {}
      BY DEF Writers, Readers
  <2> QED
      BY <2>1, FS_EmptySet DEF TransTypes, Counted
<1>3. RemoteTypes
    BY Distinct DEF RemoteTypes, Nobody
<1>4. ClientsIn /\ CallsRefer
    BY Distinct DEF ClientsIn, CallsRefer, InTrans
<1>5. Exclusion /\ SleepersAreWoken
    BY DEF Exclusion, SleepersAreWoken
<1> QED
    BY <1>1, <1>2, <1>3, <1>4, <1>5 DEF LockInv

(* What is counted depends on the transactions and their types only.       *)
LEMMA SameCounts ==
    ASSUME LockInv, live' = live, writing' = writing, readers' = readers, kind' = kind
    PROVE  Counted'
<1>1. Writers' = Writers /\ Readers' = Readers
    BY DEF Writers, Readers, Kind
<1> QED
    BY <1>1 DEF LockInv, Counted

(* ubik_BeginTrans and ubik_BeginTransReadAny.                             *)
LEMMA BeginKeeps ==
    ASSUME LockInv, NEW c \in Client, NEW type \in {"read", "write"}, Begin(c, type)
    PROVE  LockInv'
<1> USE DEF LockInv
<1>1. /\ at[c] = "idle" /\ c \notin live /\ c \in Thread
      /\ kind' = [kind EXCEPT ![c] = type]
    BY Distinct DEF Begin, ClientsIn, InTrans
<1>2. kind' \in [Client -> {"read", "write"}] /\ kind'[c] = type
      /\ \A d \in Client \ {c} : kind'[d] = kind[d]
    BY <1>1 DEF ThreadTypes
<1>3. PICK pc \in {"beginWait", "open"} : at' = [at EXCEPT ![c] = pc]
    BY DEF Begin
<1>4. ThreadTypes'
  <2>1. at' \in [Thread -> States]
      BY <1>1, <1>3 DEF ThreadTypes, States
  <2>2. rounds' \in [Client \cup {Recovery} -> Nat]
        /\ \A th \in Client \cup {Recovery} : rounds'[th] <= MaxRounds[th]
    <3>1. rounds[c] \in Nat /\ MaxRounds[c] \in Nat /\ rounds[c] < MaxRounds[c]
        BY LockAssumption DEF Begin, ThreadTypes
    <3>2. rounds[c] + 1 \in Nat /\ rounds[c] + 1 <= MaxRounds[c]
        BY <3>1
    <3>3. rounds' = [rounds EXCEPT ![c] = rounds[c] + 1]
        BY DEF Begin
    <3> QED
        BY <3>2, <3>3 DEF ThreadTypes
  <2> QED
      BY <1>2, <2>1, <2>2 DEF Begin, ThreadTypes
<1>5. Exclusion' /\ RemoteTypes' /\ CallsRefer'
  <2>1. UNCHANGED <<held, current, ptr, call, site, late, version>>
      BY DEF Begin, BeginLocal, transVars, remoteVars
  <2>2. \A h \in Handler : at'[h] = at[h]
      BY <1>3, Distinct DEF ThreadTypes
  <2>3. live \subseteq live'
      BY DEF Begin, BeginLocal, transVars
  <2> QED
      BY <2>1, <2>2, <2>3 DEF Exclusion, RemoteTypes, CallsRefer
<1>6. CASE type = "write" /\ writing
  <2>1. UNCHANGED transVars /\ UNCHANGED on /\ at' = [at EXCEPT ![c] = "beginWait"]
      BY <1>6 DEF Begin
  <2>2. \A t \in live : Kind(t)' = Kind(t)
      BY <1>1, <1>2 DEF Kind
  <2>3. Writers' = Writers /\ Readers' = Readers
      BY <2>1, <2>2 DEF Writers, Readers, transVars
  <2>4. Counted' /\ TransTypes'
      BY <2>1, <2>3 DEF Counted, TransTypes, transVars
  <2>5. ClientsIn'
      BY <1>1, <1>2, <1>6, <2>1, Distinct DEF ClientsIn, InTrans, ThreadTypes, transVars
  <2>6. SleepersAreWoken'
      BY <1>1, <1>6, <2>1 DEF SleepersAreWoken, ThreadTypes, transVars
  <2> QED
      BY <1>4, <1>5, <2>4, <2>5, <2>6
<1>7. CASE ~(type = "write" /\ writing)
  <2>1. BeginLocal(c, type) /\ UNCHANGED on /\ at' = [at EXCEPT ![c] = "open"]
      BY <1>7 DEF Begin
  <2>2. live' = live \cup {c} /\ Counted' /\ TransTypes'
      BY <1>1, <1>2, <1>7, <2>1, BeginCounts
  <2>3. ClientsIn'
      BY <1>1, <1>2, <2>1, <2>2, Distinct DEF ClientsIn, InTrans, ThreadTypes
  <2>4. SleepersAreWoken'
    <3>1. (writing => writing') /\ UNCHANGED <<held, want>>
        BY <2>1 DEF BeginLocal
    <3> QED
        BY <1>1, <2>1, <3>1 DEF SleepersAreWoken, ThreadTypes
  <2> QED
      BY <1>4, <1>5, <2>2, <2>3, <2>4
<1> QED
    BY <1>6, <1>7

(* ubik_BeginTrans after its sleep.                                        *)
LEMMA BeginAwakeKeeps ==
    ASSUME LockInv, NEW c \in Client, BeginAwake(c)
    PROVE  LockInv'
<1> USE DEF LockInv
<1>1. /\ at[c] = "begin" /\ c \notin live /\ c \in Thread /\ kind[c] = "write"
      /\ UNCHANGED <<kind, rounds, seen, on, ptr, call, site, version, late, current>>
    BY Distinct DEF BeginAwake, ClientsIn, InTrans, BeginLocal, transVars, clientVars,
                    remoteVars
<1>2. PICK pc \in {"beginWait", "idle", "open"} : at' = [at EXCEPT ![c] = pc]
    BY DEF BeginAwake
<1>3. ThreadTypes'
    BY <1>1, <1>2 DEF ThreadTypes, States
<1>4. Exclusion' /\ RemoteTypes' /\ CallsRefer'
  <2>1. held' = held /\ live \subseteq live'
      BY DEF BeginAwake, BeginLocal, transVars
  <2>2. \A h \in Handler : at'[h] = at[h]
      BY <1>1, <1>2, Distinct DEF ThreadTypes
  <2> QED
      BY <1>1, <2>1, <2>2 DEF Exclusion, RemoteTypes, CallsRefer
<1>5. CASE UNCHANGED transVars /\ pc # "open" /\ (pc = "beginWait" => writing)
  <2>1. Counted' /\ TransTypes'
      BY <1>1, <1>5, SameCounts DEF transVars, TransTypes
  <2>2. ClientsIn'
      BY <1>1, <1>2, <1>5 DEF ClientsIn, InTrans, ThreadTypes, transVars
  <2>3. SleepersAreWoken'
      BY <1>1, <1>2, <1>5 DEF SleepersAreWoken, ThreadTypes, transVars
  <2> QED
      BY <1>3, <1>4, <2>1, <2>2, <2>3
<1>6. CASE ~writing /\ BeginLocal(c, "write") /\ pc = "open"
  <2>1. live' = live \cup {c} /\ Counted' /\ TransTypes'
    <3>1. kind' \in [Client -> {"read", "write"}] /\ kind'[c] = "write"
        BY <1>1 DEF ThreadTypes
    <3> QED
        BY <1>1, <1>6, <3>1, BeginCounts
  <2>2. ClientsIn'
      BY <1>1, <1>2, <1>6, <2>1 DEF ClientsIn, InTrans, ThreadTypes
  <2>3. SleepersAreWoken'
    <3>1. writing' /\ UNCHANGED <<held, want>>
        BY <1>6 DEF BeginLocal
    <3> QED
        BY <1>1, <1>2, <1>6, <3>1 DEF SleepersAreWoken, ThreadTypes
  <2> QED
      BY <1>3, <1>4, <2>1, <2>2, <2>3
<1> QED
  <2>1. at' = [at EXCEPT ![c] = pc] /\ at'[c] = pc
      BY <1>1, <1>2 DEF ThreadTypes
  <2>2. CASE writing
    <3>1. at' = [at EXCEPT ![c] = "beginWait"] /\ UNCHANGED transVars
        BY <2>2 DEF BeginAwake
    <3> QED
        BY <1>1, <1>5, <2>1, <2>2, <3>1 DEF ThreadTypes
  <2>3. CASE ~writing /\ ~site
    <3>1. at' = [at EXCEPT ![c] = "idle"] /\ UNCHANGED transVars
        BY <2>3 DEF BeginAwake
    <3> QED
        BY <1>1, <1>5, <2>1, <3>1 DEF ThreadTypes
  <2>4. CASE ~writing /\ site
    <3>1. at' = [at EXCEPT ![c] = "open"] /\ BeginLocal(c, "write")
        BY <2>4 DEF BeginAwake
    <3> QED
        BY <1>1, <1>6, <2>1, <2>4, <3>1 DEF ThreadTypes
  <2> QED
      BY <2>2, <2>3, <2>4

(* ubik_SetLock.                                                           *)
LEMMA SetLockKeeps ==
    ASSUME LockInv, NEW c \in Client, SetLock(c)
    PROVE  LockInv'
<1> USE DEF LockInv
<1>1. /\ c \in live /\ c \in Thread /\ at[c] \in {"open", "lock"}
      /\ kind[c] \in {"read", "write"}
      /\ UNCHANGED <<live, done, writing, readers, current, kind, rounds, ptr, call, site,
                     version, late>>
    BY Distinct DEF SetLock, ClientsIn, InTrans, remoteVars, ThreadTypes
<1>2. seen' \in [Client -> Nat]
    BY DEF SetLock, ThreadTypes, RemoteTypes
<1>3. /\ on' \in [Thread -> Trans \cup {Nobody}] /\ at' \in [Thread -> States]
      /\ TransTypes' /\ Exclusion' /\ SleepersAreWoken'
      /\ \E pc \in {"failed", "lockWait", "locked"} : at' = [at EXCEPT ![c] = pc]
  <2>1. CASE at' = [at EXCEPT ![c] = "failed"] /\ UNCHANGED <<held, want, on, seen>>
      BY <1>1, <2>1 DEF TransTypes, Exclusion, SleepersAreWoken, ThreadTypes, States
  <2>2. CASE Sleep(c, kind[c]) \/ Grant(c, c, kind[c], "locked")
    <3>1. "locked" \in States \ {"lockWait", "beginWait", "sendWait"} /\ done' \subseteq live
        BY <1>1 DEF States, TransTypes
    <3>2. \E pc \in {"failed", "lockWait", "locked"} : at' = [at EXCEPT ![c] = pc]
        BY <2>2 DEF Sleep, Grant
    <3> QED
        BY <1>1, <2>2, <3>1, <3>2, Locking
  <2> QED
      BY <2>1, <2>2 DEF SetLock
<1>4. ThreadTypes' /\ RemoteTypes'
    BY <1>1, <1>2, <1>3 DEF ThreadTypes, RemoteTypes
<1>5. Counted'
    BY <1>1, SameCounts
<1>6. ClientsIn' /\ CallsRefer'
    BY <1>1, <1>3, Distinct DEF ClientsIn, CallsRefer, InTrans, ThreadTypes
<1> QED
    BY <1>3, <1>4, <1>5, <1>6

(* udisk_end of a client's own transaction.                                *)
LEMMA EndOwnKeeps ==
    ASSUME LockInv, NEW c \in Client, c \in live, End(c), kind' = kind,
           at' = [Woken(c) EXCEPT ![c] = "idle"], seen' = [seen EXCEPT ![c] = 0],
           version' \in Nat,
           UNCHANGED <<current, rounds, ptr, call, site, late>>
    PROVE  LockInv'
<1> USE DEF LockInv
<1>1. live' = live \ {c} /\ Counted' /\ TransTypes'
    BY EndCounts
<1>2. /\ Woken(c) \in [Thread -> States] /\ c \in Thread
      /\ \A th \in Thread : at'[th] = IF th = c THEN "idle" ELSE Woken(c)[th]
    BY Distinct, WokenStates
<1>3. Exclusion' /\ SleepersAreWoken' /\ on' \in [Thread -> Trans \cup {Nobody}]
    BY <1>2, EndWakes
<1>4. ThreadTypes'
    BY <1>2, <1>3 DEF ThreadTypes, States
<1>5. RemoteTypes'
    BY <1>1 DEF RemoteTypes
<1>6. ClientsIn'
  <2> SUFFICES ASSUME NEW d \in Client
               PROVE  /\ d \in live' <=> at'[d] \in InTrans
                      /\ at'[d] \in {"begin", "beginWait"} => kind[d] = "write"
                      /\ at'[d] = "committing" => kind[d] = "write"
      BY DEF ClientsIn
  <2>1. CASE d = c
      BY <1>1, <1>2, <2>1 DEF InTrans
  <2>2. CASE d # c
    <3>1. at'[d] = Woken(c)[d] /\ d \in Thread
        BY <1>2, <2>2, Distinct
    <3> QED
        BY <1>1, <2>2, <3>1, WokenStates DEF ClientsIn
  <2> QED
      BY <2>1, <2>2
<1>7. CallsRefer'
  <2>1. \A h \in Handler : at'[h] = "bulk" => at[h] = "bulk"
    <3> SUFFICES ASSUME NEW h \in Handler, at'[h] = "bulk" PROVE at[h] = "bulk"
        OBVIOUS
    <3>1. h \in Thread /\ h # c
        BY Distinct
    <3> QED
        BY <1>2, <3>1, WokenStates
  <2> QED
      BY <2>1 DEF CallsRefer
<1> QED
    BY <1>1, <1>3, <1>4, <1>5, <1>6, <1>7

(* ubik_EndTrans, udisk_commit and ubik_AbortTrans.                        *)
LEMMA ClientEndKeeps ==
    ASSUME LockInv, NEW c \in Client, EndTrans(c) \/ Commit(c) \/ Abort(c)
    PROVE  LockInv'
<1> USE DEF LockInv
<1>1. CASE EndTrans(c)
  <2>1. /\ at[c] = "locked" /\ kind[c] = "write" /\ c \in Thread
        /\ at' = [at EXCEPT ![c] = "committing"]
        /\ UNCHANGED <<live, done, writing, readers, held, want, current, on, kind, rounds,
                       seen, ptr, call, site, version, late>>
      BY <1>1, Distinct DEF EndTrans, transVars, clientVars, remoteVars
  <2>2. ThreadTypes' /\ TransTypes' /\ RemoteTypes'
      BY <2>1 DEF ThreadTypes, TransTypes, RemoteTypes, States
  <2>3. Counted'
      BY <2>1, SameCounts
  <2>4. ClientsIn' /\ CallsRefer'
      BY <2>1, Distinct DEF ClientsIn, CallsRefer, InTrans, ThreadTypes
  <2>5. Exclusion' /\ SleepersAreWoken'
      BY <2>1 DEF Exclusion, SleepersAreWoken, ThreadTypes
  <2> QED
      BY <2>2, <2>3, <2>4, <2>5
<1>2. CASE Commit(c)
  <2>1. c \in live
      BY <1>2 DEF Commit, ClientsIn, InTrans
  <2>2. version' \in Nat
      BY <1>2 DEF Commit, RemoteTypes
  <2> QED
      BY <1>2, <2>1, <2>2, EndOwnKeeps DEF Commit, remoteVars
<1>3. CASE Abort(c)
  <2>1. c \in live
      BY <1>3 DEF Abort, ClientsIn, InTrans
  <2>2. version' \in Nat
      BY <1>3 DEF Abort, RemoteTypes
  <2> QED
      BY <1>3, <2>1, <2>2, EndOwnKeeps DEF Abort, remoteVars
<1> QED
    BY <1>1, <1>2, <1>3

(* The waits and the remote calls of recovery.                             *)
LEMMA RecoveryKeeps ==
    ASSUME LockInv, SendStart \/ SendEnd
    PROVE  LockInv'
<1> USE DEF LockInv
<1>1. /\ UNCHANGED <<live, done, writing, readers, held, want, current, on, kind, seen, ptr,
                     call, site, version, late>>
      /\ Recovery \in Thread
    BY Distinct DEF SendStart, SendEnd, transVars, clientVars, remoteVars
<1>2. PICK pc \in {"sendWait", "sending", "idle"} :
          at' = [at EXCEPT ![Recovery] = pc] /\ (pc = "sendWait" => writing)
    BY DEF SendStart, SendEnd
<1>3. ThreadTypes'
  <2>1. /\ rounds' \in [Client \cup {Recovery} -> Nat]
        /\ \A th \in Client \cup {Recovery} : rounds'[th] <= MaxRounds[th]
    <3>1. CASE rounds' = rounds
        BY <3>1 DEF ThreadTypes
    <3>2. CASE /\ rounds' = [rounds EXCEPT ![Recovery] = rounds[Recovery] + 1]
               /\ rounds[Recovery] < MaxRounds[Recovery]
      <4>1. rounds[Recovery] \in Nat /\ MaxRounds[Recovery] \in Nat
          BY LockAssumption DEF ThreadTypes
      <4>2. rounds[Recovery] + 1 \in Nat /\ rounds[Recovery] + 1 <= MaxRounds[Recovery]
          BY <3>2, <4>1
      <4> QED
          BY <3>2, <4>2 DEF ThreadTypes
    <3> QED
        BY <3>1, <3>2 DEF SendStart, SendEnd, clientVars
  <2> QED
      BY <1>1, <1>2, <2>1 DEF ThreadTypes, States
<1>4. TransTypes' /\ RemoteTypes'
    BY <1>1 DEF TransTypes, RemoteTypes
<1>5. Counted'
    BY <1>1, SameCounts
<1>6. ClientsIn' /\ CallsRefer'
    BY <1>1, <1>2, Distinct DEF ClientsIn, CallsRefer, InTrans, ThreadTypes
<1>7. Exclusion' /\ SleepersAreWoken'
    BY <1>1, <1>2 DEF Exclusion, SleepersAreWoken, ThreadTypes
<1> QED
    BY <1>3, <1>4, <1>5, <1>6, <1>7

(* Steps of the remote sync site that leave the transactions alone.        *)
LEMMA CallingKeeps ==
    ASSUME LockInv, Lapse \/ GiveUp \/ SendFile \/ \E h \in Handler : Call(h)
    PROVE  LockInv'
<1> USE DEF LockInv
<1>1. /\ UNCHANGED <<live, writing, readers, held, want, current, on, kind, rounds, seen>>
      /\ done' \subseteq live
    BY DEF Lapse, GiveUp, SendFile, Call, transVars, clientVars, TransTypes
<1>2. CASE Lapse \/ GiveUp \/ SendFile
  <2>1. UNCHANGED <<at, ptr>>
      BY <1>2 DEF Lapse, GiveUp, SendFile, transVars, remoteVars
  <2>2. RemoteTypes' /\ CallsRefer'
    <3>1. CASE Lapse
        BY <1>1, <2>1, <3>1 DEF Lapse, RemoteTypes, CallsRefer, remoteVars
    <3>2. CASE GiveUp
        BY <1>1, <2>1, <3>2 DEF GiveUp, RemoteTypes, CallsRefer
    <3>3. CASE SendFile
        BY <1>1, <2>1, <3>3 DEF SendFile, RemoteTypes, CallsRefer, remoteVars
    <3> QED
        BY <1>2, <3>1, <3>2, <3>3
  <2>3. ThreadTypes' /\ TransTypes'
      BY <1>1, <2>1 DEF ThreadTypes, TransTypes
  <2>4. ClientsIn' /\ Exclusion' /\ SleepersAreWoken'
      BY <1>1, <2>1 DEF ClientsIn, Exclusion, SleepersAreWoken
  <2> QED
      BY <1>1, <2>2, <2>3, <2>4, SameCounts
<1>3. ASSUME NEW h \in Handler, Call(h)
      PROVE  LockInv'
  <2>1. /\ h \in Thread /\ at' = [at EXCEPT ![h] = "bulk"]
        /\ call' = [tid |-> call.tid + 1, phase |-> "calling", by |-> h]
        /\ ptr' = [ptr EXCEPT ![h] = call.tid + 1]
        /\ UNCHANGED <<site, version, late>>
      BY <1>3, Distinct DEF Call
  <2>2. call.tid + 1 \in 0 .. MaxTid /\ call.tid + 1 # 0
      BY <1>3, Distinct DEF Call, RemoteTypes
  <2>3. RemoteTypes' /\ CallsRefer'
      BY <1>1, <2>1, <2>2, Distinct DEF RemoteTypes, CallsRefer, ThreadTypes
  <2>4. ThreadTypes' /\ TransTypes'
      BY <1>1, <2>1 DEF ThreadTypes, TransTypes, States
  <2>5. ClientsIn'
      BY <1>1, <2>1, Distinct DEF ClientsIn, InTrans, ThreadTypes
  <2>6. Exclusion' /\ SleepersAreWoken'
      BY <1>1, <2>1 DEF Exclusion, SleepersAreWoken, ThreadTypes
  <2> QED
      BY <1>1, <2>3, <2>4, <2>5, <2>6, SameCounts
<1> QED
    BY <1>2, <1>3

(* udisk_end of ubik_currentTrans, for a call or for a beacon.             *)
LEMMA EndRemoteKeeps ==
    ASSUME LockInv, current # Nobody, End(current), at' = Woken(current),
           current' = Nobody, call' = call \/ call' = [call EXCEPT !.phase = "over"],
           UNCHANGED <<kind, rounds, seen, ptr, site, version, late>>
    PROVE  LockInv'
<1> USE DEF LockInv
<1>1. current \in live /\ current \notin Client
    BY DEF RemoteTypes
<1>2. live' = live \ {current} /\ Counted' /\ TransTypes'
    BY <1>1, EndCounts
<1>3. /\ at' \in [Thread -> States]
      /\ Exclusion' /\ SleepersAreWoken' /\ on' \in [Thread -> Trans \cup {Nobody}]
    BY <1>1, WokenStates, EndWakes
<1>4. ThreadTypes'
    BY <1>3 DEF ThreadTypes
<1>5. RemoteTypes'
    BY DEF RemoteTypes
<1>6. ClientsIn'
  <2> SUFFICES ASSUME NEW d \in Client
               PROVE  /\ d \in live' <=> at'[d] \in InTrans
                      /\ at'[d] \in {"begin", "beginWait"} => kind[d] = "write"
                      /\ at'[d] = "committing" => kind[d] = "write"
      BY DEF ClientsIn
  <2>1. d \in Thread /\ d # current
      BY <1>1, Distinct
  <2> QED
      BY <1>2, <2>1, WokenStates DEF ClientsIn
<1>7. CallsRefer'
  <2>1. \A h \in Handler : at'[h] = "bulk" => at[h] = "bulk"
      BY Distinct, WokenStates
  <2>2. /\ call'.phase # "over" => call.phase # "over"
        /\ call'.tid = call.tid /\ call'.by = call.by
      BY DEF RemoteTypes
  <2> QED
      BY <2>1, <2>2 DEF CallsRefer
<1> QED
    BY <1>2, <1>3, <1>4, <1>5, <1>6, <1>7

(* SUBIKDISK_Commit, SUBIKDISK_ReleaseLocks and beacons.                   *)
LEMMA SiteKeeps ==
    ASSUME LockInv, SiteStep \/ Beacon
    PROVE  LockInv'
<1> USE DEF LockInv
<1>1. UNCHANGED <<kind, rounds, seen, ptr, site, late>>
    BY DEF SiteStep, RemoteCommit, ReleaseLocks, Beacon, clientVars, remoteVars
<1>2. CASE UNCHANGED <<at, live, writing, readers, held, want, current, on>>
           /\ done' \subseteq live /\ version' \in Nat
           /\ \E phase \in {"over", "committed"} :
                 call.phase # "over" /\ call' = [call EXCEPT !.phase = phase]
  <2>1. ThreadTypes' /\ TransTypes'
      BY <1>1, <1>2 DEF ThreadTypes, TransTypes
  <2>2. RemoteTypes' /\ CallsRefer'
      BY <1>1, <1>2 DEF RemoteTypes, CallsRefer
  <2>3. ClientsIn' /\ Exclusion' /\ SleepersAreWoken'
      BY <1>1, <1>2 DEF ClientsIn, Exclusion, SleepersAreWoken
  <2> QED
      BY <1>1, <1>2, <2>1, <2>2, <2>3, SameCounts
<1>3. CASE /\ current # Nobody /\ End(current) /\ at' = Woken(current)
           /\ current' = Nobody /\ version' = version
           /\ call' = call \/ call' = [call EXCEPT !.phase = "over"]
    BY <1>1, <1>3, EndRemoteKeeps
<1>4. CASE RemoteCommit
  <2>1. CASE current = call.tid /\ current \notin done
    <3>1. current \in live
        BY <1>4, <2>1 DEF RemoteCommit, RemoteTypes, CallsRefer, Nobody
    <3>2. UNCHANGED <<at, live, writing, readers, held, want, current, on>>
        BY <1>4, <2>1 DEF RemoteCommit
    <3>3. done' \subseteq live /\ version' \in Nat
        BY <1>4, <2>1, <3>1 DEF RemoteCommit, TransTypes, RemoteTypes
    <3> QED
        BY <1>2, <1>4, <2>1, <3>2, <3>3 DEF RemoteCommit
  <2>2. CASE ~(current = call.tid /\ current \notin done)
    <3>1. call.phase # "over" /\ call' = [call EXCEPT !.phase = "over"]
          /\ version' = version
        BY <1>4, <2>2 DEF RemoteCommit
    <3>2. CASE Older
        BY <1>3, <1>4, <2>2, <3>1, <3>2 DEF RemoteCommit, Older
    <3>3. CASE ~Older
      <4>1. UNCHANGED <<at, live, done, writing, readers, held, want, current, on>>
          BY <1>4, <2>2, <3>3 DEF RemoteCommit, transVars
      <4>2. done' \subseteq live /\ version' \in Nat
          BY <3>1, <4>1 DEF TransTypes, RemoteTypes
      <4> QED
          BY <1>2, <3>1, <4>1, <4>2
    <3> QED
        BY <3>2, <3>3
  <2> QED
      BY <2>1, <2>2
<1>5. CASE ReleaseLocks
  <2>1. call.phase # "over" /\ call' = [call EXCEPT !.phase = "over"]
        /\ version' = version
      BY <1>5 DEF ReleaseLocks
  <2>2. CASE current = Nobody
    <3>1. UNCHANGED <<at, live, done, writing, readers, held, want, current, on>>
        BY <1>5, <2>2 DEF ReleaseLocks, transVars
    <3>2. done' \subseteq live /\ version' \in Nat
        BY <2>1, <3>1 DEF TransTypes, RemoteTypes
    <3> QED
        BY <1>2, <2>1, <3>1, <3>2
  <2>3. CASE current # Nobody
      BY <1>3, <1>5, <2>1, <2>3 DEF ReleaseLocks
  <2> QED
      BY <2>2, <2>3
<1>6. CASE Beacon
    BY <1>3, <1>6 DEF Beacon, remoteVars
<1> QED
    BY <1>4, <1>5, <1>6 DEF SiteStep

(* The thread of a handler moves on, and its call may return.              *)
LEMMA HandlerMoves ==
    ASSUME LockInv, NEW h \in Handler,
           NEW pc \in {"idle", "relock", "lock", "lockWait"},
           at' = [at EXCEPT ![h] = pc],
           call' = call \/ Return(h, TRUE) \/ Return(h, FALSE),
           live' = live, current' = current, ptr' \in [Handler -> 0 .. MaxTid],
           ptr'[h] = ptr[h] \/ at[h] # "bulk", \A i \in Handler \ {h} : ptr'[i] = ptr[i],
           UNCHANGED <<kind, rounds, seen, site, version, late>>
    PROVE  RemoteTypes' /\ ClientsIn' /\ CallsRefer'
<1> USE DEF LockInv
<1>1. /\ h \in Thread /\ h \notin Client
      /\ \A th \in Thread : at'[th] = IF th = h THEN pc ELSE at[th]
    BY Distinct DEF ThreadTypes
<1>2. /\ call' \in [tid : 0 .. MaxTid,
                    phase : {"over", "calling", "updated", "committed"},
                    by : Handler \cup {Nobody}]
      /\ call'.tid = call.tid
      /\ call'.phase # "over" \/ call'.by # Nobody => call.tid # 0
  <2>1. CASE call' = call
      BY <2>1 DEF RemoteTypes, CallsRefer
  <2>2. CASE Return(h, TRUE) \/ Return(h, FALSE)
    <3>1. CASE call.by # h
        BY <2>2, <2>1, <3>1 DEF Return
    <3>2. CASE call.by = h
      <4>1. call.tid # 0
          BY <3>2, Distinct DEF CallsRefer
      <4>2. PICK phase \in {"updated", "over"} :
                call' = [call EXCEPT !.phase = phase, !.by = Nobody]
          BY <2>2, <3>2 DEF Return
      <4> QED
          BY <4>1, <4>2 DEF RemoteTypes
    <3> QED
        BY <3>1, <3>2
  <2> QED
      BY <2>1, <2>2
<1>3. RemoteTypes'
    BY <1>2 DEF RemoteTypes
<1>4. ClientsIn'
  <2>1. \A d \in Client : at'[d] = at[d]
      BY <1>1, Distinct
  <2> QED
      BY <2>1 DEF ClientsIn
<1>5. CallsRefer'
  <2>1. \A i \in Handler : at'[i] = "bulk" => i # h /\ at[i] = "bulk"
      BY <1>1, Distinct
  <2> QED
      BY <1>2, <2>1 DEF CallsRefer
<1> QED
    BY <1>3, <1>4, <1>5

(* UBULK_BEGIN of UBIKDISK_BulkUpdate.                                     *)
LEMMA BulkBeginKeeps ==
    ASSUME LockInv, NEW h \in Handler, BulkBegin(h)
    PROVE  LockInv'
<1> USE DEF LockInv
<1>1. /\ at[h] = "bulk" /\ ptr[h] \in 1 .. MaxTid /\ h \in Thread
      /\ UNCHANGED <<kind, rounds, seen, ptr, site, version, late>>
  <2>1. at[h] = "bulk" /\ UNCHANGED <<kind, rounds, seen, ptr, site, version, late>>
      BY DEF BulkBegin, clientVars
  <2>2. ptr[h] \in 0 .. MaxTid /\ ptr[h] # 0
      BY <2>1 DEF CallsRefer, RemoteTypes
  <2> QED
      BY <2>1, <2>2, Distinct
<1>2. CASE writing /\ current = Nobody
  <2>1. /\ at' = [at EXCEPT ![h] = "idle"] /\ Return(h, FALSE)
        /\ UNCHANGED <<live, done, writing, readers, held, want, current, on>>
      BY <1>2 DEF BulkBegin, transVars
  <2>2. RemoteTypes' /\ ClientsIn' /\ CallsRefer'
      BY <1>1, <2>1, HandlerMoves DEF RemoteTypes
  <2>3. ThreadTypes' /\ TransTypes' /\ Exclusion' /\ SleepersAreWoken'
      BY <1>1, <2>1 DEF ThreadTypes, TransTypes, Exclusion, SleepersAreWoken, States
  <2> QED
      BY <1>1, <2>1, <2>2, <2>3, SameCounts
<1>3. CASE ~(writing /\ current = Nobody)
  <2>1. /\ live' = (live \ {current}) \cup {ptr[h]} /\ done' = done \ {current}
        /\ held' = {l \in held : l.trans # current} /\ want' = want \ {current}
        /\ writing' = TRUE /\ current' = ptr[h] /\ readers' = readers /\ call' = call
        /\ at' = [Woken(current) EXCEPT ![h] = "relock"]
        /\ on' = [th \in Thread |-> IF Woken(current)[th] = "lockWait" THEN on[th]
                                    ELSE Nobody]
      BY <1>3 DEF BulkBegin
  <2>2. ptr[h] \in Trans \ Client /\ current \notin Client
      BY <1>1, Distinct DEF RemoteTypes
  <2>3. /\ Woken(current) \in [Thread -> States]
        /\ \A th \in Thread : at'[th] = IF th = h THEN "relock" ELSE Woken(current)[th]
      BY <1>1, <2>1, WokenStates
  <2>4. Writers \subseteq {current} /\ (current # Nobody => current \in Writers)
    <3>1. CASE current = Nobody
      <4>1. Writers = {}
          BY <1>3, <3>1 DEF Counted
      <4> QED
          BY <3>1, <4>1
    <3>2. CASE current # Nobody
      <4>1. current \in Writers
          BY <2>2, <3>2 DEF RemoteTypes, Writers, Kind
      <4> QED
          BY <4>1 DEF Counted
    <3> QED
        BY <3>1, <3>2
  <2>5. Writers' = {ptr[h]} /\ Readers' = Readers
    <3>1. /\ Kind(ptr[h])' = "write"
          /\ \A u \in live : Kind(u)' = Kind(u)
        BY <1>1, <2>2 DEF Kind
    <3>2. Readers' = Readers
      <4>1. current \notin Readers /\ ptr[h] \notin Readers
          BY <2>2 DEF Readers, Kind
      <4> QED
          BY <1>1, <2>1, <3>1, <4>1 DEF Readers
    <3> QED
        BY <1>1, <2>1, <2>4, <3>1, <3>2 DEF Writers
  <2>6. Counted'
      BY <2>1, <2>5 DEF Counted
  <2>7. TransTypes'
    <3>1. IsFiniteSet(live')
        BY <2>1, FS_RemoveElement, FS_AddElement DEF TransTypes
    <3> QED
        BY <2>1, <2>2, <3>1 DEF TransTypes
  <2>8. ThreadTypes'
    <3>1. on' \in [Thread -> Trans \cup {Nobody}]
        BY <2>1 DEF ThreadTypes
    <3>2. at' \in [Thread -> States]
        BY <2>1, <2>3 DEF States
    <3> QED
        BY <1>1, <3>1, <3>2 DEF ThreadTypes
  <2>9. RemoteTypes'
      BY <1>1, <2>1, <2>2 DEF RemoteTypes
  <2>10. ClientsIn'
    <3> SUFFICES ASSUME NEW d \in Client
                 PROVE  /\ d \in live' <=> at'[d] \in InTrans
                        /\ at'[d] \in {"begin", "beginWait"} => kind[d] = "write"
                        /\ at'[d] = "committing" => kind[d] = "write"
        BY <1>1 DEF ClientsIn
    <3>1. d \in Thread /\ d # h /\ d # current /\ d # ptr[h]
        BY <2>2, Distinct
    <3>2. at'[d] = Woken(current)[d]
        BY <2>3, <3>1
    <3>3. d \in live' <=> d \in live
        BY <2>1, <3>1
    <3> QED
        BY <3>1, <3>2, <3>3, WokenStates DEF ClientsIn
  <2>11. CallsRefer'
    <3>1. \A i \in Handler : at'[i] = "bulk" => at[i] = "bulk"
        BY <2>3, Distinct, WokenStates
    <3> QED
        BY <1>1, <2>1, <3>1 DEF CallsRefer
  <2>12. Exclusion'
      BY <2>1 DEF Exclusion
  <2>13. SleepersAreWoken'
    <3> SUFFICES ASSUME NEW th \in Thread
                 PROVE  /\ at'[th] \in {"beginWait", "sendWait"} => writing'
                        /\ at'[th] = "lockWait" =>
                             on'[th] \in want' /\ \E l \in held' : l.trans = on'[th]
        BY DEF SleepersAreWoken
    <3>1. ASSUME at'[th] = "lockWait"
          PROVE  on'[th] \in want' /\ \E l \in held' : l.trans = on'[th]
      <4>1. Woken(current)[th] = "lockWait"
          BY <2>3, <3>1
      <4>2. at[th] = "lockWait" /\ ~(on[th] = current /\ current \in want)
          BY <4>1, WokenStates
      <4>3. on[th] \in want /\ \E l \in held : l.trans = on[th]
          BY <4>2 DEF SleepersAreWoken
      <4>4. on'[th] = on[th] /\ on[th] # current
          BY <2>1, <4>1, <4>2, <4>3
      <4> QED
          BY <2>1, <4>3, <4>4
    <3> QED
        BY <2>1, <3>1
  <2> QED
      BY <2>6, <2>7, <2>8, <2>9, <2>10, <2>11, <2>12, <2>13
<1> QED
    BY <1>2, <1>3

(* UBULK_LOCK of UBIKDISK_BulkUpdate, before a sleep and after it.         *)
LEMMA BulkLockKeeps ==
    ASSUME LockInv, NEW h \in Handler, BulkLock(h) \/ BulkAwake(h) \/ BulkDangling(h)
    PROVE  LockInv'
<1> USE DEF LockInv
<1>1. /\ h \in Thread /\ at[h] # "bulk"
      /\ UNCHANGED <<live, done, writing, readers, current, kind, rounds, seen, site,
                     version, late>>
    BY Distinct DEF BulkLock, BulkAwake, BulkDangling, clientVars
<1>2. /\ ptr' \in [Handler -> 0 .. MaxTid]
      /\ \A i \in Handler \ {h} : ptr'[i] = ptr[i]
  <2>1. CASE ptr' = ptr
      BY <2>1 DEF RemoteTypes
  <2>2. CASE ptr' = [ptr EXCEPT ![h] = current] /\ current # Nobody
    <3>1. current \in 0 .. MaxTid
        BY <2>2, Distinct DEF RemoteTypes, TransTypes, Trans
    <3> QED
        BY <2>2, <3>1 DEF RemoteTypes
  <2> QED
      BY <2>1, <2>2 DEF BulkLock, BulkAwake, BulkDangling
<1>3. CASE /\ at' = [at EXCEPT ![h] = "idle"] /\ UNCHANGED <<held, want, on>>
           /\ Return(h, TRUE) \/ Return(h, FALSE)
  <2>1. RemoteTypes' /\ ClientsIn' /\ CallsRefer'
      BY <1>1, <1>2, <1>3, HandlerMoves
  <2>2. ThreadTypes' /\ TransTypes' /\ Exclusion' /\ SleepersAreWoken'
      BY <1>1, <1>3 DEF ThreadTypes, TransTypes, Exclusion, SleepersAreWoken, States
  <2> QED
      BY <1>1, <2>1, <2>2, SameCounts
<1>4. CASE /\ \/ Sleep(h, "write") /\ call' = call
              \/ \E t \in live : Grant(h, t, "write", "idle") /\ Return(h, TRUE)
           /\ live # {}
  <2>1. PICK t \in live : \/ Sleep(h, "write") /\ call' = call
                          \/ Grant(h, t, "write", "idle") /\ Return(h, TRUE)
      BY <1>4
  <2>2. "idle" \in States \ {"lockWait", "beginWait", "sendWait"} /\ done' \subseteq live
      BY <1>1 DEF States, TransTypes
  <2>3. /\ TransTypes' /\ Exclusion' /\ SleepersAreWoken'
        /\ on' \in [Thread -> Trans \cup {Nobody}] /\ at' \in [Thread -> States]
      BY <1>1, <2>1, <2>2, Locking
  <2>4. RemoteTypes' /\ ClientsIn' /\ CallsRefer'
    <3>1. PICK pc \in {"idle", "relock", "lock", "lockWait"} : at' = [at EXCEPT ![h] = pc]
        BY <2>1 DEF Sleep, Grant
    <3> QED
        BY <1>1, <1>2, <2>1, <3>1, HandlerMoves
  <2>5. ThreadTypes'
      BY <1>1, <2>3 DEF ThreadTypes
  <2> QED
      BY <1>1, <2>3, <2>4, <2>5, SameCounts
<1>5. Sleep(h, "write") => live # {}
    BY DEF Sleep, Conflicts, TransTypes
<1>6. CASE BulkLock(h)
  <2>1. current \in live
      BY <1>6 DEF BulkLock, RemoteTypes
  <2>2. CASE current \in done
      BY <1>3, <1>6, <2>2 DEF BulkLock
  <2>3. CASE current \notin done
      BY <1>4, <1>6, <2>1, <2>3 DEF BulkLock
  <2> QED
      BY <2>2, <2>3
<1>7. CASE BulkAwake(h)
    BY <1>4, <1>7 DEF BulkAwake
<1>8. CASE BulkDangling(h)
    BY <1>3, <1>4, <1>5, <1>8 DEF BulkDangling
<1> QED
    BY <1>6, <1>7, <1>8

(* A handler without transaction: the server starts again.                 *)
LEMMA BulkNullKeeps ==
    ASSUME LockInv, NEW h \in Handler, BulkNull(h)
    PROVE  LockInv'
<1> USE DEF LockInv
<1>1. /\ at' = [th \in Thread |-> "idle"] /\ on' = [th \in Thread |-> Nobody]
      /\ live' = {} /\ done' = {} /\ held' = {} /\ want' = {} /\ ~writing' /\ readers' = 0
      /\ writing' = FALSE /\ current = Nobody /\ site' = FALSE
      /\ seen' = [c \in Client |-> 0]
      /\ call' = [call EXCEPT !.phase = "over", !.by = Nobody]
      /\ UNCHANGED <<current, kind, rounds, ptr, version, late>>
    BY DEF BulkNull
<1>2. ThreadTypes'
    BY <1>1 DEF ThreadTypes, States
<1>3. TransTypes' /\ Counted'
  <2>1. Writers' = {} /\ Readers' = {}
      BY <1>1 DEF Writers, Readers
  <2> QED
      BY <1>1, <2>1, FS_EmptySet DEF TransTypes, Counted
<1>4. RemoteTypes'
    BY <1>1 DEF RemoteTypes
<1>5. ClientsIn' /\ CallsRefer'
    BY <1>1, Distinct DEF ClientsIn, CallsRefer, InTrans, RemoteTypes
<1>6. Exclusion' /\ SleepersAreWoken'
    BY <1>1 DEF Exclusion, SleepersAreWoken
<1> QED
    BY <1>2, <1>3, <1>4, <1>5, <1>6

(* The invariant is inductive: each step of each thread keeps it.          *)
LEMMA LockStep == LockInv /\ [Next]_vars => LockInv'
<1> SUFFICES ASSUME LockInv, [Next]_vars PROVE LockInv'
    OBVIOUS
<1>1. ASSUME NEW c \in Client, ClientStep(c) PROVE LockInv'
    BY <1>1, BeginAwakeKeeps, SetLockKeeps, ClientEndKeeps DEF ClientStep
<1>2. ASSUME NEW c \in Client, NEW type \in {"read", "write"}, Begin(c, type)
      PROVE  LockInv'
    BY <1>2, BeginKeeps
<1>3. CASE SendStart \/ SendEnd
    BY <1>3, RecoveryKeeps
<1>4. CASE Lapse \/ GiveUp \/ SendFile \/ \E h \in Handler : Call(h)
    BY <1>4, CallingKeeps
<1>5. ASSUME NEW h \in Handler, HandlerStep(h) PROVE LockInv'
    BY <1>5, BulkBeginKeeps, BulkLockKeeps, BulkNullKeeps DEF HandlerStep
<1>6. CASE SiteStep \/ Beacon
    BY <1>6, SiteKeeps
<1>7. CASE UNCHANGED vars
  <2>1. UNCHANGED <<at, live, done, writing, readers, held, want, current, on, kind, rounds,
                    seen, ptr, call, site, version, late>>
      BY <1>7 DEF vars, transVars, clientVars, remoteVars
  <2>2. Counted'
      BY <2>1, SameCounts
  <2>3. ThreadTypes' /\ TransTypes' /\ RemoteTypes' /\ ClientsIn' /\ CallsRefer'
      BY <2>1 DEF LockInv, ThreadTypes, TransTypes, RemoteTypes, ClientsIn, CallsRefer
  <2>4. Exclusion' /\ SleepersAreWoken'
      BY <2>1 DEF LockInv, Exclusion, SleepersAreWoken
  <2> QED
      BY <2>2, <2>3, <2>4 DEF LockInv
<1> QED
    BY <1>1, <1>2, <1>3, <1>4, <1>5, <1>6, <1>7 DEF Next

(* The invariant implies the properties that the runs check.               *)
LEMMA LockInvImplies ==
    LockInv => LockTypeOK /\ Exclusion /\ WritersCounted /\ SleepersAreWoken
<1> SUFFICES ASSUME LockInv PROVE LockTypeOK /\ WritersCounted
    BY DEF LockInv
<1>1. LockTypeOK
  <2>1. \A th \in Thread : at[th] \in States /\ on[th] \in Trans \cup {Nobody}
      BY DEF LockInv, ThreadTypes
  <2>2. \A c \in Client : /\ kind[c] \in {"read", "write"} /\ seen[c] \in Nat
                          /\ rounds[c] \in 0 .. MaxRounds[c]
      BY LockAssumption DEF LockInv, ThreadTypes
  <2>3. rounds[Recovery] \in 0 .. MaxRounds[Recovery]
      BY LockAssumption DEF LockInv, ThreadTypes
  <2>4. readers \in Nat
    <3>1. Readers \in SUBSET live
        BY DEF Readers
    <3> QED
        BY <3>1, FS_Subset, FS_CardinalityType DEF LockInv, TransTypes, Counted
  <2> QED
      BY <2>1, <2>2, <2>3, <2>4
      DEF LockInv, TransTypes, RemoteTypes, LockTypeOK, States
<1>2. WritersCounted
  <2>1. CASE writing
    <3>1. PICK w \in live : Writers = {w}
        BY <2>1 DEF LockInv, Counted
    <3>2. Cardinality(Writers) = 1
        BY <3>1, FS_Singleton
    <3> QED
        BY <2>1, <3>2 DEF LockInv, Counted, WritersCounted, Writers, Readers
  <2>2. CASE ~writing
    <3>1. Cardinality(Writers) = 0
        BY <2>2, FS_EmptySet DEF LockInv, Counted
    <3> QED
        BY <2>2, <3>1 DEF LockInv, Counted, WritersCounted, Writers, Readers
  <2> QED
      BY <2>1, <2>2
<1> QED
    BY <1>1, <1>2

(* The invariant holds in every state of every behaviour.                  *)
LEMMA LockInvariant == Spec => []LockInv
<1> QED
    BY LockInitially, LockStep, PTL DEF Spec
-----------------------------------------------------------------------------
(* Repeatable reads.  A transaction has its lock until it ends, and the only *)
(* call that commits has the lock of ubik_currentTrans.                      *)

\* A client that got its lock has it, also when its transaction was aborted.
ClientsLocked ==
    \A c \in Client : at[c] \in {"locked", "committing"} =>
        [trans |-> c, type |-> kind[c]] \in held

\* Of all handlers, only that of the present call can begin its transaction, and then
\* it sleeps for the lock of this transaction, unless another was begun.
CallsOwn ==
    /\ \A h \in Handler : at[h] = "bulk" =>
          ptr[h] <= call.tid /\ (ptr[h] = call.tid /\ call.phase # "over" => call.by = h)
    /\ \A h \in Handler :
          call.by = h /\ current = call.tid /\ at[h] \in {"lock", "lockWait"} =>
              ptr[h] = call.tid
    /\ call.phase # "calling" => call.by = Nobody

\* A call that has returned, and whose transaction is current, has the lock.
CallLocked ==
    call.phase = "updated" /\ current = call.tid =>
        [trans |-> current, type |-> "write"] \in held

ReadInv == ClientsLocked /\ CallsOwn /\ CallLocked /\ RepeatableRead

(* Steps that leave the clients with a lock alone, at least.               *)
LEMMA ClientsKeep ==
    ASSUME LockInv, ReadInv, version' = version,
           \A c \in Client : at'[c] \in {"locked", "committing"} =>
               /\ at[c] \in {"locked", "committing"}
               /\ at'[c] = "locked" => at[c] = "locked"
               /\ kind'[c] = kind[c] /\ seen'[c] = seen[c]
               /\ c \in done => c \in done'
               /\ \A l \in held : l.trans = c => l \in held'
    PROVE  ClientsLocked' /\ RepeatableRead'
BY DEF ReadInv, ClientsLocked, RepeatableRead

(* Steps that begin no remote transaction, and let no call return.         *)
LEMMA CallsKeep ==
    ASSUME LockInv, ReadInv, ptr' = ptr,
           call'.tid = call.tid,
           call'.phase # "over" => call.phase # "over" /\ call'.by = call.by,
           call' = call \/ (call'.phase \in {"over", "committed"} /\ call'.by = Nobody),
           current' = Nobody \/ (current' = current /\
               \A l \in held : l.trans = current => l \in held'),
           \A h \in Handler :
               /\ at'[h] = "bulk" => at[h] = "bulk"
               /\ at'[h] \in {"lock", "lockWait"} => at[h] \in {"lock", "lockWait"}
    PROVE  CallsOwn' /\ CallLocked'
<1> USE DEF LockInv, ReadInv
<1>1. current' = call'.tid /\ (call'.phase # "over" \/ call'.by # Nobody)
      => current' = current /\ current' # Nobody
    BY DEF CallsRefer, Nobody
<1>2. CallsOwn'
  <2>1. \A h \in Handler : at'[h] = "bulk" =>
          ptr'[h] <= call'.tid /\ (ptr'[h] = call'.tid /\ call'.phase # "over" => call'.by = h)
      BY DEF CallsOwn
  <2>2. \A h \in Handler :
          call'.by = h /\ current' = call'.tid /\ at'[h] \in {"lock", "lockWait"} =>
              ptr'[h] = call'.tid
      BY <1>1, Distinct DEF CallsOwn
  <2> QED
      BY <2>1, <2>2 DEF CallsOwn
<1>3. CallLocked'
  <2> SUFFICES ASSUME call'.phase = "updated", current' = call'.tid
               PROVE  [trans |-> current', type |-> "write"] \in held'
      BY DEF CallLocked
  <2>1. call.phase = "updated" /\ current' = current /\ current' # Nobody
      BY <1>1
  <2>2. [trans |-> current, type |-> "write"] \in held
      BY <2>1 DEF CallLocked
  <2> QED
      BY <2>1, <2>2
<1> QED
    BY <1>2, <1>3

(* What a wakeup leaves of the states that matter here.                    *)
LEMMA WokenReads ==
    ASSUME LockInv, NEW t, NEW th \in Thread
    PROVE  /\ Woken(t)[th] \in {"locked", "committing", "bulk"} => Woken(t)[th] = at[th]
           /\ Woken(t)[th] \in {"lock", "lockWait"} => at[th] \in {"lock", "lockWait"}
BY DEF LockInv, ThreadTypes, Woken, States

(* Whoever has its lock for writing is alone.                              *)
LEMMA WriterAlone ==
    ASSUME LockInv, ReadInv, NEW t, [trans |-> t, type |-> "write"] \in held,
           NEW c \in Client, at[c] \in {"locked", "committing"}
    PROVE  c = t
<1>1. held = {[trans |-> t, type |-> "write"]}
    BY DEF LockInv, Exclusion
<1>2. [trans |-> c, type |-> kind[c]] \in held
    BY DEF ReadInv, ClientsLocked
<1>3. [trans |-> c, type |-> kind[c]] = [trans |-> t, type |-> "write"]
    BY <1>1, <1>2
<1> QED
    BY <1>3

(* Begins, waits and remote calls of this server.                          *)
LEMMA ReadLocal ==
    ASSUME LockInv, ReadInv,
           \/ \E c \in Client : BeginAwake(c) \/ EndTrans(c)
                                \/ \E type \in {"read", "write"} : Begin(c, type)
           \/ SendStart \/ SendEnd \/ Lapse \/ GiveUp
    PROVE  ReadInv'
<1> USE DEF LockInv
<1>1. UNCHANGED <<done, held, current, ptr, seen, version>>
    BY DEF BeginAwake, EndTrans, Begin, SendStart, SendEnd, Lapse, GiveUp, BeginLocal,
           transVars, clientVars, remoteVars
<1>2. /\ call'.tid = call.tid
      /\ call' = call \/ (call'.phase = "over" /\ call'.by = Nobody)
    BY DEF BeginAwake, EndTrans, Begin, SendStart, SendEnd, Lapse, GiveUp, remoteVars,
           RemoteTypes
<1>3. \/ at' = at /\ kind' = kind
      \/ \E th \in Client \cup {Recovery}, pc \in States :
            /\ at' = [at EXCEPT ![th] = pc]
            /\ pc \notin {"locked", "bulk"}
            /\ pc = "committing" => at[th] = "locked"
            /\ kind' = kind \/ (at[th] = "idle" /\ pc # "committing"
                                /\ \A c \in Client \ {th} : kind'[c] = kind[c])
  <2>1. CASE \E c \in Client : BeginAwake(c)
      BY <2>1 DEF BeginAwake, clientVars, States
  <2>2. CASE \E c \in Client : EndTrans(c)
      BY <2>2 DEF EndTrans, clientVars, States
  <2>3. ASSUME NEW c \in Client, NEW type \in {"read", "write"}, Begin(c, type)
        PROVE  \E pc \in {"beginWait", "open"} :
                  /\ at' = [at EXCEPT ![c] = pc] /\ at[c] = "idle"
                  /\ \A d \in Client \ {c} : kind'[d] = kind[d]
      BY <2>3 DEF Begin, ThreadTypes
  <2>4. CASE \E c \in Client, type \in {"read", "write"} : Begin(c, type)
      BY <2>3, <2>4 DEF States
  <2>5. CASE SendStart \/ SendEnd
    <3>1. \E pc \in {"sendWait", "sending", "idle"} : at' = [at EXCEPT ![Recovery] = pc]
        BY <2>5 DEF SendStart, SendEnd
    <3>2. kind' = kind
        BY <2>5 DEF SendStart, SendEnd, clientVars
    <3> QED
        BY <3>1, <3>2 DEF States
  <2>6. CASE Lapse \/ GiveUp
      BY <2>6 DEF Lapse, GiveUp, clientVars
  <2> QED
      BY <2>1, <2>2, <2>4, <2>5, <2>6
<1>4. \A c \in Client : at'[c] \in {"locked", "committing"} =>
          /\ at[c] \in {"locked", "committing"}
          /\ at'[c] = "locked" => at[c] = "locked"
          /\ kind'[c] = kind[c]
    BY <1>3, Distinct DEF ThreadTypes
<1>5. \A h \in Handler : at'[h] = at[h]
    BY <1>3, Distinct DEF ThreadTypes
<1>6. ClientsLocked' /\ RepeatableRead'
    BY <1>1, <1>4, ClientsKeep
<1>7. CallsOwn' /\ CallLocked'
    BY <1>1, <1>2, <1>5, CallsKeep
<1> QED
    BY <1>6, <1>7 DEF ReadInv
(* ubik_SetLock notes the version it found.                                *)
LEMMA ReadSetLock ==
    ASSUME LockInv, ReadInv, NEW c \in Client, SetLock(c)
    PROVE  ReadInv'
<1> USE DEF LockInv
<1>1. /\ c \in Thread
      /\ UNCHANGED <<live, done, current, kind, ptr, call, version>>
    BY Distinct DEF SetLock, remoteVars
<1>2. /\ held \subseteq held'
      /\ \E pc \in {"failed", "lockWait", "locked"} :
            /\ at' = [at EXCEPT ![c] = pc]
            /\ pc = "locked" => /\ [trans |-> c, type |-> kind[c]] \in held'
                                /\ seen' = [seen EXCEPT ![c] = version]
            /\ pc # "locked" => seen' = seen
  <2>1. CASE at' = [at EXCEPT ![c] = "failed"] /\ UNCHANGED <<held, want, on, seen>>
      BY <2>1
  <2>2. CASE Sleep(c, kind[c]) /\ UNCHANGED seen
      BY <2>2 DEF Sleep
  <2>3. CASE Grant(c, c, kind[c], "locked") /\ seen' = [seen EXCEPT ![c] = version]
      BY <2>3 DEF Grant
  <2> QED
      BY <2>1, <2>2, <2>3 DEF SetLock
<1>3. ClientsLocked' /\ RepeatableRead'
  <2>1. PICK pc \in {"failed", "lockWait", "locked"} :
            /\ at' = [at EXCEPT ![c] = pc]
            /\ pc = "locked" => /\ [trans |-> c, type |-> kind[c]] \in held'
                                /\ seen' = [seen EXCEPT ![c] = version]
            /\ pc # "locked" => seen' = seen
      BY <1>2
  <2>2. \A d \in Client : at'[d] = IF d = c THEN pc ELSE at[d]
      BY <1>1, <2>1, Distinct DEF ThreadTypes
  <2>3. \A d \in Client : seen'[d] = IF d = c /\ pc = "locked" THEN version ELSE seen[d]
      BY <2>1 DEF ThreadTypes
  <2>4. ClientsLocked'
      BY <1>1, <1>2, <2>1, <2>2 DEF ReadInv, ClientsLocked
  <2>5. RepeatableRead'
      BY <1>1, <2>2, <2>3 DEF ReadInv, RepeatableRead
  <2> QED
      BY <2>4, <2>5
<1>4. CallsOwn' /\ CallLocked'
  <2>1. \A h \in Handler : at'[h] = at[h]
      BY <1>1, <1>2, Distinct DEF ThreadTypes
  <2> QED
      BY <1>1, <1>2, <2>1, CallsKeep
<1> QED
    BY <1>3, <1>4 DEF ReadInv

(* The end of a client's transaction.  A transaction that commits has its  *)
(* write lock, so that nobody reads.                                       *)
LEMMA ReadEndOwn ==
    ASSUME LockInv, ReadInv, NEW c \in Client, Commit(c) \/ Abort(c)
    PROVE  ReadInv'
<1> USE DEF LockInv
<1>1. /\ c \in Thread /\ c \in live /\ End(c)
      /\ at' = [Woken(c) EXCEPT ![c] = "idle"] /\ seen' = [seen EXCEPT ![c] = 0]
      /\ UNCHANGED <<current, kind, ptr, call>>
    BY Distinct DEF Commit, Abort, remoteVars, ClientsIn, InTrans
<1>2. /\ held' = {l \in held : l.trans # c} /\ done' = done \ {c}
    BY <1>1 DEF End
<1>3. \A th \in Thread : at'[th] = IF th = c THEN "idle" ELSE Woken(c)[th]
    BY <1>1, WokenStates
<1>4. \A d \in Client : at'[d] \in {"locked", "committing"} => d # c /\ at'[d] = at[d]
    BY <1>3, WokenReads, Distinct
<1>5. ClientsLocked' /\ RepeatableRead'
  <2>1. CASE version' = version
      BY <1>1, <1>2, <1>4, <2>1, ClientsKeep DEF ThreadTypes
  <2>2. CASE version' # version
    <3>1. at[c] = "committing" /\ kind[c] = "write"
        BY <2>2 DEF Commit, Abort, ClientsIn
    <3>2. [trans |-> c, type |-> "write"] \in held
        BY <3>1 DEF ReadInv, ClientsLocked
    <3>3. \A d \in Client : at'[d] \notin {"locked", "committing"}
        BY <1>4, <3>2, WriterAlone
    <3> QED
        BY <3>3 DEF ClientsLocked, RepeatableRead
  <2> QED
      BY <2>1, <2>2
<1>6. CallsOwn' /\ CallLocked'
  <2>1. \A h \in Handler : /\ at'[h] = "bulk" => at[h] = "bulk"
                           /\ at'[h] \in {"lock", "lockWait"} => at[h] \in {"lock", "lockWait"}
      BY <1>3, WokenReads, Distinct
  <2>2. current # c
      BY Distinct DEF RemoteTypes
  <2>3. \A l \in held : l.trans = current => l \in held'
      BY <1>2, <2>2
  <2> QED
      BY <1>1, <2>1, <2>3, CallsKeep
<1> QED
    BY <1>5, <1>6 DEF ReadInv

(* The calls of the remote sync site that end its transaction, and beacons. *)
LEMMA ReadEndRemote ==
    ASSUME LockInv, ReadInv, version' = version,
           \/ UNCHANGED <<at, transVars>>
           \/ /\ current # Nobody /\ End(current) /\ at' = Woken(current)
              /\ current' = Nobody,
           call' = call \/ (call.phase # "calling" /\ call' = [call EXCEPT !.phase = "over"]),
           UNCHANGED <<kind, seen, ptr>>
    PROVE  ReadInv'
<1> USE DEF LockInv
<1>1. /\ call'.tid = call.tid
      /\ call' = call \/ (call'.phase = "over" /\ call'.by = Nobody)
    BY DEF RemoteTypes, ReadInv, CallsOwn
<1>2. CASE UNCHANGED <<at, transVars>>
  <2>1. UNCHANGED <<at, held, done, current>>
      BY <1>2 DEF transVars
  <2>2. ClientsLocked' /\ RepeatableRead'
      BY <2>1, ClientsKeep
  <2>3. CallsOwn' /\ CallLocked'
      BY <1>1, <2>1, CallsKeep
  <2> QED
      BY <2>2, <2>3 DEF ReadInv
<1>3. CASE current # Nobody /\ End(current) /\ at' = Woken(current) /\ current' = Nobody
  <2>1. current \notin Client
      BY Distinct DEF RemoteTypes
  <2>2. held' = {l \in held : l.trans # current} /\ done' = done \ {current}
      BY <1>3 DEF End
  <2>3. \A th \in Thread :
            /\ at'[th] \in {"locked", "committing", "bulk"} => at'[th] = at[th]
            /\ at'[th] \in {"lock", "lockWait"} => at[th] \in {"lock", "lockWait"}
      BY <1>3, WokenReads
  <2>4. ClientsLocked' /\ RepeatableRead'
      BY <2>1, <2>2, <2>3, Distinct, ClientsKeep
  <2>5. CallsOwn' /\ CallLocked'
      BY <1>1, <1>3, <2>3, Distinct, CallsKeep
  <2> QED
      BY <2>4, <2>5 DEF ReadInv
<1> QED
    BY <1>2, <1>3

(* SUBIKDISK_Commit changes the database under the lock of its transaction. *)
LEMMA ReadSite ==
    ASSUME LockInv, ReadInv, SiteStep \/ Beacon
    PROVE  ReadInv'
<1> USE DEF LockInv
<1>1. UNCHANGED <<kind, seen, ptr>>
    BY DEF SiteStep, RemoteCommit, ReleaseLocks, Beacon, clientVars, remoteVars
<1>2. CASE RemoteCommit /\ current = call.tid /\ current \notin done
  <2>1. /\ call.phase = "updated" /\ call' = [call EXCEPT !.phase = "committed"]
        /\ UNCHANGED <<at, held, current>>
      BY <1>2 DEF RemoteCommit
  <2>2. [trans |-> current, type |-> "write"] \in held /\ current \notin Client
      BY <1>2, <2>1, Distinct DEF ReadInv, CallLocked, RemoteTypes
  <2>3. \A c \in Client : at[c] \notin {"locked", "committing"}
      BY <2>2, WriterAlone
  <2>4. ClientsLocked' /\ RepeatableRead'
      BY <2>1, <2>3 DEF ClientsLocked, RepeatableRead
  <2>5. /\ call'.tid = call.tid /\ call'.by = Nobody
        /\ call'.phase = "committed" /\ call.phase # "over" /\ call.by = Nobody
      BY <2>1 DEF RemoteTypes, ReadInv, CallsOwn
  <2>6. CallsOwn' /\ CallLocked'
      BY <1>1, <2>1, <2>5, CallsKeep
  <2> QED
      BY <2>4, <2>6 DEF ReadInv
<1>3. CASE RemoteCommit /\ ~(current = call.tid /\ current \notin done)
  <2>1. /\ version' = version
        /\ call.phase # "calling" /\ call' = [call EXCEPT !.phase = "over"]
        /\ \/ UNCHANGED <<at, transVars>>
           \/ /\ current # Nobody /\ End(current) /\ at' = Woken(current)
              /\ current' = Nobody
      BY <1>3 DEF RemoteCommit, Older
  <2> QED
      BY <1>1, <2>1, ReadEndRemote
<1>4. CASE ReleaseLocks
  <2>1. /\ version' = version
        /\ call.phase # "calling" /\ call' = [call EXCEPT !.phase = "over"]
        /\ \/ UNCHANGED <<at, transVars>>
           \/ /\ current # Nobody /\ End(current) /\ at' = Woken(current)
              /\ current' = Nobody
      BY <1>4 DEF ReleaseLocks
  <2> QED
      BY <1>1, <2>1, ReadEndRemote
<1>5. CASE Beacon
    BY <1>1, <1>5, ReadEndRemote DEF Beacon, remoteVars
<1> QED
    BY <1>2, <1>3, <1>4, <1>5 DEF SiteStep

(* A new call comes only when the one before is over.                      *)
LEMMA ReadCall ==
    ASSUME LockInv, ReadInv, NEW h \in Handler, Call(h)
    PROVE  ReadInv'
<1> USE DEF LockInv
<1>1. /\ at' = [at EXCEPT ![h] = "bulk"] /\ at[h] = "idle" /\ h \in Thread
      /\ call' = [tid |-> call.tid + 1, phase |-> "calling", by |-> h]
      /\ ptr' = [ptr EXCEPT ![h] = call.tid + 1]
      /\ UNCHANGED <<held, done, current, kind, seen, version>>
    BY Distinct DEF Call, transVars, clientVars
<1>2. \A th \in Thread : at'[th] = IF th = h THEN "bulk" ELSE at[th]
    BY <1>1 DEF ThreadTypes
<1>3. \A i \in Handler : ptr'[i] = IF i = h THEN call.tid + 1 ELSE ptr[i]
    BY <1>1 DEF RemoteTypes
<1>4. call.tid \in Nat /\ \A i \in Handler : ptr[i] \in Nat
    BY Distinct DEF RemoteTypes
<1>5. ClientsLocked' /\ RepeatableRead'
  <2>1. \A c \in Client : at'[c] = at[c]
      BY <1>2, Distinct
  <2> QED
      BY <1>1, <2>1, ClientsKeep
<1>6. CallsOwn'
  <2>1. \A i \in Handler : at'[i] = "bulk" =>
          ptr'[i] <= call'.tid /\ (ptr'[i] = call'.tid /\ call'.phase # "over" => call'.by = i)
    <3> SUFFICES ASSUME NEW i \in Handler, at'[i] = "bulk", i # h
                 PROVE  ptr'[i] < call'.tid
        BY <1>1, <1>3, <1>4
    <3>1. at[i] = "bulk" /\ ptr'[i] = ptr[i]
        BY <1>2, <1>3, Distinct
    <3>2. ptr[i] <= call.tid
        BY <3>1 DEF ReadInv, CallsOwn
    <3> QED
        BY <1>1, <1>4, <3>1, <3>2
  <2>2. \A i \in Handler : call'.by = i => at'[i] = "bulk"
      BY <1>1, <1>2, Distinct
  <2> QED
      BY <1>1, <2>1, <2>2 DEF CallsOwn
<1>7. CallLocked'
    BY <1>1 DEF CallLocked
<1> QED
    BY <1>5, <1>6, <1>7 DEF ReadInv

(* A call of a handler that does not begin a transaction returns, or not.  *)
LEMMA ReadReturns ==
    ASSUME LockInv, NEW h \in Handler, call' = call \/ Return(h, TRUE) \/ Return(h, FALSE)
    PROVE  \/ call' = call
           \/ /\ call.by = h /\ call'.tid = call.tid /\ call'.by = Nobody
              /\ \/ call'.phase = "over"
                 \/ call'.phase = "updated" /\ Return(h, TRUE)
BY DEF LockInv, RemoteTypes, Return

(* UBULK_BEGIN is for the present call, or the transaction is not of that. *)
LEMMA ReadBulkBegin ==
    ASSUME LockInv, ReadInv, NEW h \in Handler, BulkBegin(h)
    PROVE  ReadInv'
<1> USE DEF LockInv
<1>1. /\ at[h] = "bulk" /\ h \in Thread
      /\ UNCHANGED <<kind, seen, ptr, version>>
    BY Distinct DEF BulkBegin, clientVars
<1>2. CASE writing /\ current = Nobody
  <2>1. /\ at' = [at EXCEPT ![h] = "idle"] /\ Return(h, FALSE)
        /\ UNCHANGED <<held, done, current>>
      BY <1>2 DEF BulkBegin, transVars
  <2>2. \A th \in Thread : at'[th] = IF th = h THEN "idle" ELSE at[th]
      BY <1>1, <2>1 DEF ThreadTypes
  <2>3. ClientsLocked' /\ RepeatableRead'
      BY <1>1, <2>1, <2>2, Distinct, ClientsKeep
  <2>4. /\ call'.tid = call.tid
        /\ call' = call \/ (call'.phase = "over" /\ call'.by = Nobody)
      BY <2>1 DEF Return, RemoteTypes
  <2>5. CallsOwn' /\ CallLocked'
      BY <1>1, <2>1, <2>2, <2>4, Distinct, CallsKeep
  <2> QED
      BY <2>3, <2>5 DEF ReadInv
<1>3. CASE ~(writing /\ current = Nobody)
  <2>1. /\ held' = {l \in held : l.trans # current} /\ done' = done \ {current}
        /\ at' = [Woken(current) EXCEPT ![h] = "relock"]
        /\ current' = ptr[h] /\ call' = call
      BY <1>3 DEF BulkBegin
  <2>2. \A th \in Thread : at'[th] = IF th = h THEN "relock" ELSE Woken(current)[th]
      BY <1>1, <2>1, WokenStates
  <2>3. current \notin Client
      BY Distinct DEF RemoteTypes
  <2>4. \A th \in Thread :
            /\ at'[th] \in {"locked", "committing", "bulk"} => th # h /\ at'[th] = at[th]
            /\ at'[th] \in {"lock", "lockWait"} => th # h /\ at[th] \in {"lock", "lockWait"}
      BY <2>2, WokenReads
  <2>5. ClientsLocked' /\ RepeatableRead'
      BY <1>1, <2>1, <2>3, <2>4, Distinct, ClientsKeep
  <2>6. ptr[h] = call.tid => call.phase = "over" \/ call.by = h
      BY <1>1 DEF ReadInv, CallsOwn
  <2>7. CallsOwn'
    <3>1. \A i \in Handler : at'[i] = "bulk" =>
            ptr'[i] <= call'.tid
            /\ (ptr'[i] = call'.tid /\ call'.phase # "over" => call'.by = i)
        BY <1>1, <2>1, <2>4, Distinct DEF ReadInv, CallsOwn
    <3>2. \A i \in Handler :
            call'.by = i /\ current' = call'.tid /\ at'[i] \in {"lock", "lockWait"} =>
                ptr'[i] = call'.tid
      <4> SUFFICES ASSUME NEW i \in Handler, call.by = i, ptr[h] = call.tid,
                          at'[i] \in {"lock", "lockWait"}
                   PROVE  FALSE
          BY <2>1
      <4>1. i # h /\ i \in Thread
          BY <2>4, Distinct
      <4>2. call.phase = "over"
          BY <2>6, <4>1
      <4> QED
          BY <4>2, Distinct DEF ReadInv, CallsOwn
    <3>3. call'.phase # "calling" => call'.by = Nobody
        BY <2>1 DEF ReadInv, CallsOwn
    <3> QED
        BY <3>1, <3>2, <3>3 DEF CallsOwn
  <2>8. CallLocked'
    <3> SUFFICES ASSUME call.phase = "updated", ptr[h] = call.tid PROVE FALSE
        BY <2>1 DEF CallLocked
    <3>1. call.by = h /\ call.by = Nobody
        BY <2>6 DEF ReadInv, CallsOwn
    <3> QED
        BY <1>1, <3>1, Distinct
  <2> QED
      BY <2>5, <2>7, <2>8 DEF ReadInv
<1> QED
    BY <1>2, <1>3

(* UBULK_LOCK, before a sleep and after it: a call returns with the lock   *)
(* of its own transaction, if that is still current.                       *)
LEMMA ReadBulkLock ==
    ASSUME LockInv, ReadInv, NEW h \in Handler,
           BulkLock(h) \/ BulkAwake(h) \/ BulkDangling(h)
    PROVE  ReadInv'
<1> USE DEF LockInv
<1>1. /\ h \in Thread /\ at[h] \in {"relock", "lock"}
      /\ UNCHANGED <<live, done, current, kind, seen, version>>
    BY Distinct DEF BulkLock, BulkAwake, BulkDangling, clientVars
<1>2. /\ held \subseteq held'
      /\ call' = call \/ Return(h, TRUE) \/ Return(h, FALSE)
      /\ \/ at' = [at EXCEPT ![h] = "lockWait"] /\ call' = call
         \/ at' = [at EXCEPT ![h] = "idle"]
    BY DEF BulkLock, BulkAwake, BulkDangling, Sleep, Grant
<1>3. /\ at[h] = "relock" => ptr' = [ptr EXCEPT ![h] = current]
      /\ at[h] = "lock" => ptr' = ptr
    BY DEF BulkLock, BulkAwake, BulkDangling
<1>4. \A th \in Thread \ {h} : at'[th] = at[th]
    BY <1>1, <1>2 DEF ThreadTypes
<1>5. at'[h] \in {"lockWait", "idle"} /\ (at'[h] = "lockWait" => call' = call)
    BY <1>1, <1>2 DEF ThreadTypes
<1>6. ClientsLocked' /\ RepeatableRead'
  <2>1. \A c \in Client : at'[c] = at[c]
      BY <1>1, <1>4, Distinct
  <2> QED
      BY <1>1, <1>2, <2>1, ClientsKeep
<1>7. \/ call' = call
      \/ /\ call.by = h /\ call'.tid = call.tid /\ call'.by = Nobody
         /\ \/ call'.phase = "over"
            \/ call'.phase = "updated" /\ Return(h, TRUE)
    BY <1>2, ReadReturns
<1>8. /\ \A i \in Handler \ {h} : ptr'[i] = ptr[i]
      /\ at'[h] = "lockWait" /\ call.by = h /\ current = call.tid => ptr'[h] = call.tid
  <2>1. CASE at[h] = "relock"
    <3>1. current \in 0 .. MaxTid
        BY <2>1, Distinct DEF RemoteTypes, TransTypes, Trans, Nobody
    <3> QED
        BY <1>3, <2>1, <3>1 DEF RemoteTypes
  <2>2. CASE at[h] = "lock"
      BY <1>3, <2>2 DEF ReadInv, CallsOwn
  <2> QED
      BY <1>1, <2>1, <2>2
<1>9. CallsOwn'
  <2>1. /\ call'.tid = call.tid
        /\ call'.by \in {call.by, Nobody}
        /\ call'.phase \in {call.phase, "over", "updated"}
        /\ \A i \in Handler \ {h} : call'.phase # "over" /\ call.by = i => call' = call
      BY <1>7
  <2>2. \A i \in Handler : at'[i] = "bulk" =>
          ptr'[i] <= call'.tid /\ (ptr'[i] = call'.tid /\ call'.phase # "over" => call'.by = i)
    <3> SUFFICES ASSUME NEW i \in Handler, at'[i] = "bulk"
                 PROVE  /\ ptr'[i] <= call'.tid
                        /\ ptr'[i] = call'.tid /\ call'.phase # "over" => call'.by = i
        OBVIOUS
    <3>1. i # h /\ at[i] = "bulk" /\ ptr'[i] = ptr[i]
        BY <1>4, <1>5, <1>8, Distinct
    <3>2. ptr[i] <= call.tid /\ (ptr[i] = call.tid /\ call.phase # "over" => call.by = i)
        BY <3>1 DEF ReadInv, CallsOwn
    <3>3. call.by = h => call.phase = "calling"
        BY <1>1, Distinct DEF ReadInv, CallsOwn
    <3> QED
        BY <1>7, <3>1, <3>2, <3>3
  <2>3. \A i \in Handler :
          call'.by = i /\ current' = call'.tid /\ at'[i] \in {"lock", "lockWait"} =>
              ptr'[i] = call'.tid
    <3> SUFFICES ASSUME NEW i \in Handler, call'.by = i, current' = call'.tid,
                        at'[i] \in {"lock", "lockWait"}
                 PROVE  ptr'[i] = call'.tid
        OBVIOUS
    <3>1. call' = call
        BY <1>7, Distinct
    <3>2. CASE i = h
        BY <1>1, <1>5, <1>8, <3>1, <3>2
    <3>3. CASE i # h
        BY <1>1, <1>4, <1>8, <3>1, <3>3, Distinct DEF ReadInv, CallsOwn
    <3> QED
        BY <3>2, <3>3
  <2>4. call'.phase # "calling" => call'.by = Nobody
      BY <1>7 DEF ReadInv, CallsOwn
  <2> QED
      BY <2>2, <2>3, <2>4 DEF CallsOwn
<1>10. CallLocked'
  <2>1. CASE call' = call
      BY <1>1, <1>2, <2>1 DEF ReadInv, CallLocked
  <2>2. CASE call' # call
    <3> SUFFICES ASSUME call'.phase = "updated", current = call.tid
                 PROVE  [trans |-> current, type |-> "write"] \in held'
        BY <1>1, <1>7, <2>2 DEF CallLocked
    <3>1. call.by = h /\ Return(h, TRUE)
        BY <1>7, <2>2
    <3>2. current \in live
      <4>1. current # Nobody
          BY <3>1, Distinct DEF CallsRefer, Nobody
      <4> QED
          BY <4>1 DEF RemoteTypes
    <3>3. ~Return(h, FALSE)
        BY <3>1 DEF Return, RemoteTypes
    <3>4. CASE BulkLock(h)
        BY <2>2, <3>3, <3>4 DEF BulkLock, Grant
    <3>5. CASE BulkAwake(h) \/ BulkDangling(h)
      <4>1. at[h] = "lock"
          BY <3>5 DEF BulkAwake, BulkDangling
      <4>2. ptr[h] = current
          BY <3>1, <4>1 DEF ReadInv, CallsOwn
      <4> QED
          BY <2>2, <3>2, <3>5, <4>2 DEF BulkAwake, BulkDangling, Grant
    <3> QED
        BY <3>4, <3>5
  <2> QED
      BY <2>1, <2>2
<1> QED
    BY <1>6, <1>9, <1>10 DEF ReadInv

(* The server starts again, or gets another database.                      *)
LEMMA ReadOver ==
    ASSUME LockInv, ReadInv, SendFile \/ \E h \in Handler : BulkNull(h)
    PROVE  ReadInv'
<1> USE DEF LockInv
<1>1. CASE SendFile
  <2>1. UNCHANGED <<at, held, current, kind, seen, ptr, call>> /\ done' = live
      BY <1>1 DEF SendFile, clientVars, remoteVars
  <2>2. CallsOwn' /\ CallLocked'
      BY <2>1, CallsKeep
  <2>3. ClientsLocked'
      BY <2>1 DEF ReadInv, ClientsLocked
  <2>4. RepeatableRead'
      BY <2>1 DEF RepeatableRead, ClientsIn, InTrans
  <2> QED
      BY <2>2, <2>3, <2>4 DEF ReadInv
<1>2. CASE \E h \in Handler : BulkNull(h)
  <2>1. /\ at' = [th \in Thread |-> "idle"]
        /\ call' = [call EXCEPT !.phase = "over", !.by = Nobody]
      BY <1>2 DEF BulkNull
  <2>2. \A th \in Thread : at'[th] = "idle"
      BY <2>1
  <2>3. call'.phase = "over" /\ call'.by = Nobody
      BY <2>1 DEF RemoteTypes
  <2> QED
      BY <2>2, <2>3, Distinct DEF ReadInv, ClientsLocked, CallsOwn, CallLocked, RepeatableRead
<1> QED
    BY <1>1, <1>2

(* Both invariants together are inductive.                                 *)
LEMMA ReadStep == LockInv /\ ReadInv /\ [Next]_vars => ReadInv'
<1> SUFFICES ASSUME LockInv, ReadInv, [Next]_vars PROVE ReadInv'
    OBVIOUS
<1>1. ASSUME NEW c \in Client, ClientStep(c) \/ \E type \in {"read", "write"} : Begin(c, type)
      PROVE  ReadInv'
  <2>1. CASE SetLock(c)
      BY <2>1, ReadSetLock
  <2>2. CASE Commit(c) \/ Abort(c)
      BY <2>2, ReadEndOwn
  <2> QED
      BY <1>1, <2>1, <2>2, ReadLocal DEF ClientStep
<1>2. CASE SendStart \/ SendEnd \/ Lapse \/ GiveUp
    BY <1>2, ReadLocal
<1>3. ASSUME NEW h \in Handler, Call(h) \/ HandlerStep(h) PROVE ReadInv'
    BY <1>3, ReadCall, ReadBulkBegin, ReadBulkLock, ReadOver DEF HandlerStep
<1>4. CASE SiteStep \/ Beacon
    BY <1>4, ReadSite
<1>5. CASE SendFile
    BY <1>5, ReadOver
<1>6. CASE UNCHANGED vars
    BY <1>6, ReadEndRemote DEF vars, clientVars, remoteVars
<1> QED
    BY <1>1, <1>2, <1>3, <1>4, <1>5, <1>6 DEF Next

(* Nobody has a lock at the start.                                         *)
LEMMA ReadInitially == Init => ReadInv
<1> SUFFICES ASSUME Init PROVE ReadInv
    OBVIOUS
<1>1. \A th \in Thread : at[th] = "idle"
    BY DEF Init
<1>2. call.phase = "over" /\ call.by = Nobody
    BY DEF Init
<1> QED
    BY <1>1, <1>2, Distinct DEF ReadInv, ClientsLocked, CallsOwn, CallLocked, RepeatableRead

(* ReadInv holds in every state of every behaviour.                        *)
LEMMA ReadInvariant == Spec => []ReadInv
<1> QED
    BY LockInvariant, ReadInitially, ReadStep, PTL DEF Spec
-----------------------------------------------------------------------------
(* Nobody waits for somebody who waits.                                    *)

\* Unless one was given up while it was served, a handler serves the present call, and
\* after UBULK_BEGIN the transaction of it is current.
OneCall ==
    /\ \A h \in Handler : at[h] # "idle" =>
          /\ call.phase = "calling" /\ call.by = h /\ ptr[h] = call.tid
          /\ at[h] # "bulk" => current = call.tid
    /\ call.phase = "calling" => call.by \in Handler /\ at[call.by] # "idle"

HoldInv == ~late => OneCall /\ HoldersRun

(* Steps that move no handler and let no call return or begin.             *)
LEMMA HoldKeep ==
    ASSUME LockInv, OneCall, HoldersRun, ~late, ptr' = ptr,
           \A h \in Handler : /\ at'[h] = "idle" <=> at[h] = "idle"
                              /\ at'[h] = "bulk" <=> at[h] = "bulk",
           call' = call \/ (call.phase # "calling" /\ call'.phase # "calling"),
           current' = current \/ \A h \in Handler : at[h] \in {"idle", "bulk"},
           \A l \in held' : IF l.trans \in Client
                            THEN at'[l.trans] \in {"locked", "committing"}
                            ELSE l \in held /\ l.trans = current'
    PROVE  OneCall' /\ HoldersRun'
<1>1. call' = call \/ \A h \in Handler : at[h] = "idle"
    BY DEF OneCall
<1>2. OneCall'
    BY <1>1 DEF OneCall
<1>3. HoldersRun'
  <2> SUFFICES ASSUME NEW l \in held', l.trans \notin Client, call'.phase = "calling"
               PROVE  at'[call'.by] = "bulk"
      BY DEF HoldersRun
  <2>1. call' = call /\ l \in held
      OBVIOUS
  <2>2. at[call.by] = "bulk" /\ call.by \in Handler
      BY <2>1 DEF HoldersRun, OneCall
  <2> QED
      BY <2>1, <2>2
<1> QED
    BY <1>2, <1>3

(* Begins, waits and remote calls of this server, and a call that is given *)
(* up after it has returned.                                               *)
LEMMA HoldLocal ==
    ASSUME LockInv, OneCall, HoldersRun, ~late, ~late',
           \/ \E c \in Client : BeginAwake(c) \/ EndTrans(c)
                                \/ \E type \in {"read", "write"} : Begin(c, type)
           \/ SendStart \/ SendEnd \/ Lapse \/ GiveUp
    PROVE  OneCall' /\ HoldersRun'
<1> USE DEF LockInv
<1>1. UNCHANGED <<held, current, ptr>>
    BY DEF BeginAwake, EndTrans, Begin, SendStart, SendEnd, Lapse, GiveUp, BeginLocal,
           transVars, remoteVars
<1>2. call' = call \/ (call.phase # "calling" /\ call'.phase # "calling")
    BY DEF BeginAwake, EndTrans, Begin, SendStart, SendEnd, Lapse, GiveUp, remoteVars,
           RemoteTypes
<1>3. \/ at' = at
      \/ \E th \in Client \cup {Recovery}, pc \in States :
            /\ at' = [at EXCEPT ![th] = pc]
            /\ th \in Client /\ at[th] \in {"locked", "committing"} => pc = "committing"
  <2>1. CASE \E c \in Client : BeginAwake(c) \/ EndTrans(c)
      BY <2>1 DEF BeginAwake, EndTrans, States
  <2>2. CASE \E c \in Client, type \in {"read", "write"} : Begin(c, type)
      BY <2>2 DEF Begin, States
  <2>3. CASE SendStart \/ SendEnd
    <3>1. \E pc \in {"sendWait", "sending", "idle"} : at' = [at EXCEPT ![Recovery] = pc]
        BY <2>3 DEF SendStart, SendEnd
    <3> QED
        BY <3>1, Distinct DEF States
  <2>4. CASE Lapse \/ GiveUp
      BY <2>4 DEF Lapse, GiveUp
  <2> QED
      BY <2>1, <2>2, <2>3, <2>4
<1>4. \A c \in Client : at[c] \in {"locked", "committing"} =>
                            at'[c] \in {"locked", "committing"}
    BY <1>3, Distinct DEF ThreadTypes
<1>5. \A h \in Handler : at'[h] = at[h]
    BY <1>3, Distinct DEF ThreadTypes
<1>6. \A l \in held' : IF l.trans \in Client THEN at'[l.trans] \in {"locked", "committing"}
                       ELSE l \in held /\ l.trans = current'
    BY <1>1, <1>4 DEF HoldersRun
<1> QED
    BY <1>1, <1>2, <1>5, <1>6, HoldKeep

(* Whoever gets a lock in ubik_SetLock goes on with it.                    *)
LEMMA HoldSetLock ==
    ASSUME LockInv, OneCall, HoldersRun, ~late, NEW c \in Client, SetLock(c)
    PROVE  OneCall' /\ HoldersRun'
<1> USE DEF LockInv
<1>1. /\ c \in Thread /\ at[c] \in {"open", "lock"}
      /\ UNCHANGED <<current, ptr, call>>
    BY Distinct DEF SetLock, remoteVars
<1>2. \/ held' = held /\ \E pc \in States : at' = [at EXCEPT ![c] = pc]
      \/ /\ held' = held \cup {[trans |-> c, type |-> kind[c]]}
         /\ at' = [at EXCEPT ![c] = "locked"]
    BY DEF SetLock, Sleep, Grant, States
<1>3. \A th \in Thread \ {c} : at'[th] = at[th]
    BY <1>1, <1>2 DEF ThreadTypes
<1>4. \A h \in Handler : at'[h] = at[h]
    BY <1>3, Distinct
<1>5. \A l \in held' : l \in held \/ (l.trans = c /\ at'[c] = "locked")
    BY <1>1, <1>2 DEF ThreadTypes
<1>6. \A l \in held : IF l.trans \in Client
                      THEN l.trans # c /\ at[l.trans] \in {"locked", "committing"}
                      ELSE l.trans = current
    BY <1>1 DEF HoldersRun
<1>7. \A l \in held' : IF l.trans \in Client THEN at'[l.trans] \in {"locked", "committing"}
                       ELSE l \in held /\ l.trans = current'
    BY <1>1, <1>3, <1>5, <1>6, Distinct
<1> QED
    BY <1>1, <1>4, <1>7, HoldKeep

(* udisk_end wakes others, and takes the locks of one transaction.         *)
LEMMA WokenHolds ==
    ASSUME LockInv, NEW t, NEW th \in Thread
    PROVE  /\ at[th] \in {"locked", "committing"} => Woken(t)[th] = at[th]
           /\ Woken(t)[th] = "idle" <=> at[th] = "idle"
           /\ Woken(t)[th] = "bulk" <=> at[th] = "bulk"
           /\ Woken(t)[th] = "relock" <=> at[th] = "relock"
BY DEF LockInv, ThreadTypes, Woken, States

(* The end of a client's transaction.                                      *)
LEMMA HoldEndOwn ==
    ASSUME LockInv, OneCall, HoldersRun, ~late, NEW c \in Client, Commit(c) \/ Abort(c)
    PROVE  OneCall' /\ HoldersRun'
<1> USE DEF LockInv
<1>1. /\ c \in Thread /\ at' = [Woken(c) EXCEPT ![c] = "idle"]
      /\ held' = {l \in held : l.trans # c}
      /\ UNCHANGED <<current, ptr, call>>
    BY Distinct DEF Commit, Abort, End, remoteVars
<1>2. \A th \in Thread : at'[th] = IF th = c THEN "idle" ELSE Woken(c)[th]
    BY <1>1, WokenStates
<1>3. \A h \in Handler : /\ at'[h] = "idle" <=> at[h] = "idle"
                         /\ at'[h] = "bulk" <=> at[h] = "bulk"
    BY <1>2, WokenHolds, Distinct
<1>4. \A l \in held' : IF l.trans \in Client THEN at'[l.trans] \in {"locked", "committing"}
                       ELSE l \in held /\ l.trans = current'
    BY <1>1, <1>2, WokenHolds, Distinct DEF HoldersRun
<1> QED
    BY <1>1, <1>3, <1>4, HoldKeep

(* The calls of the remote sync site that end its transaction, beacons,    *)
(* and a new database.                                                     *)
LEMMA HoldSite ==
    ASSUME LockInv, OneCall, HoldersRun, ~late,
           SiteStep \/ Beacon \/ SendFile \/ UNCHANGED vars
    PROVE  OneCall' /\ HoldersRun'
<1> USE DEF LockInv
<1>1. ptr' = ptr /\ (call' = call \/ (call.phase # "calling" /\ call'.phase # "calling"))
    BY DEF SiteStep, RemoteCommit, ReleaseLocks, Beacon, SendFile, remoteVars, vars,
           RemoteTypes
<1>2. \/ at' = at /\ held' = held /\ current' = current
      \/ /\ at' = Woken(current) /\ held' = {l \in held : l.trans # current}
         /\ (Beacon /\ Older) \/ call.phase # "calling"
  <2>1. CASE SiteStep
      BY <2>1 DEF SiteStep, RemoteCommit, ReleaseLocks, End, transVars
  <2>2. CASE Beacon
      BY <2>2 DEF Beacon, End
  <2>3. CASE SendFile \/ UNCHANGED vars
      BY <2>3 DEF SendFile, vars, transVars
  <2> QED
      BY <2>1, <2>2, <2>3
<1>3. CASE at' = at /\ held' = held /\ current' = current
    BY <1>1, <1>3, HoldKeep DEF HoldersRun
<1>4. CASE /\ at' = Woken(current) /\ held' = {l \in held : l.trans # current}
           /\ (Beacon /\ Older) \/ call.phase # "calling"
  <2>1. \A h \in Handler : /\ at'[h] = "idle" <=> at[h] = "idle"
                           /\ at'[h] = "bulk" <=> at[h] = "bulk"
      BY <1>4, WokenHolds, Distinct
  <2>2. \A h \in Handler : at[h] \in {"idle", "bulk"}
    <3>1. Older => current # call.tid
        BY Distinct DEF Older, RemoteTypes, Nobody, TransTypes, Trans
    <3> QED
        BY <1>4, <3>1 DEF OneCall
  <2>3. \A l \in held' : IF l.trans \in Client
                         THEN at'[l.trans] \in {"locked", "committing"}
                         ELSE l \in held /\ l.trans = current'
      BY <1>4, WokenHolds, Distinct DEF HoldersRun
  <2> QED
      BY <1>1, <2>1, <2>2, <2>3, HoldKeep
<1> QED
    BY <1>2, <1>3, <1>4

(* A call comes when no other is served: its handler ends the transaction  *)
(* that has the lock.                                                      *)
LEMMA HoldCall ==
    ASSUME LockInv, OneCall, HoldersRun, ~late, NEW h \in Handler, Call(h)
    PROVE  OneCall' /\ HoldersRun'
<1> USE DEF LockInv
<1>1. /\ at' = [at EXCEPT ![h] = "bulk"] /\ h \in Thread /\ call.phase = "over"
      /\ call' = [tid |-> call.tid + 1, phase |-> "calling", by |-> h]
      /\ ptr' = [ptr EXCEPT ![h] = call'.tid]
      /\ UNCHANGED <<held, current>>
    BY Distinct DEF Call, transVars
<1>2. \A th \in Thread : at'[th] = IF th = h THEN "bulk" ELSE at[th]
    BY <1>1 DEF ThreadTypes
<1>3. \A i \in Handler : at[i] = "idle"
    BY <1>1 DEF OneCall
<1>4. ptr'[h] = call'.tid
    BY <1>1 DEF RemoteTypes
<1>5. call'.by = h /\ call'.phase = "calling"
    BY <1>1
<1>6. OneCall'
    BY <1>2, <1>3, <1>4, <1>5, Distinct DEF OneCall
<1>7. HoldersRun'
    BY <1>1, <1>2, <1>5, Distinct DEF HoldersRun
<1> QED
    BY <1>6, <1>7

(* UBULK_BEGIN ends the transaction that has the lock, if it can.          *)
LEMMA HoldBulkBegin ==
    ASSUME LockInv, ReadInv, OneCall, HoldersRun, ~late, NEW h \in Handler, BulkBegin(h)
    PROVE  OneCall' /\ HoldersRun'
<1> USE DEF LockInv
<1>1. /\ at[h] = "bulk" /\ h \in Thread /\ ptr' = ptr
      /\ call.phase = "calling" /\ call.by = h /\ ptr[h] = call.tid
    BY Distinct DEF BulkBegin, OneCall
<1>2. \A i \in Handler \ {h} : at[i] = "idle"
    BY <1>1 DEF OneCall
<1>3. CASE writing /\ current = Nobody
  <2>1. /\ at' = [at EXCEPT ![h] = "idle"] /\ Return(h, FALSE)
        /\ UNCHANGED <<held, current>>
      BY <1>3 DEF BulkBegin, transVars
  <2>2. \A th \in Thread : at'[th] = IF th = h THEN "idle" ELSE at[th]
      BY <1>1, <2>1 DEF ThreadTypes
  <2>3. call'.phase = "over"
      BY <1>1, <2>1 DEF Return, RemoteTypes
  <2>4. OneCall'
      BY <1>2, <2>2, <2>3, Distinct DEF OneCall
  <2>5. HoldersRun'
      BY <2>1, <2>2, <2>3, Distinct DEF HoldersRun
  <2> QED
      BY <2>4, <2>5
<1>4. CASE ~(writing /\ current = Nobody)
  <2>1. /\ held' = {l \in held : l.trans # current}
        /\ at' = [Woken(current) EXCEPT ![h] = "relock"]
        /\ current' = ptr[h] /\ call' = call
      BY <1>4 DEF BulkBegin
  <2>2. \A th \in Thread : at'[th] = IF th = h THEN "relock" ELSE Woken(current)[th]
      BY <1>1, <2>1, WokenStates
  <2>3. \A i \in Handler \ {h} : at'[i] = "idle"
      BY <1>2, <2>2, WokenHolds, Distinct
  <2>4. OneCall'
      BY <1>1, <2>1, <2>2, <2>3 DEF OneCall
  <2>5. \A l \in held' : l.trans \in Client /\ at'[l.trans] \in {"locked", "committing"}
      BY <2>1, <2>2, WokenHolds, Distinct DEF HoldersRun
  <2>6. HoldersRun'
      BY <2>5 DEF HoldersRun
  <2> QED
      BY <2>4, <2>6
<1> QED
    BY <1>3, <1>4

(* UBULK_LOCK, before a sleep and after it, returns with the lock of the   *)
(* current transaction.                                                    *)
LEMMA HoldBulkLock ==
    ASSUME LockInv, ReadInv, OneCall, HoldersRun, ~late, NEW h \in Handler,
           BulkLock(h) \/ BulkAwake(h)
    PROVE  OneCall' /\ HoldersRun'
<1> USE DEF LockInv
<1>1. /\ at[h] \in {"relock", "lock"} /\ h \in Thread /\ current' = current
      /\ call.phase = "calling" /\ call.by = h /\ ptr[h] = call.tid /\ current = call.tid
    BY Distinct DEF BulkLock, BulkAwake, OneCall
<1>2. ptr'[h] = call.tid
  <2>1. CASE BulkLock(h)
      BY <1>1, <2>1 DEF BulkLock, RemoteTypes
  <2>2. CASE BulkAwake(h)
      BY <1>1, <2>2 DEF BulkAwake
  <2> QED
      BY <2>1, <2>2
<1>3. \A i \in Handler \ {h} : at[i] = "idle"
    BY <1>1 DEF OneCall
<1>4. \A l \in held : l.trans \in Client /\ at[l.trans] \in {"locked", "committing"}
    BY <1>1 DEF HoldersRun
<1>5. \/ at' = [at EXCEPT ![h] = "lockWait"] /\ held' = held /\ call' = call
      \/ /\ at' = [at EXCEPT ![h] = "idle"]
         /\ held' = held \/ held' = held \cup {[trans |-> current, type |-> "write"]}
         /\ Return(h, TRUE) \/ Return(h, FALSE)
  <2>1. CASE BulkLock(h)
      BY <2>1 DEF BulkLock, Sleep, Grant
  <2>2. CASE BulkAwake(h)
      BY <1>1, <2>2 DEF BulkAwake, Sleep, Grant
  <2> QED
      BY <2>1, <2>2
<1>6. CASE at' = [at EXCEPT ![h] = "lockWait"] /\ held' = held /\ call' = call
  <2>1. \A th \in Thread : at'[th] = IF th = h THEN "lockWait" ELSE at[th]
      BY <1>1, <1>6 DEF ThreadTypes
  <2>2. OneCall'
      BY <1>1, <1>2, <1>3, <1>6, <2>1, Distinct DEF OneCall
  <2>3. HoldersRun'
      BY <1>4, <1>6, <2>1, Distinct DEF HoldersRun
  <2> QED
      BY <2>2, <2>3
<1>7. CASE /\ at' = [at EXCEPT ![h] = "idle"]
           /\ held' = held \/ held' = held \cup {[trans |-> current, type |-> "write"]}
           /\ Return(h, TRUE) \/ Return(h, FALSE)
  <2>1. \A th \in Thread : at'[th] = IF th = h THEN "idle" ELSE at[th]
      BY <1>1, <1>7 DEF ThreadTypes
  <2>2. call'.phase # "calling"
      BY <1>1, <1>7 DEF Return, RemoteTypes
  <2>3. OneCall'
      BY <1>3, <2>1, <2>2, Distinct DEF OneCall
  <2>4. current \notin Client
      BY Distinct DEF RemoteTypes
  <2>5. \A l \in held' : l \in held \/ l.trans = current
      BY <1>7
  <2>6. \A l \in held' : IF l.trans \in Client THEN at'[l.trans] \in {"locked", "committing"}
                         ELSE l.trans = current'
      BY <1>1, <1>4, <2>1, <2>4, <2>5, Distinct
  <2>7. HoldersRun'
      BY <2>2, <2>6 DEF HoldersRun
  <2> QED
      BY <2>3, <2>7
<1> QED
    BY <1>5, <1>6, <1>7

(* While no call was given up, UBULK_LOCK finds its transaction.           *)
LEMMA NotNullNorDangling ==
    ASSUME LockInv, OneCall, NEW h \in Handler
    PROVE  ~BulkNull(h) /\ ~BulkDangling(h)
<1> USE DEF LockInv
<1>1. SUFFICES ASSUME at[h] \in {"relock", "lock"}
               PROVE  current # Nobody /\ ptr[h] \in live
    BY DEF BulkNull, BulkDangling
<1>2. call.phase = "calling" /\ ptr[h] = call.tid /\ current = call.tid
    BY <1>1 DEF OneCall
<1>3. call.tid # 0
    BY <1>2 DEF CallsRefer
<1> QED
    BY <1>2, <1>3 DEF RemoteTypes, Nobody

(* HoldInv is inductive on top of the two invariants.                      *)
LEMMA HoldStep == LockInv /\ ReadInv /\ HoldInv /\ [Next]_vars => HoldInv'
<1> SUFFICES ASSUME LockInv, ReadInv, HoldInv, [Next]_vars, ~late'
             PROVE  OneCall' /\ HoldersRun'
    BY DEF HoldInv
<1>1. ~late /\ OneCall /\ HoldersRun
  <2>1. late' = late \/ GiveUp
    <3>1. ASSUME NEW c \in Client,
                 ClientStep(c) \/ \E type \in {"read", "write"} : Begin(c, type)
          PROVE  late' = late
        BY <3>1 DEF ClientStep, BeginAwake, SetLock, EndTrans, Commit, Abort, Begin
    <3>2. ASSUME NEW h \in Handler, Call(h) \/ HandlerStep(h)
          PROVE  late' = late
        BY <3>2 DEF HandlerStep, Call, BulkBegin, BulkLock, BulkNull, BulkAwake,
                    BulkDangling
    <3>3. SendStart \/ SendEnd \/ Lapse \/ SiteStep \/ Beacon \/ SendFile
          \/ UNCHANGED vars => late' = late
        BY DEF SendStart, SendEnd, Lapse, SiteStep, RemoteCommit, ReleaseLocks, Beacon,
               SendFile, vars
    <3> QED
        BY <3>1, <3>2, <3>3 DEF Next
  <2>2. ~late
      BY <2>1 DEF GiveUp
  <2> QED
      BY <2>2 DEF HoldInv
<1>2. ASSUME NEW c \in Client, ClientStep(c) \/ \E type \in {"read", "write"} : Begin(c, type)
      PROVE  OneCall' /\ HoldersRun'
    BY <1>1, <1>2, HoldSetLock, HoldEndOwn, HoldLocal DEF ClientStep
<1>3. CASE SendStart \/ SendEnd \/ Lapse \/ GiveUp
    BY <1>1, <1>3, HoldLocal
<1>4. ASSUME NEW h \in Handler, Call(h) \/ HandlerStep(h)
      PROVE  OneCall' /\ HoldersRun'
    BY <1>1, <1>4, HoldCall, HoldBulkBegin, HoldBulkLock, NotNullNorDangling
       DEF HandlerStep
<1>5. CASE SiteStep \/ Beacon \/ SendFile \/ UNCHANGED vars
    BY <1>1, <1>5, HoldSite
<1> QED
    BY <1>2, <1>3, <1>4, <1>5 DEF Next

(* At the start there are no locks and no calls.                           *)
LEMMA HoldInitially == Init => HoldInv
BY Distinct DEF Init, HoldInv, OneCall, HoldersRun

(* HoldInv holds in every state of every behaviour.                        *)
LEMMA HoldInvariant == Spec => []HoldInv
<1> QED
    BY LockInvariant, ReadInvariant, HoldInitially, HoldStep, PTL DEF Spec

\* Handlers are in their own states; remote transactions come when this server is not
\* the sync site any more, and one at a time.
RemoteInv ==
    /\ \A h \in Handler : at[h] \in {"idle", "bulk", "relock", "lock", "lockWait"}
    /\ live \subseteq Client \cup {current}
    /\ site => current = Nobody /\ \A h \in Handler : at[h] = "idle"

(* What wakeups and the own steps of a handler do with its state.          *)
LEMMA RemoteHandlers ==
    ASSUME LockInv, RemoteInv, [Next]_vars, NEW h \in Handler
    PROVE  /\ at'[h] \in {"idle", "bulk", "relock", "lock", "lockWait"}
           /\ at[h] = "idle" => at'[h] = "idle" \/ Call(h)
<1> USE DEF LockInv
<1>1. h \in Thread /\ h \notin Client /\ h # Recovery
      /\ at[h] \in {"idle", "bulk", "relock", "lock", "lockWait"}
    BY Distinct DEF RemoteInv
<1>2. \A t : /\ Woken(t)[h] \in {"idle", "bulk", "relock", "lock", "lockWait"}
             /\ at[h] = "idle" => Woken(t)[h] = "idle"
    BY <1>1 DEF Woken
<1>3. ASSUME NEW c \in Client, ClientStep(c) \/ \E type \in {"read", "write"} : Begin(c, type)
      PROVE  \/ \E pc : at' = [at EXCEPT ![c] = pc]
             \/ at' = [Woken(c) EXCEPT ![c] = "idle"]
    BY <1>3 DEF ClientStep, BeginAwake, SetLock, Sleep, Grant, EndTrans, Commit, Abort, Begin
<1>4. ASSUME NEW i \in Handler, Call(i) \/ HandlerStep(i)
      PROVE  \/ \E pc \in {"idle", "bulk", "relock", "lock", "lockWait"} :
                   /\ \/ at' = [at EXCEPT ![i] = pc]
                      \/ at' = [Woken(current) EXCEPT ![i] = pc]
                   /\ at[i] # "idle" \/ Call(i)
             \/ at' = [th \in Thread |-> "idle"]
  <2>1. CASE Call(i)
      BY <2>1 DEF Call
  <2>2. CASE BulkBegin(i)
      BY <2>2 DEF BulkBegin
  <2>3. CASE BulkLock(i) \/ BulkAwake(i) \/ BulkDangling(i)
      BY <2>3 DEF BulkLock, BulkAwake, BulkDangling, Sleep, Grant
  <2>4. CASE BulkNull(i)
      BY <2>4 DEF BulkNull
  <2> QED
      BY <1>4, <2>1, <2>2, <2>3, <2>4 DEF HandlerStep
<1>5. CASE SendStart \/ SendEnd \/ Lapse \/ GiveUp \/ SiteStep \/ Beacon \/ SendFile
           \/ UNCHANGED vars
  <2>1. \/ at' = at \/ at' = Woken(current)
        \/ \E pc : at' = [at EXCEPT ![Recovery] = pc]
      BY <1>5 DEF SendStart, SendEnd, Lapse, GiveUp, SiteStep, RemoteCommit, ReleaseLocks,
                  Beacon, SendFile, vars
  <2> QED
      BY <1>1, <1>2, <2>1 DEF ThreadTypes
<1>6. CASE \E c \in Client : ClientStep(c) \/ \E type \in {"read", "write"} : Begin(c, type)
    BY <1>1, <1>2, <1>3, <1>6, WokenStates DEF ThreadTypes
<1>7. CASE \E i \in Handler : Call(i) \/ HandlerStep(i)
    BY <1>1, <1>2, <1>4, <1>7, WokenStates DEF ThreadTypes
<1> QED
    BY <1>5, <1>6, <1>7 DEF Next

(* Remote transactions come by UBULK_BEGIN, which ends the one before.     *)
LEMMA RemoteTrans ==
    ASSUME LockInv, RemoteInv, [Next]_vars
    PROVE  /\ live' \subseteq Client \cup {current'}
           /\ site' => site
           /\ site' => current' = current
           /\ \A h \in Handler : Call(h) => ~site'
<1> USE DEF LockInv, RemoteInv
<1>0. SUFFICES /\ live' \subseteq Client \cup {current'}
               /\ site' => site /\ current' = current
    BY DEF Call
<1>1. ASSUME NEW c \in Client, ClientStep(c) \/ \E type \in {"read", "write"} : Begin(c, type)
      PROVE  /\ live' \subseteq live \cup {c} /\ current' = current /\ site' = site
    BY <1>1 DEF ClientStep, BeginAwake, SetLock, EndTrans, Commit, Abort, Begin, BeginLocal,
                End, transVars
<1>2. ASSUME NEW h \in Handler, Call(h) \/ HandlerStep(h)
      PROVE  /\ live' \subseteq Client \cup {current'} /\ ~site /\ ~site'
  <2>1. CASE Call(h)
      BY <2>1 DEF Call, transVars
  <2>2. CASE HandlerStep(h)
    <3>1. at[h] # "idle"
        BY <2>2 DEF HandlerStep, BulkBegin, BulkLock, BulkNull, BulkAwake, BulkDangling
    <3>2. ~site
        BY <3>1
    <3>3. ~site'
        BY <2>2, <3>2 DEF HandlerStep, BulkBegin, BulkLock, BulkNull, BulkAwake, BulkDangling
    <3>4. live' \subseteq Client \cup {current'}
        BY <2>2 DEF HandlerStep, BulkBegin, BulkLock, BulkNull, BulkAwake, BulkDangling,
                    transVars
    <3> QED
        BY <3>2, <3>3, <3>4
  <2> QED
      BY <1>2, <2>1, <2>2
<1>3. CASE SendStart \/ SendEnd \/ Lapse \/ GiveUp \/ SendFile \/ UNCHANGED vars
  <2>1. live' = live /\ current' = current /\ (site' => site)
      BY <1>3 DEF SendStart, SendEnd, Lapse, GiveUp, SendFile, vars, transVars
  <2> QED
      BY <2>1
<1>4. CASE SiteStep \/ Beacon
  <2>1. /\ site' = site
        /\ \/ live' = live /\ current' = current
           \/ live' = live \ {current} /\ current # Nobody
      BY <1>4 DEF SiteStep, RemoteCommit, ReleaseLocks, Beacon, Older, End, transVars
  <2> QED
      BY <2>1
<1> QED
    BY <1>1, <1>2, <1>3, <1>4 DEF Next

LEMMA RemoteStep == LockInv /\ RemoteInv /\ [Next]_vars => RemoteInv'
<1> SUFFICES ASSUME LockInv, RemoteInv, [Next]_vars PROVE RemoteInv'
    OBVIOUS
<1>1. site' => current' = Nobody /\ \A h \in Handler : at'[h] = "idle"
    BY RemoteHandlers, RemoteTrans DEF RemoteInv
<1> QED
    BY <1>1, RemoteHandlers, RemoteTrans DEF RemoteInv

LEMMA RemoteInitially == Init => RemoteInv
BY Distinct DEF Init, RemoteInv

(* Whoever waits for a lock waits for somebody who runs or for the sync    *)
(* site.                                                                   *)
LEMMA LockWaitEnds ==
    ASSUME LockInv, RemoteInv, OneCall, HoldersRun, ~late,
           NEW th \in Thread, at[th] = "lockWait"
    PROVE  \/ \E u \in Thread : at[u] \notin {"idle", "beginWait", "sendWait", "lockWait"}
           \/ current # Nobody /\ ~site /\ call.phase # "calling"
<1> USE DEF LockInv
<1>1. PICK l \in held : l.trans = on[th]
    BY DEF SleepersAreWoken
<1>2. CASE l.trans \in Client
    BY <1>2, Distinct DEF HoldersRun
<1>3. CASE l.trans \notin Client
  <2>1. l.trans = current /\ l.trans \in live
      BY <1>3 DEF HoldersRun, TransTypes
  <2>2. current # Nobody /\ ~site
      BY <2>1, Distinct DEF RemoteInv, TransTypes
  <2>3. CASE call.phase = "calling"
    <3>1. at[call.by] = "bulk" /\ call.by \in Thread
        BY <1>3, <2>3, Distinct DEF HoldersRun, OneCall
    <3> QED
        BY <3>1
  <2> QED
      BY <2>2, <2>3
<1> QED
    BY <1>2, <1>3

(* Whoever waits for the write transaction waits for a client that is in   *)
(* it, or for the sync site and the handler of its call.                   *)
LEMMA WritingEnds ==
    ASSUME LockInv, RemoteInv, OneCall, HoldersRun, ~late, writing
    PROVE  \/ \E u \in Thread : at[u] \notin {"idle", "beginWait", "sendWait", "lockWait"}
           \/ current # Nobody /\ ~site /\ call.phase # "calling"
<1> USE DEF LockInv
<1>1. PICK w \in live : Writers = {w}
    BY DEF Counted
<1>2. CASE w \in Client
  <2>1. w \in Thread /\ at[w] \in InTrans
      BY <1>2, Distinct DEF ClientsIn
  <2> QED
      BY <2>1, LockWaitEnds DEF InTrans
<1>3. CASE w \notin Client
  <2>1. w = current /\ current # Nobody
      BY <1>3, Distinct DEF RemoteInv, TransTypes
  <2>2. ~site
      BY <2>1 DEF RemoteInv
  <2>3. CASE call.phase = "calling"
    <3>1. call.by \in Handler /\ call.by \in Thread /\ at[call.by] # "idle"
        BY <2>3, Distinct DEF OneCall
    <3>2. at[call.by] \in {"bulk", "relock", "lock", "lockWait"}
        BY <3>1 DEF RemoteInv
    <3> QED
        BY <3>1, <3>2, LockWaitEnds
  <2> QED
      BY <2>1, <2>2, <2>3
<1> QED
    BY <1>2, <1>3

(* So there is always somebody who can go on.                              *)
LEMMA SomeoneGoesOn == LockInv /\ RemoteInv /\ HoldInv => SomeoneRuns
<1> SUFFICES ASSUME LockInv, RemoteInv, OneCall, HoldersRun, ~late,
                    NEW th \in Thread, at[th] \in {"beginWait", "sendWait", "lockWait"}
             PROVE  \/ \E u \in Thread : at[u] \notin {"idle", "beginWait", "sendWait", "lockWait"}
                    \/ current # Nobody /\ ~site /\ call.phase # "calling"
    BY DEF SomeoneRuns, HoldInv
<1>1. CASE at[th] = "lockWait"
    BY <1>1, LockWaitEnds
<1>2. CASE at[th] \in {"beginWait", "sendWait"}
  <2>1. writing
      BY <1>2 DEF LockInv, SleepersAreWoken
  <2> QED
      BY <2>1, WritingEnds
<1> QED
    BY <1>1, <1>2
-----------------------------------------------------------------------------
(* The variables keep to their types; in particular, only transactions on  *)
(* dbase->activeTrans hold locks, and ubik_currentTrans is one of them.    *)
THEOREM LockTypeCorrect == Spec => []LockTypeOK
<1> QED
    BY LockInvariant, LockInvImplies, PTL

(* A write lock excludes every other lock (ulock_SetLock), also the lock   *)
(* that a handler takes for a transaction that is freed.                   *)
THEOREM LocksExclude == Spec => []Exclusion
<1> QED
    BY LockInvariant, LockInvImplies, PTL

(* At most one write transaction occurs at any one time, and dbase->flags  *)
(* and dbase->readers agree with dbase->activeTrans (udisk_begin and       *)
(* udisk_end).                                                             *)
THEOREM TransactionsCounted == Spec => []WritersCounted
<1> QED
    BY LockInvariant, LockInvImplies, PTL

(* No wakeup is lost: whoever sleeps on a lock or on dbase->flags sleeps   *)
(* on something that is there and will be announced when it goes.          *)
THEOREM WakeupsNotLost == Spec => []SleepersAreWoken
<1> QED
    BY LockInvariant, LockInvImplies, PTL

(* While a transaction has its lock and was not aborted, nobody else       *)
(* changes the database: udisk_commit and SUBIKDISK_Commit run under the   *)
(* write lock of their transaction, and SUBIKDISK_SendFile aborts all      *)
(* others.                                                                 *)
THEOREM ReadsRepeat == Spec => []RepeatableRead
<1>1. ReadInv => RepeatableRead
    BY DEF ReadInv
<1> QED
    BY <1>1, ReadInvariant, PTL

(* Whoever has the lock does not wait for anybody, so that no threads wait *)
(* for each other in a circle: while no call was given up that was being   *)
(* served, UBULK_BEGIN has ended the transaction before, and only a remote *)
(* transaction that the next handler is about to end has a call to come.   *)
THEOREM NoCircularWait == Spec => []HoldersRun
<1>1. HoldInv => HoldersRun
    BY DEF HoldInv, HoldersRun
<1> QED
    BY <1>1, HoldInvariant, PTL

(* While something is under way, somebody can go on who waits for nobody:  *)
(* a thread, or the remote sync site with UBIKDISK_Commit, a release of    *)
(* its locks or a beacon (lock.c, udisk_begin, SUBIKDISK_BulkUpdate).      *)
THEOREM SomeoneAlwaysRuns == Spec => []SomeoneRuns
<1> QED
    BY LockInvariant, HoldInvariant, RemoteInitially, RemoteStep, SomeoneGoesOn, PTL DEF Spec
=============================================================================
