--------------------------- MODULE DesktopProofs ----------------------------
(***************************************************************************)
(* The desktop, for every set of what it is made of: the lock and the idle *)
(* timers are honoured, a screen's colours are of who owns them, a         *)
(* configuration of the outputs is judged as asked, and the pointer stays  *)
(* among them; and panels, taskbars, pagers, everyone who looks at the     *)
(* screens, and who pastes, have been told how things are.                 *)
(***************************************************************************)
EXTENDS Desktop, OutputConfigs, Ramps, PositionProofs

-----------------------------------------------------------------------------
(* The lock.  The compositor lags behind by the events that it has not      *)
(* handled; the last of them about a lock, or a lock surface, says what is  *)
(* true of it now, and where there is none the compositor knows.            *)

\* Of the positions `at` of a queue, the last says now, which is yes if it is
\* in `yes`; without any, base says it.
Latest(at, yes, base, now) ==
    /\ at = {} => (base <=> now)
    /\ \A i \in at : (\A j \in at : j <= i) => (i \in yes <=> now)

LockKinds == {"NewLock", "LockDestroy"}
DrapeKinds == {"SurfaceMap", "SurfaceDestroy"}
OfLock(e, l) == e.kind \in LockKinds /\ e.lock = l
OfDrape(e, l, s) == e.kind \in DrapeKinds /\ e.lock = l /\ e.screen = s
LockAt(q, l) == {i \in DOMAIN q : OfLock(q[i], l)}
DrapeAt(q, l, s) == {i \in DOMAIN q : OfDrape(q[i], l, s)}
KindAt(q, kind) == {i \in DOMAIN q : q[i].kind = kind}

Lock == [alive : BOOLEAN, used : BOOLEAN, heard : BOOLEAN,
         locked : BOOLEAN, finished : BOOLEAN, unlocking : BOOLEAN]
Mapped(l, s) == locks[l].heard /\ drapes[l][s] = "mapped"

LocksKnown ==
    \A l \in Lockers :
        /\ ~locks[l].used => ~locks[l].alive /\ ~locks[l].heard /\ ~locks[l].locked
        /\ ~locks[l].used => \A s \in Screens : drapes[l][s] = "none"
        /\ locks[l].alive /\ locks[l].heard <=> current = l
        /\ locks[l].alive /\ locks[l].locked => sessionLocked /\ current = l
        /\ l \in lockAsked => locks[l].heard
        /\ locks[l].unlocking => ~locks[l].alive /\ locks[l].used

CallsKnown == \A i \in DOMAIN calls : calls[i].kind = "NewLock" => locks[calls[i].lock].heard

LockTold(l) == Latest(LockAt(calls, l), KindAt(calls, "NewLock"), l \in lockAsked, current = l)
DrapeTold(l, s) ==
    Latest(DrapeAt(calls, l, s), KindAt(calls, "SurfaceMap"), <<l, s>> \in covering, Mapped(l, s))

LocksTyped ==
    /\ locks \in [Lockers -> Lock]
    /\ drapes \in [Lockers -> [Screens -> {"none", "made", "mapped"}]]
    /\ current \in Lockers \cup {NoLock}
    /\ calls \in Seq(SessionLockEvent)
    /\ lockAsked \subseteq Lockers /\ covering \subseteq Lockers \X Screens

LockInv ==
    /\ LocksTyped /\ LocksKnown /\ CallsKnown
    /\ \A l \in Lockers : LockTold(l)
    /\ \A l \in Lockers, s \in Screens : DrapeTold(l, s)

LEMMA LatestSame ==
    ASSUME NEW at, NEW yes, NEW base, NEW now, Latest(at, yes, base, now),
           NEW yes2, NEW base2, NEW now2, \A i \in at : i \in yes2 <=> i \in yes,
           base2 <=> base, now2 <=> now
    PROVE  Latest(at, yes2, base2, now2)
  BY DEF Latest

LEMMA LatestAppended ==
    ASSUME NEW n \in Nat, NEW at \in SUBSET (1..n), NEW yes, NEW base, NEW now,
           n + 1 \in yes <=> now
    PROVE  Latest(at \cup {n + 1}, yes, base, now)
<1>1. ASSUME NEW i \in at \cup {n + 1}, \A j \in at \cup {n + 1} : j <= i
      PROVE  i = n + 1
  BY <1>1
<1> QED
  BY <1>1 DEF Latest

LEMMA LatestOfTail ==
    ASSUME NEW n \in Nat \ {0}, NEW at \in SUBSET (1..n), NEW yes, NEW base, NEW now,
           Latest(at, yes, base, now),
           NEW at2, at2 = {i \in 1..(n - 1) : i + 1 \in at},
           NEW yes2, \A i \in at2 : i \in yes2 <=> i + 1 \in yes,
           NEW base2, 1 \in at => (base2 <=> 1 \in yes), 1 \notin at => (base2 <=> base)
    PROVE  Latest(at2, yes2, base2, now)
<1>1. ASSUME at2 = {} PROVE base2 <=> now
  <2>1. at \subseteq {1}
    <3>1. ASSUME NEW i \in at, i # 1 PROVE FALSE
      <4>1. i - 1 \in 1..(n - 1) /\ (i - 1) + 1 = i
        BY <3>1
      <4> QED
        BY <1>1, <4>1
    <3> QED
      BY <3>1
  <2>2. CASE 1 \in at
    <3>1. \A j \in at : j <= 1
      BY <2>1
    <3>2. 1 \in yes <=> now
      BY <2>2, <3>1 DEF Latest
    <3> QED
      BY <2>2, <3>2
  <2>3. CASE 1 \notin at
    BY <2>1, <2>3 DEF Latest
  <2> QED
    BY <2>2, <2>3
<1>2. ASSUME NEW i \in at2, \A j \in at2 : j <= i
      PROVE  i \in yes2 <=> now
  <2>1. i + 1 \in at /\ i \in 1..(n - 1)
    OBVIOUS
  <2>2. ASSUME NEW j \in at PROVE j <= i + 1
    <3>1. CASE j = 1
      BY <2>1, <3>1
    <3>2. CASE j # 1
      <4>1. j - 1 \in 1..(n - 1) /\ (j - 1) + 1 = j
        BY <3>2
      <4>2. j - 1 <= i
        BY <1>2, <4>1
      <4> QED
        BY <2>1, <4>1, <4>2
    <3> QED
      BY <3>1, <3>2
  <2>3. i + 1 \in yes <=> now
    BY <2>1, <2>2 DEF Latest
  <2> QED
    BY <2>3
<1> QED
  BY <1>1, <1>2 DEF Latest

LEMMA EventIs ==
    ASSUME NEW e \in SessionLockEvent
    PROVE  /\ e.lock \in Lockers
           /\ e.kind \in LockKinds \/ (e.kind \in DrapeKinds /\ e.screen \in Screens)
  BY DEF SessionLockEvent, LockKinds, DrapeKinds

LEMMA KindsDiffer ==
    /\ LockKinds \cap DrapeKinds = {}
    /\ "NewLock" \in LockKinds /\ "LockDestroy" \in LockKinds
    /\ "SurfaceMap" \in DrapeKinds /\ "SurfaceDestroy" \in DrapeKinds
    /\ "NewLock" # "LockDestroy" /\ "SurfaceMap" # "SurfaceDestroy"
  BY DEF LockKinds, DrapeKinds

\* Where no event is fired or handled.
LEMMA QueueKept ==
    ASSUME LockInv, UNCHANGED <<calls, lockAsked, covering>>,
           \A l \in Lockers : current' = l <=> current = l,
           \A l \in Lockers, s \in Screens : Mapped(l, s)' <=> Mapped(l, s)
    PROVE  /\ \A l \in Lockers : LockTold(l)'
           /\ \A l \in Lockers, s \in Screens : DrapeTold(l, s)'
<1>1. ASSUME NEW l \in Lockers PROVE LockTold(l)'
  <2>1. LockTold(l)
    BY DEF LockInv
  <2> QED
    BY <2>1 DEF LockTold, Latest
<1>2. ASSUME NEW l \in Lockers, NEW s \in Screens PROVE DrapeTold(l, s)'
  <2>1. DrapeTold(l, s)
    BY DEF LockInv
  <2> QED
    BY <2>1 DEF DrapeTold, Latest
<1> QED
  BY <1>1, <1>2

\* Where one is fired, it says what it is about, and the others stay true.
LEMMA QueueGrows ==
    ASSUME LockInv, NEW e \in SessionLockEvent, calls' = Append(calls, e),
           UNCHANGED <<lockAsked, covering>>,
           \A l \in Lockers : IF OfLock(e, l) THEN current' = l <=> e.kind = "NewLock"
                                              ELSE current' = l <=> current = l,
           \A l \in Lockers, s \in Screens :
               IF OfDrape(e, l, s) THEN Mapped(l, s)' <=> e.kind = "SurfaceMap"
                                   ELSE Mapped(l, s)' <=> Mapped(l, s)
    PROVE  /\ \A l \in Lockers : LockTold(l)'
           /\ \A l \in Lockers, s \in Screens : DrapeTold(l, s)'
<1> DEFINE n == Len(calls)
<1>1. /\ calls \in Seq(SessionLockEvent) /\ n \in Nat
      /\ DOMAIN calls = 1..n /\ DOMAIN calls' = 1..(n + 1)
      /\ calls'[n + 1] = e /\ \A i \in 1..n : calls'[i] = calls[i]
  BY DEF LockInv, LocksTyped
<1>2. \A kind : \A i \in 1..n : i \in KindAt(calls', kind) <=> i \in KindAt(calls, kind)
  BY <1>1 DEF KindAt
<1>3. \A kind : n + 1 \in KindAt(calls', kind) <=> e.kind = kind
  BY <1>1 DEF KindAt
<1> HIDE DEF n
<1>4. ASSUME NEW l \in Lockers PROVE LockTold(l)'
  <2>1. LockTold(l) /\ LockAt(calls, l) \in SUBSET (1..n)
    BY <1>1 DEF LockInv, LockAt
  <2>2. CASE OfLock(e, l)
    <3>1. LockAt(calls', l) = LockAt(calls, l) \cup {n + 1}
      BY <1>1, <2>2 DEF LockAt
    <3>2. n + 1 \in KindAt(calls', "NewLock") <=> current' = l
      BY <1>3, <2>2
    <3>3. Latest(LockAt(calls, l) \cup {n + 1}, KindAt(calls', "NewLock"), l \in lockAsked', current' = l)
      BY <1>1, <2>1, <3>2, LatestAppended
    <3> QED
      BY <3>1, <3>3 DEF LockTold
  <2>3. CASE ~OfLock(e, l)
    <3>1. LockAt(calls', l) = LockAt(calls, l)
      BY <1>1, <2>3 DEF LockAt
    <3>2. \A i \in LockAt(calls, l) : i \in KindAt(calls', "NewLock") <=> i \in KindAt(calls, "NewLock")
      BY <1>2, <2>1
    <3>3. (l \in lockAsked' <=> l \in lockAsked) /\ (current' = l <=> current = l)
      BY <2>3
    <3>4. Latest(LockAt(calls, l), KindAt(calls', "NewLock"), l \in lockAsked', current' = l)
      BY <2>1, <3>2, <3>3 DEF LockTold, Latest
    <3> QED
      BY <3>1, <3>4 DEF LockTold
  <2> QED
    BY <2>2, <2>3
<1>5. ASSUME NEW l \in Lockers, NEW s \in Screens PROVE DrapeTold(l, s)'
  <2>1. DrapeTold(l, s) /\ DrapeAt(calls, l, s) \in SUBSET (1..n)
    BY <1>1 DEF LockInv, DrapeAt
  <2>2. CASE OfDrape(e, l, s)
    <3>1. DrapeAt(calls', l, s) = DrapeAt(calls, l, s) \cup {n + 1}
      BY <1>1, <2>2 DEF DrapeAt
    <3>2. n + 1 \in KindAt(calls', "SurfaceMap") <=> Mapped(l, s)'
      BY <1>3, <2>2
    <3>3. Latest(DrapeAt(calls, l, s) \cup {n + 1}, KindAt(calls', "SurfaceMap"), <<l, s>> \in covering', Mapped(l, s)')
      BY <1>1, <2>1, <3>2, LatestAppended
    <3> QED
      BY <3>1, <3>3 DEF DrapeTold
  <2>3. CASE ~OfDrape(e, l, s)
    <3>1. DrapeAt(calls', l, s) = DrapeAt(calls, l, s)
      BY <1>1, <2>3 DEF DrapeAt
    <3>2. \A i \in DrapeAt(calls, l, s) : i \in KindAt(calls', "SurfaceMap") <=> i \in KindAt(calls, "SurfaceMap")
      BY <1>2, <2>1
    <3>3. (<<l, s>> \in covering' <=> <<l, s>> \in covering) /\ (Mapped(l, s)' <=> Mapped(l, s))
      BY <2>3
    <3>4. Latest(DrapeAt(calls, l, s), KindAt(calls', "SurfaceMap"), <<l, s>> \in covering', Mapped(l, s)')
      BY <2>1, <3>2, <3>3 DEF DrapeTold, Latest
    <3> QED
      BY <3>1, <3>4 DEF DrapeTold
  <2> QED
    BY <2>2, <2>3
<1> QED
  BY <1>4, <1>5

\* Where one is handled, the compositor learns what it said.
LEMMA QueueShrinks ==
    ASSUME LockInv, HandleLock
    PROVE  /\ \A l \in Lockers : LockTold(l)'
           /\ \A l \in Lockers, s \in Screens : DrapeTold(l, s)'
<1> DEFINE n == Len(calls)
           e == Head(calls)
<1>1. /\ calls \in Seq(SessionLockEvent) /\ n \in Nat \ {0}
      /\ calls[1] = e /\ e \in SessionLockEvent
      /\ DOMAIN calls = 1..n /\ DOMAIN calls' = 1..(n - 1)
      /\ \A i \in 1..(n - 1) : calls'[i] = calls[i + 1] /\ i + 1 \in 1..n
      /\ UNCHANGED <<locks, current, drapes>>
  BY DEF LockInv, LocksTyped, HandleLock
<1>2. \A kind : \A i \in 1..(n - 1) : i \in KindAt(calls', kind) <=> i + 1 \in KindAt(calls, kind)
  BY <1>1 DEF KindAt
<1>3. \A kind : 1 \in KindAt(calls, kind) <=> e.kind = kind
  BY <1>1 DEF KindAt
<1>4. \A l \in Lockers, s \in Screens :
         /\ OfLock(e, l) => (l \in lockAsked' <=> e.kind = "NewLock")
         /\ ~OfLock(e, l) => (l \in lockAsked' <=> l \in lockAsked)
         /\ OfDrape(e, l, s) => (<<l, s>> \in covering' <=> e.kind = "SurfaceMap")
         /\ ~OfDrape(e, l, s) => (<<l, s>> \in covering' <=> <<l, s>> \in covering)
  BY <1>1 DEF HandleLock, OfLock, OfDrape, LockKinds, DrapeKinds
<1> HIDE DEF n, e
<1>5. ASSUME NEW l \in Lockers PROVE LockTold(l)'
  <2>1. LockTold(l) /\ LockAt(calls, l) \in SUBSET (1..n)
    BY <1>1 DEF LockInv, LockAt
  <2>2. LockAt(calls', l) = {i \in 1..(n - 1) : i + 1 \in LockAt(calls, l)}
    BY <1>1 DEF LockAt
  <2>3. 1 \in LockAt(calls, l) <=> OfLock(e, l)
    BY <1>1 DEF LockAt
  <2>4. \A i \in LockAt(calls', l) : i \in KindAt(calls', "NewLock") <=> i + 1 \in KindAt(calls, "NewLock")
    BY <1>2, <2>2
  <2>5. /\ 1 \in LockAt(calls, l) => (l \in lockAsked' <=> 1 \in KindAt(calls, "NewLock"))
        /\ 1 \notin LockAt(calls, l) => (l \in lockAsked' <=> l \in lockAsked)
    <3>1. CASE \E s : s \in Screens
      BY <1>3, <1>4, <2>3, <3>1
    <3>2. CASE ~\E s : s \in Screens
      BY <1>1, <1>3, <2>3, <3>2 DEF HandleLock, OfLock, LockKinds, e
    <3> QED
      BY <3>1, <3>2
  <2>6. Latest(LockAt(calls, l), KindAt(calls, "NewLock"), l \in lockAsked, current = l)
    BY <2>1 DEF LockTold
  <2>7. Latest(LockAt(calls', l), KindAt(calls', "NewLock"), l \in lockAsked', current = l)
    <3> DEFINE at == LockAt(calls, l)
               at2 == LockAt(calls', l)
               yes == KindAt(calls, "NewLock")
               yes2 == KindAt(calls', "NewLock")
               base == l \in lockAsked
               base2 == l \in lockAsked'
               true == current = l
    <3>1. /\ n \in Nat \ {0} /\ at \in SUBSET (1..n) /\ Latest(at, yes, base, true)
          /\ at2 = {i \in 1..(n - 1) : i + 1 \in at}
          /\ \A i \in at2 : i \in yes2 <=> i + 1 \in yes
          /\ 1 \in at => (base2 <=> 1 \in yes)
          /\ 1 \notin at => (base2 <=> base)
      BY <1>1, <2>1, <2>2, <2>4, <2>5, <2>6
    <3> HIDE DEF at, at2, yes, yes2, base, base2, true
    <3>2. Latest(at2, yes2, base2, true)
      BY <3>1, LatestOfTail
    <3> QED
      BY <3>2 DEF at2, yes2, base2, true
  <2> QED
    BY <1>1, <2>7 DEF LockTold
<1>6. ASSUME NEW l \in Lockers, NEW s \in Screens PROVE DrapeTold(l, s)'
  <2>1. DrapeTold(l, s) /\ DrapeAt(calls, l, s) \in SUBSET (1..n)
    BY <1>1 DEF LockInv, DrapeAt
  <2>2. DrapeAt(calls', l, s) = {i \in 1..(n - 1) : i + 1 \in DrapeAt(calls, l, s)}
    BY <1>1 DEF DrapeAt
  <2>3. 1 \in DrapeAt(calls, l, s) <=> OfDrape(e, l, s)
    BY <1>1 DEF DrapeAt
  <2>4. \A i \in DrapeAt(calls', l, s) : i \in KindAt(calls', "SurfaceMap") <=> i + 1 \in KindAt(calls, "SurfaceMap")
    BY <1>2, <2>2
  <2>5. /\ 1 \in DrapeAt(calls, l, s) => (<<l, s>> \in covering' <=> 1 \in KindAt(calls, "SurfaceMap"))
        /\ 1 \notin DrapeAt(calls, l, s) => (<<l, s>> \in covering' <=> <<l, s>> \in covering)
    BY <1>3, <1>4, <2>3
  <2>6. Latest(DrapeAt(calls, l, s), KindAt(calls, "SurfaceMap"), <<l, s>> \in covering, Mapped(l, s))
    BY <2>1 DEF DrapeTold
  <2>7. Latest(DrapeAt(calls', l, s), KindAt(calls', "SurfaceMap"), <<l, s>> \in covering', Mapped(l, s))
    <3> DEFINE at == DrapeAt(calls, l, s)
               at2 == DrapeAt(calls', l, s)
               yes == KindAt(calls, "SurfaceMap")
               yes2 == KindAt(calls', "SurfaceMap")
               base == <<l, s>> \in covering
               base2 == <<l, s>> \in covering'
               true == Mapped(l, s)
    <3>1. /\ n \in Nat \ {0} /\ at \in SUBSET (1..n) /\ Latest(at, yes, base, true)
          /\ at2 = {i \in 1..(n - 1) : i + 1 \in at}
          /\ \A i \in at2 : i \in yes2 <=> i + 1 \in yes
          /\ 1 \in at => (base2 <=> 1 \in yes)
          /\ 1 \notin at => (base2 <=> base)
      BY <1>1, <2>1, <2>2, <2>4, <2>5, <2>6
    <3> HIDE DEF at, at2, yes, yes2, base, base2, true
    <3>2. Latest(at2, yes2, base2, true)
      BY <3>1, LatestOfTail
    <3> QED
      BY <3>2 DEF at2, yes2, base2, true
  <2>8. Mapped(l, s)' <=> Mapped(l, s)
    BY <1>1 DEF Mapped
  <2>9. Latest(DrapeAt(calls', l, s), KindAt(calls', "SurfaceMap"), <<l, s>> \in covering', Mapped(l, s)')
    BY <2>7, <2>8 DEF Latest
  <2> QED
    BY <2>9 DEF DrapeTold
<1> QED
  BY <1>5, <1>6

-----------------------------------------------------------------------------
LEMMA LocksStart == LocksInit => LockInv
<1> SUFFICES ASSUME LocksInit PROVE LockInv
  OBVIOUS
<1>1. NoLock \notin Lockers
  BY LockAssumption
<1>2. DOMAIN calls = {}
  BY DEF LocksInit
<1>3. LocksTyped
  BY DEF LocksInit, LocksTyped, Lock
<1>4. LocksKnown
  BY <1>1 DEF LocksInit, LocksKnown
<1>5. CallsKnown
  BY <1>2 DEF CallsKnown
<1>6. ASSUME NEW l \in Lockers PROVE LockTold(l)
  BY <1>1, <1>2 DEF LockTold, Latest, LockAt, LocksInit
<1>7. ASSUME NEW l \in Lockers, NEW s \in Screens PROVE DrapeTold(l, s)
  BY <1>2 DEF DrapeTold, Latest, DrapeAt, Mapped, LocksInit
<1> QED
  BY <1>3, <1>4, <1>5, <1>6, <1>7 DEF LockInv

\* What a call leaves behind: an event, if the binding watches the lock.
LEMMA CallIs ==
    ASSUME LockInv, NEW l \in Lockers, NEW e \in SessionLockEvent, Call(l, <<e>>),
           e.lock = l, e.kind = "NewLock" => locks'[l].heard,
           \A k \in Lockers : locks[k].heard => locks'[k].heard
    PROVE  /\ calls' \in Seq(SessionLockEvent) /\ CallsKnown'
           /\ locks[l].heard \/ e.kind = "NewLock" => calls' = Append(calls, e)
           /\ ~(locks[l].heard \/ e.kind = "NewLock") => calls' = calls
<1>1. calls \in Seq(SessionLockEvent) /\ CallsKnown
  BY DEF LockInv, LocksTyped
<1>2. /\ locks[l].heard \/ e.kind = "NewLock" => calls' = calls \o <<e>>
      /\ ~(locks[l].heard \/ e.kind = "NewLock") => calls' = calls
  BY DEF Call
<1>3. calls \o <<e>> = Append(calls, e)
  BY <1>1
<1>4. \A i \in DOMAIN calls : calls[i] \in SessionLockEvent /\ calls[i].lock \in Lockers
  BY <1>1, EventIs
<1>5. CASE calls' = Append(calls, e)
  <2>1. /\ DOMAIN calls' = DOMAIN calls \cup {Len(calls) + 1}
        /\ calls'[Len(calls) + 1] = e
        /\ \A i \in DOMAIN calls : calls'[i] = calls[i]
    BY <1>1, <1>5
  <2> QED
    BY SMTT(30), <1>1, <1>2, <1>3, <1>4, <1>5, <2>1 DEF CallsKnown
<1>6. CASE calls' = calls
  BY <1>1, <1>2, <1>3, <1>4, <1>6 DEF CallsKnown
<1> QED
  BY <1>2, <1>3, <1>5, <1>6

\* A lock that was granted, and one that was refused.
LEMMA ManagerLockKeeps ==
    ASSUME LockInv, NEW l \in Lockers, ManagerLock(l)
    PROVE  LockInv'
<1> DEFINE new == [alive |-> TRUE, used |-> TRUE, heard |-> current = NoLock,
                   locked |-> FALSE, finished |-> current # NoLock, unlocking |-> FALSE]
           e == [kind |-> "NewLock", lock |-> l]
<1>1. LocksTyped /\ LocksKnown /\ CallsKnown /\ NoLock \notin Lockers
  BY LockAssumption DEF LockInv
<1>2. /\ ~locks[l].used
      /\ locks' = [locks EXCEPT ![l] = new]
      /\ IF current # NoLock THEN UNCHANGED <<current, calls>>
         ELSE current' = l /\ Call(l, <<e>>)
      /\ UNCHANGED <<sessionLocked, drapes, lockAsked, covering>>
  BY DEF ManagerLock
<1>3. /\ new \in Lock /\ new.alive /\ new.used /\ ~new.locked /\ ~new.unlocking /\ (new.heard <=> current = NoLock)
      /\ e \in SessionLockEvent /\ e.lock = l /\ e.kind = "NewLock"
  BY DEF Lock, SessionLockEvent
<1> HIDE DEF new, e
<1>4. /\ locks' \in [Lockers -> Lock] /\ locks'[l] = new
      /\ \A k \in Lockers \ {l} : locks'[k] = locks[k]
  BY <1>1, <1>2, <1>3 DEF LocksTyped
<1>5. ~locks[l].alive /\ ~locks[l].heard /\ \A s \in Screens : drapes[l][s] = "none"
  BY <1>1, <1>2 DEF LocksKnown
<1>6. \A k \in Lockers, s \in Screens : Mapped(k, s)' <=> Mapped(k, s)
  BY <1>2, <1>4, <1>5 DEF Mapped
<1>7. \A k \in Lockers : locks[k].heard => locks'[k].heard
  BY <1>4, <1>5
<1>8. LocksKnown'
  <2>1. \A k \in Lockers \ {l} : current' = k <=> current = k
    BY <1>1, <1>2
  <2>2. current # l /\ (current' = l <=> current = NoLock)
    BY <1>1, <1>2, <1>5 DEF LocksKnown
  <2>3. l \notin lockAsked
    BY <1>1, <1>5 DEF LocksKnown
  <2> QED
    BY <1>1, <1>2, <1>3, <1>4, <2>1, <2>2, <2>3 DEF LocksKnown
<1>9. CASE current # NoLock
  <2>1. CallsKnown'
    <3>1. \A i \in DOMAIN calls : calls[i].lock \in Lockers
      BY <1>1, EventIs DEF LocksTyped
    <3> QED
      BY <1>1, <1>2, <1>7, <1>9, <3>1 DEF CallsKnown
  <2>2. /\ \A k \in Lockers : LockTold(k)'
        /\ \A k \in Lockers, s \in Screens : DrapeTold(k, s)'
    BY <1>2, <1>6, <1>9, QueueKept
  <2>3. LocksTyped'
    BY <1>1, <1>2, <1>4, <1>9 DEF LocksTyped
  <2> QED
    BY <1>8, <2>1, <2>2, <2>3 DEF LockInv
<1>10. CASE current = NoLock
  <2>1. current' = l /\ Call(l, <<e>>) /\ locks'[l].heard
    BY <1>2, <1>3, <1>4, <1>10
  <2>2. calls' \in Seq(SessionLockEvent) /\ CallsKnown' /\ calls' = Append(calls, e)
    BY <1>3, <1>7, <2>1, CallIs
  <2>3. ASSUME NEW k \in Lockers
        PROVE  IF OfLock(e, k) THEN current' = k <=> e.kind = "NewLock" ELSE current' = k <=> current = k
    BY <1>1, <1>3, <1>10, <2>1 DEF OfLock, LockKinds
  <2>4. ASSUME NEW k \in Lockers, NEW s \in Screens PROVE ~OfDrape(e, k, s)
    BY <1>3 DEF OfDrape, DrapeKinds
  <2>5. /\ \A k \in Lockers : LockTold(k)'
        /\ \A k \in Lockers, s \in Screens : DrapeTold(k, s)'
    BY <1>2, <1>3, <1>6, <2>2, <2>3, <2>4, QueueGrows
  <2>6. LocksTyped'
    BY <1>1, <1>2, <1>4, <2>1, <2>2 DEF LocksTyped
  <2> QED
    BY <1>8, <2>2, <2>5, <2>6 DEF LockInv
<1> QED
  BY <1>9, <1>10

\* The surfaces of a lock come, are mapped and go.
LEMMA DrapesKeep ==
    ASSUME LockInv, NEW l \in Lockers, NEW s \in Screens,
           MakeDrape(l, s) \/ MapDrape(l, s) \/ DestroyDrape(l, s)
    PROVE  LockInv'
<1>1. LocksTyped /\ LocksKnown /\ CallsKnown
  BY DEF LockInv
<1>2. UNCHANGED <<locks, current, sessionLocked, lockAsked, covering>>
  BY DEF MakeDrape, MapDrape, DestroyDrape
<1>3. PICK to \in {"none", "made", "mapped"} : drapes' = [drapes EXCEPT ![l][s] = to]
  BY DEF MakeDrape, MapDrape, DestroyDrape
<1>4. /\ drapes' \in [Lockers -> [Screens -> {"none", "made", "mapped"}]]
      /\ drapes'[l][s] = to
      /\ \A k \in Lockers, t \in Screens : <<k, t>> # <<l, s>> => drapes'[k][t] = drapes[k][t]
  BY <1>1, <1>3 DEF LocksTyped
<1>5. locks[l].used
  BY <1>1 DEF LocksKnown, MakeDrape, MapDrape, DestroyDrape
<1>6. LocksKnown'
  <2>1. \A k \in Lockers : ~locks'[k].used => \A t \in Screens : drapes'[k][t] = "none"
    BY <1>1, <1>2, <1>4, <1>5 DEF LocksKnown
  <2> QED
    BY <1>1, <1>2, <2>1 DEF LocksKnown
<1>7. \A k \in Lockers, t \in Screens : <<k, t>> # <<l, s>> => (Mapped(k, t)' <=> Mapped(k, t))
  BY <1>2, <1>4 DEF Mapped
<1>8. CASE calls' = calls /\ (Mapped(l, s)' <=> Mapped(l, s))
  <2>1. /\ \A k \in Lockers : LockTold(k)'
        /\ \A k \in Lockers, t \in Screens : DrapeTold(k, t)'
    BY <1>2, <1>7, <1>8, QueueKept
  <2>2. CallsKnown'
    BY <1>1, <1>2, <1>8 DEF CallsKnown
  <2>3. LocksTyped'
    BY <1>1, <1>2, <1>4, <1>8 DEF LocksTyped
  <2> QED
    BY <1>6, <2>1, <2>2, <2>3 DEF LockInv
<1>9. ASSUME NEW e \in SessionLockEvent, Call(l, <<e>>), e.lock = l, e.screen = s,
             \/ e.kind = "SurfaceMap" /\ drapes'[l][s] = "mapped"
             \/ e.kind = "SurfaceDestroy" /\ drapes'[l][s] = "none"
      PROVE  LockInv'
  <2>1. e.kind # "NewLock" /\ e.kind \in DrapeKinds /\ \A k : ~OfLock(e, k)
    BY <1>9 DEF OfLock, LockKinds, DrapeKinds
  <2>2. /\ calls' \in Seq(SessionLockEvent) /\ CallsKnown'
        /\ locks[l].heard => calls' = Append(calls, e)
        /\ ~locks[l].heard => calls' = calls
    BY <1>2, <1>9, <2>1, CallIs
  <2>3. LocksTyped'
    BY <1>1, <1>2, <1>4, <2>2 DEF LocksTyped
  <2>4. CASE ~locks[l].heard
    <3>1. Mapped(l, s)' <=> Mapped(l, s)
      BY <1>2, <2>4 DEF Mapped
    <3> QED
      BY <1>8, <2>2, <2>4, <3>1
  <2>5. CASE locks[l].heard
    <3>1. ASSUME NEW k \in Lockers
          PROVE  IF OfLock(e, k) THEN current' = k <=> e.kind = "NewLock" ELSE current' = k <=> current = k
      BY <1>2, <2>1
    <3>2. ASSUME NEW k \in Lockers, NEW t \in Screens
          PROVE  IF OfDrape(e, k, t) THEN Mapped(k, t)' <=> e.kind = "SurfaceMap"
                 ELSE Mapped(k, t)' <=> Mapped(k, t)
      <4>1. CASE <<k, t>> = <<l, s>>
        <5>1. k = l /\ t = s /\ OfDrape(e, k, t)
          BY <1>9, <2>1, <4>1 DEF OfDrape
        <5>2. Mapped(l, s)' <=> e.kind = "SurfaceMap"
          BY <1>2, <1>9, <2>5 DEF Mapped
        <5> QED
          BY <5>1, <5>2
      <4>2. CASE <<k, t>> # <<l, s>>
        BY <1>7, <1>9, <4>2 DEF OfDrape
      <4> QED
        BY <4>1, <4>2
    <3>3. /\ \A k \in Lockers : LockTold(k)'
          /\ \A k \in Lockers, t \in Screens : DrapeTold(k, t)'
      BY <1>2, <2>2, <2>5, <3>1, <3>2, QueueGrows
    <3> QED
      BY <1>6, <2>2, <2>3, <3>3 DEF LockInv
  <2> QED
    BY <2>4, <2>5
<1>10. CASE MakeDrape(l, s)
  <2>1. calls' = calls /\ drapes[l][s] = "none" /\ drapes' = [drapes EXCEPT ![l][s] = "made"]
    BY <1>10 DEF MakeDrape
  <2>2. drapes'[l][s] = "made"
    BY <1>1, <2>1 DEF LocksTyped
  <2> QED
    BY <1>2, <1>8, <2>1, <2>2 DEF Mapped
<1>11. CASE MapDrape(l, s)
  <2> DEFINE e == [kind |-> "SurfaceMap", lock |-> l, screen |-> s]
  <2>1. e \in SessionLockEvent /\ e.lock = l /\ e.screen = s /\ e.kind = "SurfaceMap"
    BY DEF SessionLockEvent
  <2>2. Call(l, <<e>>) /\ drapes' = [drapes EXCEPT ![l][s] = "mapped"]
    BY <1>11 DEF MapDrape
  <2>3. drapes'[l][s] = "mapped"
    BY <1>1, <2>2 DEF LocksTyped
  <2> HIDE DEF e
  <2> QED
    BY <1>9, <2>1, <2>2, <2>3
<1>12. CASE DestroyDrape(l, s)
  <2> DEFINE e == [kind |-> "SurfaceDestroy", lock |-> l, screen |-> s]
  <2>1. e \in SessionLockEvent /\ e.lock = l /\ e.screen = s /\ e.kind = "SurfaceDestroy"
    BY DEF SessionLockEvent
  <2>2. Call(l, <<e>>) /\ drapes' = [drapes EXCEPT ![l][s] = "none"]
    BY <1>12 DEF DestroyDrape
  <2>3. drapes'[l][s] = "none"
    BY <1>1, <2>2 DEF LocksTyped
  <2> HIDE DEF e
  <2> QED
    BY <1>9, <2>1, <2>2, <2>3
<1> QED
  BY <1>10, <1>11, <1>12

\* The end of a lock.  The session is open again only if it was unlocked.
LEMMA GoneKeeps ==
    ASSUME LockInv, NEW l \in Lockers, Unlock(l) \/ LockerLeaves(l)
    PROVE  LockInv'
<1>0. PICK b \in BOOLEAN : /\ locks[l].alive /\ Gone(l, b)
                          /\ (sessionLocked' = sessionLocked \/ locks[l].locked)
  BY DEF Unlock, LockerLeaves
<1> DEFINE e == [kind |-> "LockDestroy", lock |-> l, unlocked |-> b]
<1>1. LocksTyped /\ LocksKnown /\ CallsKnown /\ NoLock \notin Lockers
  BY LockAssumption DEF LockInv
<1>2. /\ locks[l].alive
      /\ locks' = [locks EXCEPT ![l].alive = FALSE, ![l].unlocking = b]
      /\ current' = (IF current = l THEN NoLock ELSE current)
      /\ Call(l, <<e>>)
      /\ UNCHANGED <<drapes, lockAsked, covering>>
      /\ (sessionLocked' = sessionLocked \/ locks[l].locked)
  BY <1>0 DEF Gone
<1>3. e \in SessionLockEvent /\ e.lock = l /\ e.kind = "LockDestroy"
  BY DEF SessionLockEvent
<1> HIDE DEF e
<1>4. /\ locks' \in [Lockers -> Lock]
      /\ \A k \in Lockers \ {l} : locks'[k] = locks[k]
      /\ ~locks'[l].alive
      /\ locks'[l].used <=> locks[l].used
      /\ locks'[l].heard <=> locks[l].heard
      /\ locks'[l].locked <=> locks[l].locked
  <2>1. locks[l] \in Lock
    BY <1>1 DEF LocksTyped
  <2>2. [locks[l] EXCEPT !.alive = FALSE, !.unlocking = b] \in Lock
    BY <2>1 DEF Lock
  <2> QED
    BY <1>1, <1>2, <2>1, <2>2 DEF LocksTyped, Lock
<1>5. /\ \A k \in Lockers \ {l} : current' = k <=> current = k
      /\ current' # l
  BY <1>1, <1>2
<1>6. LocksKnown'
  <2>1. \A k \in Lockers \ {l} : locks[k].alive /\ locks[k].locked => ~locks[l].locked /\ sessionLocked' = sessionLocked
    BY <1>1, <1>2 DEF LocksKnown, Unlock, LockerLeaves, Gone
  <2>2. locks[l].used
    BY <1>1, <1>2 DEF LocksKnown
  <2> QED
    BY <1>1, <1>2, <1>4, <1>5, <2>1, <2>2 DEF LocksKnown
<1>7. /\ calls' \in Seq(SessionLockEvent) /\ CallsKnown'
      /\ locks[l].heard => calls' = Append(calls, e)
      /\ ~locks[l].heard => calls' = calls
  BY <1>2, <1>3, <1>4, CallIs
<1>8. LocksTyped'
  BY <1>1, <1>2, <1>4, <1>7 DEF LocksTyped
<1>9. \A k \in Lockers, s \in Screens : Mapped(k, s)' <=> Mapped(k, s)
  BY <1>2, <1>4 DEF Mapped
<1>10. CASE ~locks[l].heard
  <2>1. current # l
    BY <1>1, <1>10 DEF LocksKnown
  <2>2. /\ \A k \in Lockers : LockTold(k)'
        /\ \A k \in Lockers, s \in Screens : DrapeTold(k, s)'
    BY <1>2, <1>7, <1>9, <1>10, <2>1, QueueKept
  <2> QED
    BY <1>6, <1>7, <1>8, <2>2 DEF LockInv
<1>11. CASE locks[l].heard
  <2>1. ASSUME NEW k \in Lockers
        PROVE  IF OfLock(e, k) THEN current' = k <=> e.kind = "NewLock" ELSE current' = k <=> current = k
    BY <1>3, <1>5 DEF OfLock, LockKinds
  <2>2. ASSUME NEW k \in Lockers, NEW s \in Screens PROVE ~OfDrape(e, k, s)
    BY <1>3 DEF OfDrape, DrapeKinds
  <2>3. /\ \A k \in Lockers : LockTold(k)'
        /\ \A k \in Lockers, s \in Screens : DrapeTold(k, s)'
    BY <1>2, <1>3, <1>7, <1>9, <1>11, <2>1, <2>2, QueueGrows
  <2> QED
    BY <1>6, <1>7, <1>8, <2>3 DEF LockInv
<1> QED
  BY <1>10, <1>11

\* The answers of the compositor: it knows of the lock, so if that lives it is
\* the current one.
LEMMA AnswersKeep ==
    ASSUME LockInv, NEW l \in Lockers, SendLocked(l) \/ SendFinished(l)
    PROVE  LockInv'
<1>1. LocksTyped /\ LocksKnown /\ CallsKnown
  BY DEF LockInv
<1>2. /\ l \in lockAsked /\ locks[l].alive
      /\ UNCHANGED <<current, drapes, calls, lockAsked, covering>>
      /\ locks' \in [Lockers -> Lock]
      /\ \A k \in Lockers : /\ locks'[k].alive <=> locks[k].alive
                            /\ locks'[k].used <=> locks[k].used
                            /\ locks'[k].heard <=> locks[k].heard
                            /\ locks'[k].unlocking <=> locks[k].unlocking
      /\ \A k \in Lockers \ {l} : locks'[k] = locks[k]
  <2>1. locks[l] \in Lock
    BY <1>1 DEF LocksTyped
  <2>2. [locks[l] EXCEPT !.locked = TRUE] \in Lock /\ [locks[l] EXCEPT !.finished = TRUE] \in Lock
    BY <2>1 DEF Lock
  <2>3. CASE SendLocked(l)
    BY <1>1, <2>1, <2>2, <2>3 DEF LocksTyped, Lock, SendLocked
  <2>4. CASE SendFinished(l)
    BY <1>1, <2>1, <2>2, <2>4 DEF LocksTyped, Lock, SendFinished
  <2> QED
    BY <2>3, <2>4
<1>3. current = l /\ locks[l].heard /\ locks[l].used
  BY <1>1, <1>2 DEF LocksKnown
<1>4. /\ sessionLocked => sessionLocked'
      /\ locks'[l].locked => locks[l].locked \/ sessionLocked'
  BY <1>1, <1>2 DEF SendLocked, SendFinished, LocksTyped, Lock
<1>5. LocksKnown'
  <2>1. ASSUME NEW k \in Lockers, locks'[k].alive, locks'[k].locked PROVE sessionLocked' /\ current' = k
    <3>1. CASE k = l
      BY <1>1, <1>2, <1>3, <1>4, <2>1, <3>1 DEF LocksKnown
    <3>2. CASE k # l
      BY <1>1, <1>2, <1>4, <2>1, <3>2 DEF LocksKnown
    <3> QED
      BY <3>1, <3>2
  <2>2. ASSUME NEW k \in Lockers, ~locks'[k].used PROVE ~locks'[k].locked
    BY <1>1, <1>2, <1>3, <2>2 DEF LocksKnown
  <2> QED
    BY <1>1, <1>2, <2>1, <2>2 DEF LocksKnown
<1>6. CallsKnown'
  <2>1. \A i \in DOMAIN calls : calls[i].lock \in Lockers
    BY <1>1, EventIs DEF LocksTyped
  <2> QED
    BY <1>1, <1>2, <2>1 DEF CallsKnown
<1>7. LocksTyped'
  BY <1>1, <1>2 DEF LocksTyped
<1>8. \A k \in Lockers, s \in Screens : Mapped(k, s)' <=> Mapped(k, s)
  BY <1>2 DEF Mapped
<1>9. /\ \A k \in Lockers : LockTold(k)'
      /\ \A k \in Lockers, s \in Screens : DrapeTold(k, s)'
  BY <1>2, <1>8, QueueKept
<1> QED
  BY <1>5, <1>6, <1>7, <1>9 DEF LockInv

LEMMA HandledKeeps ==
    ASSUME LockInv, HandleLock
    PROVE  LockInv'
<1> DEFINE e == Head(calls)
<1>1. /\ LocksTyped /\ LocksKnown /\ CallsKnown
      /\ calls # <<>> /\ calls' = Tail(calls)
      /\ UNCHANGED <<locks, current, sessionLocked, drapes>>
  BY DEF LockInv, HandleLock
<1>2. /\ e \in SessionLockEvent /\ e = calls[1] /\ 1 \in DOMAIN calls
      /\ calls' \in Seq(SessionLockEvent)
      /\ \A i \in DOMAIN calls' : i + 1 \in DOMAIN calls /\ calls'[i] = calls[i + 1]
  BY <1>1 DEF LocksTyped
<1>3. e.lock \in Lockers /\ (e.kind \in LockKinds \/ (e.kind \in DrapeKinds /\ e.screen \in Screens))
  BY <1>2, EventIs
<1>4. /\ lockAsked' \subseteq lockAsked \cup (IF e.kind = "NewLock" THEN {e.lock} ELSE {})
      /\ covering' \subseteq Lockers \X Screens
  BY <1>1, <1>3 DEF HandleLock, LocksTyped, LockKinds, DrapeKinds
<1>5. e.kind = "NewLock" => locks[e.lock].heard
  BY <1>1, <1>2 DEF CallsKnown
<1> HIDE DEF e
<1>6. LocksTyped'
  BY <1>1, <1>2, <1>3, <1>4 DEF LocksTyped
<1>7. LocksKnown'
  <2>1. \A l \in Lockers : l \in lockAsked' => locks[l].heard
    BY <1>1, <1>4, <1>5 DEF LocksKnown
  <2> QED
    BY <1>1, <2>1 DEF LocksKnown
<1>8. CallsKnown'
  BY <1>1, <1>2 DEF CallsKnown
<1> QED
  BY <1>6, <1>7, <1>8, QueueShrinks DEF LockInv

LEMMA LockSteps ==
    ASSUME LockInv, [LocksNext]_lockVars
    PROVE  LockInv'
<1>1. CASE UNCHANGED lockVars
  BY <1>1 DEF lockVars, LockInv, LocksTyped, LocksKnown, CallsKnown, LockTold, DrapeTold, Mapped
<1> QED
  BY <1>1, ManagerLockKeeps, DrapesKeep, GoneKeeps, AnswersKeep, HandledKeeps DEF LocksNext

LEMMA LockIsHonoured == LocksSpec => []LockHonoured
<1>1. LocksInit => LockInv
  BY LocksStart
<1>2. LockInv /\ [LocksNext]_lockVars => LockInv'
  BY LockSteps
<1>3. LockInv => LockHonoured
  <2> SUFFICES ASSUME LockInv PROVE LockHonoured
    OBVIOUS
  <2>1. \A l \in Lockers : locks[l].alive /\ locks[l].locked => sessionLocked /\ current = l
    BY DEF LockInv, LocksKnown
  <2>2. ASSUME calls = <<>>
        PROVE  /\ lockAsked = (IF current = NoLock THEN {} ELSE {current})
               /\ covering = {d \in Lockers \X Screens : locks[d[1]].heard /\ drapes[d[1]][d[2]] = "mapped"}
    <3>1. \A l \in Lockers : l \in lockAsked <=> current = l
      <4> SUFFICES ASSUME NEW l \in Lockers PROVE l \in lockAsked <=> current = l
        OBVIOUS
      <4>1. LockTold(l) /\ LockAt(calls, l) = {}
        BY <2>2 DEF LockInv, LockAt
      <4> QED
        BY <4>1 DEF LockTold, Latest
    <3>2. \A l \in Lockers, s \in Screens : <<l, s>> \in covering <=> Mapped(l, s)
      <4> SUFFICES ASSUME NEW l \in Lockers, NEW s \in Screens PROVE <<l, s>> \in covering <=> Mapped(l, s)
        OBVIOUS
      <4>1. DrapeTold(l, s) /\ DrapeAt(calls, l, s) = {}
        BY <2>2 DEF LockInv, DrapeAt
      <4> QED
        BY <4>1 DEF DrapeTold, Latest
    <3>3. lockAsked \subseteq Lockers /\ covering \subseteq Lockers \X Screens
          /\ current \in Lockers \cup {NoLock} /\ NoLock \notin Lockers
      BY LockAssumption DEF LockInv, LocksTyped
    <3>4. lockAsked = (IF current = NoLock THEN {} ELSE {current})
      BY <3>1, <3>3
    <3>5. ASSUME NEW d \in Lockers \X Screens
          PROVE  d \in covering <=> locks[d[1]].heard /\ drapes[d[1]][d[2]] = "mapped"
      BY <3>2 DEF Mapped
    <3> QED
      BY <3>3, <3>4, <3>5
  <2> QED
    BY <2>1, <2>2 DEF LockHonoured
<1> QED
  BY <1>1, <1>2, <1>3, PTL DEF LocksSpec

\* A step that moves neither the latch nor a lock's life does nothing to it.
LEMMA LatchStands ==
    ASSUME LockInv, UNCHANGED sessionLocked,
           \A l \in Lockers : /\ locks'[l].unlocking => locks[l].unlocking
                              /\ locks[l].alive => locks'[l].alive
    PROVE  LatchKept
  BY DEF LatchKept, Unlocks

\* The session opens when the lock that was granted is unlocked, and only then.
THEOREM LatchIsHeld == LocksSpec => LatchHeld
<1>1. LocksInit => LockInv
  BY LocksStart
<1>2. LockInv /\ [LocksNext]_lockVars => LockInv'
  BY LockSteps
<1>3. LockInv /\ [LocksNext]_lockVars => [LatchKept]_lockVars
  <2> SUFFICES ASSUME LockInv, LocksNext PROVE LatchKept
    BY DEF lockVars
  <2>1. locks \in [Lockers -> Lock] /\ LocksKnown
    BY DEF LockInv, LocksTyped
  <2>2. ASSUME NEW l \in Lockers, ManagerLock(l) PROVE LatchKept
    <3> DEFINE new == [alive |-> TRUE, used |-> TRUE, heard |-> current = NoLock,
                       locked |-> FALSE, finished |-> current # NoLock, unlocking |-> FALSE]
    <3>1. locks' = [locks EXCEPT ![l] = new] /\ UNCHANGED sessionLocked
      BY <2>2 DEF ManagerLock
    <3>2. new.alive /\ ~new.unlocking
      OBVIOUS
    <3> HIDE DEF new
    <3>3. \A k \in Lockers : IF k = l THEN locks'[k] = new ELSE locks'[k] = locks[k]
      BY <2>1, <3>1
    <3> QED
      BY <3>1, <3>2, <3>3, LatchStands
  <2>3. ASSUME NEW l \in Lockers, NEW s \in Screens, MakeDrape(l, s) \/ MapDrape(l, s) \/ DestroyDrape(l, s)
        PROVE  LatchKept
    BY <2>3, LatchStands DEF MakeDrape, MapDrape, DestroyDrape
  <2>4. CASE HandleLock
    BY <2>4, LatchStands DEF HandleLock
  <2>5. ASSUME NEW l \in Lockers, SendFinished(l) PROVE LatchKept
    <3>1. locks' = [locks EXCEPT ![l].finished = TRUE] /\ UNCHANGED sessionLocked
      BY <2>5 DEF SendFinished
    <3>2. \A k \in Lockers : /\ locks'[k].unlocking <=> locks[k].unlocking
                             /\ locks'[k].alive <=> locks[k].alive
      BY <2>1, <3>1 DEF Lock
    <3> QED
      BY <3>1, <3>2, LatchStands
  <2>6. ASSUME NEW l \in Lockers, SendLocked(l) PROVE LatchKept
    <3>1. /\ l \in lockAsked /\ locks[l].alive /\ ~locks[l].locked
          /\ locks' = [locks EXCEPT ![l].locked = TRUE] /\ sessionLocked' = TRUE
      BY <2>6 DEF SendLocked
    <3>2. /\ \A k \in Lockers : /\ locks'[k].unlocking <=> locks[k].unlocking
                                /\ locks'[k].alive <=> locks[k].alive
          /\ locks'[l].locked
      BY <2>1, <3>1 DEF Lock
    <3>3. current = l
      BY <2>1, <3>1 DEF LocksKnown
    <3> QED
      BY <3>1, <3>2, <3>3 DEF LatchKept, Unlocks
  <2>7. ASSUME NEW l \in Lockers, NEW b \in BOOLEAN, locks[l].alive, Gone(l, b),
               b => locks[l].locked /\ sessionLocked' = FALSE,
               ~b => UNCHANGED sessionLocked
        PROVE  LatchKept
    <3>1. locks' = [locks EXCEPT ![l].alive = FALSE, ![l].unlocking = b]
      BY <2>7 DEF Gone
    <3>2. locks[l] \in Lock
      BY <2>1
    <3>3. /\ \A k \in Lockers \ {l} : locks'[k] = locks[k]
          /\ locks'[l].unlocking = b
      BY <2>1, <3>1, <3>2 DEF Lock
    <3>4. \A k \in Lockers \ {l} : ~Unlocks(k) /\ (locks[k].alive => locks'[k].alive)
      BY <3>3 DEF Unlocks
    <3>5. locks[l].locked => sessionLocked /\ current = l /\ locks[l].heard
      BY <2>1, <2>7 DEF LocksKnown
    <3>6. ~locks[l].unlocking
      BY <2>1, <2>7 DEF LocksKnown
    <3>7. locks[l].locked =>
             calls' = Append(calls, [kind |-> "LockDestroy", lock |-> l, unlocked |-> ~sessionLocked'])
      <4> DEFINE e == [kind |-> "LockDestroy", lock |-> l, unlocked |-> b]
      <4>1. locks[l].heard => calls' = calls \o <<e>>
        BY <2>7 DEF Gone, Call
      <4>2. calls \in Seq(SessionLockEvent)
        BY DEF LockInv, LocksTyped
      <4>3. calls \o <<e>> = Append(calls, e)
        BY <4>2
      <4>4. locks[l].locked => b = ~sessionLocked'
        <5>1. CASE b
          BY <2>7, <5>1
        <5>2. CASE ~b
          BY <2>7, <3>5, <5>2
        <5> QED
          BY <5>1, <5>2
      <4> QED
        BY <3>5, <4>1, <4>3, <4>4
    <3>8. Unlocks(l) <=> b
      BY <3>3, <3>6 DEF Unlocks
    <3> QED
      BY <2>1, <2>7, <3>3, <3>4, <3>5, <3>7, <3>8 DEF LatchKept
  <2>8. ASSUME NEW l \in Lockers, Unlock(l) PROVE LatchKept
    BY <2>7, <2>8 DEF Unlock
  <2>9. ASSUME NEW l \in Lockers, LockerLeaves(l) PROVE LatchKept
    BY <2>7, <2>9 DEF LockerLeaves
  <2> QED
    BY <2>2, <2>3, <2>4, <2>5, <2>6, <2>8, <2>9 DEF LocksNext
<1> QED
  BY <1>1, <1>2, <1>3, PTL DEF LocksSpec, LatchHeld

-----------------------------------------------------------------------------
(* Idleness.  The news that wait alternate, and the last is how it is.      *)

Notice == [alive : BOOLEAN, inputOnly : BOOLEAN, idled : BOOLEAN, armed : BOOLEAN]

\* What CountdownKept says of one notification.
Counting(n, held) ==
    n.alive => IF n.idled THEN (n.inputOnly \/ ~held) /\ ~n.armed
               ELSE n.armed <=> n.inputOnly \/ ~held

\* What news leave to be told: the first is news to the notifier, the others to
\* whoever heard the one before, and the last is how it is.
Alternate(wait, held, now) ==
    /\ wait = <<>> => held = now
    /\ wait # <<>> => wait[1] = ~held /\ wait[Len(wait)] = now
    /\ \A i \in 1..(Len(wait) - 1) : wait[i + 1] = ~wait[i]

IdleInv ==
    /\ inhibitors \in [Inhibitors -> {"none", "visible", "hidden"}]
    /\ changes \in Seq(BOOLEAN) /\ heldOff \in BOOLEAN /\ awake \in BOOLEAN
    /\ notices \in [Notices -> Notice]
    /\ awake = Counts(inhibitors)
    /\ Alternate(changes, heldOff, awake)
    /\ \A n \in Notices : Counting(notices[n], heldOff)

LEMMA NewsAppended ==
    ASSUME NEW wait \in Seq(BOOLEAN), NEW held \in BOOLEAN, NEW now \in BOOLEAN,
           Alternate(wait, held, now)
    PROVE  Append(wait, ~now) \in Seq(BOOLEAN) /\ Alternate(Append(wait, ~now), held, ~now)
<1>0. PICK last \in BOOLEAN : last = ~now
  <2>1. CASE now = TRUE
    BY <2>1
  <2>2. CASE now = FALSE
    BY <2>2
  <2> QED
    BY <2>1, <2>2
<1> DEFINE more == Append(wait, last)
           n == Len(wait)
<1>1. /\ more \in Seq(BOOLEAN) /\ n \in Nat /\ Len(more) = n + 1 /\ more # <<>>
      /\ more[n + 1] = last /\ \A i \in 1..n : more[i] = wait[i]
  BY AppendProperties
<1>2. wait = <<>> <=> n = 0
  OBVIOUS
<1> HIDE DEF more, n
<1>3. more[1] = ~held
  BY <1>0, <1>1, <1>2 DEF Alternate
<1>4. ASSUME NEW i \in 1..n PROVE more[i + 1] = ~more[i]
  <2>1. CASE i = n
    <3>1. wait[n] = now
      BY <1>2, <2>1 DEF Alternate, n
    <3> QED
      BY <1>0, <1>1, <2>1, <3>1
  <2>2. CASE i # n
    <3>1. i \in 1..(n - 1) /\ i + 1 \in 1..n
      BY <1>1, <2>2
    <3>2. wait[i + 1] = ~wait[i]
      BY <3>1 DEF Alternate, n
    <3> QED
      BY <1>1, <3>1, <3>2
  <2> QED
    BY <2>1, <2>2
<1>5. Alternate(more, held, last)
  BY <1>1, <1>3, <1>4 DEF Alternate
<1> QED
  BY <1>0, <1>1, <1>5 DEF more

LEMMA NewsTail ==
    ASSUME NEW wait \in Seq(BOOLEAN), NEW held \in BOOLEAN, NEW now \in BOOLEAN,
           Alternate(wait, held, now), wait # <<>>
    PROVE  /\ Tail(wait) \in Seq(BOOLEAN) /\ Head(wait) \in BOOLEAN /\ Head(wait) = ~held
           /\ Alternate(Tail(wait), Head(wait), now)
<1> DEFINE rest == Tail(wait)
           n == Len(wait)
<1>1. /\ rest \in Seq(BOOLEAN) /\ n \in Nat \ {0} /\ Len(rest) = n - 1
      /\ Head(wait) = wait[1] /\ wait[1] \in BOOLEAN
      /\ \A i \in 1..(n - 1) : rest[i] = wait[i + 1]
      /\ rest = <<>> <=> n = 1
  <2>1. rest \in Seq(BOOLEAN) /\ Len(rest) = n - 1 /\ \A i \in 1..(n - 1) : rest[i] = wait[i + 1]
    BY HeadTailProperties
  <2>2. n \in Nat \ {0}
    BY EmptySeq
  <2>3. Head(wait) = wait[1] /\ wait[1] \in BOOLEAN
    BY <2>2
  <2>4. rest = <<>> <=> n = 1
    <3> HIDE DEF rest, n
    <3>1. rest = <<>> <=> Len(rest) = 0
      BY <2>1, EmptySeq
    <3> QED
      BY <2>1, <2>2, <3>1
  <2> QED
    BY <2>1, <2>2, <2>3, <2>4
<1> HIDE DEF rest, n
<1>2. wait[1] = ~held /\ wait[n] = now
  BY DEF Alternate, n
<1>3. n # 1 => rest[1] = ~wait[1] /\ rest[n - 1] = now
  <2>1. n # 1 => 1 \in 1..(n - 1) /\ n - 1 \in 1..(n - 1) /\ (n - 1) + 1 = n /\ 1 + 1 = 2
    BY <1>1
  <2>2. n # 1 => wait[2] = ~wait[1]
    BY <2>1 DEF Alternate, n
  <2> QED
    BY <1>1, <1>2, <2>1, <2>2
<1>4. ASSUME NEW i \in 1..(n - 2) PROVE rest[i + 1] = ~rest[i]
  <2>1. i \in 1..(n - 1) /\ i + 1 \in 1..(n - 1)
    BY <1>1
  <2>2. wait[(i + 1) + 1] = ~wait[i + 1]
    BY <2>1 DEF Alternate, n
  <2> QED
    BY <1>1, <2>1, <2>2
<1>5. Alternate(rest, wait[1], now)
  BY <1>1, <1>2, <1>3, <1>4 DEF Alternate
<1> QED
  BY <1>1, <1>2, <1>5 DEF rest

LEMMA RearmedCounts ==
    ASSUME NEW n \in Notice, NEW held \in BOOLEAN
    PROVE  Rearmed(n, held) \in Notice /\ Counting(Rearmed(n, held), held)
  BY DEF Notice, Rearmed, Counting

\* A change to the inhibitors is news or none.
LEMMA RecomputeKeeps ==
    ASSUME IdleInv, NEW is \in [Inhibitors -> {"none", "visible", "hidden"}], Recompute(is)
    PROVE  IdleInv'
<1>1. /\ inhibitors' = is /\ awake' = Counts(is)
      /\ UNCHANGED <<heldOff, notices>>
      /\ awake' = awake => changes' = changes
      /\ awake' # awake => changes' = Append(changes, awake')
  BY DEF Recompute
<1>2. awake' \in BOOLEAN
  BY <1>1 DEF Counts
<1>3. CASE awake' = awake
  BY <1>1, <1>2, <1>3 DEF IdleInv
<1>4. CASE awake' # awake
  <2>1. awake' = ~awake
    BY <1>2, <1>4 DEF IdleInv
  <2>2. Append(changes, ~awake) \in Seq(BOOLEAN) /\ Alternate(Append(changes, ~awake), heldOff, ~awake)
    BY NewsAppended DEF IdleInv
  <2>3. changes' \in Seq(BOOLEAN) /\ Alternate(changes', heldOff', awake')
    BY <1>1, <1>4, <2>1, <2>2
  <2> QED
    BY <1>1, <1>2, <2>3 DEF IdleInv
<1> QED
  BY <1>3, <1>4

LEMMA InhibitorsKeep ==
    ASSUME IdleInv, NEW i \in Inhibitors, CreateInhibitor(i) \/ SetVisible(i) \/ DestroyInhibitor(i)
    PROVE  IdleInv'
<1>1. PICK to \in {"none", "visible", "hidden"} : Recompute([inhibitors EXCEPT ![i] = to])
  <2>1. CASE CreateInhibitor(i)
    BY <2>1 DEF CreateInhibitor
  <2>2. CASE SetVisible(i)
    BY <2>2 DEF SetVisible
  <2>3. CASE DestroyInhibitor(i)
    BY <2>3 DEF DestroyInhibitor
  <2> QED
    BY <2>1, <2>2, <2>3
<1>2. [inhibitors EXCEPT ![i] = to] \in [Inhibitors -> {"none", "visible", "hidden"}]
  BY DEF IdleInv
<1> QED
  BY <1>1, <1>2, RecomputeKeeps

\* Steps that only touch notifications.
LEMMA NoticesKeep ==
    ASSUME IdleInv, UNCHANGED <<inhibitors, awake, changes, heldOff>>,
           notices' \in [Notices -> Notice],
           \A n \in Notices : Counting(notices'[n], heldOff)
    PROVE  IdleInv'
  BY DEF IdleInv, Counts

LEMMA CountdownsKeep ==
    ASSUME IdleInv, NEW n \in Notices, CreateNotice(n) \/ DestroyNotice(n) \/ TimerFires(n)
    PROVE  IdleInv'
<1>1. /\ notices \in [Notices -> Notice] /\ notices[n] \in Notice /\ heldOff \in BOOLEAN
      /\ \A m \in Notices : Counting(notices[m], heldOff)
  BY DEF IdleInv
<1>2. UNCHANGED <<inhibitors, awake, changes, heldOff>>
  BY DEF CreateNotice, DestroyNotice, TimerFires
<1>3. PICK new \in Notice : notices' = [notices EXCEPT ![n] = new] /\ Counting(new, heldOff)
  <2>1. CASE CreateNotice(n)
    <3>1. [notices[n] EXCEPT !.alive = TRUE] \in Notice
      BY <1>1 DEF Notice
    <3> QED
      BY <1>1, <2>1, <3>1, RearmedCounts DEF CreateNotice
  <2>2. CASE DestroyNotice(n)
    <3>1. /\ [notices[n] EXCEPT !.alive = FALSE, !.idled = FALSE, !.armed = FALSE] \in Notice
          /\ ~[notices[n] EXCEPT !.alive = FALSE, !.idled = FALSE, !.armed = FALSE].alive
      BY <1>1 DEF Notice
    <3> QED
      BY <1>1, <2>2, <3>1 DEF DestroyNotice, Counting
  <2>3. CASE TimerFires(n)
    <3> DEFINE old == notices[n]
               new == [old EXCEPT !.armed = FALSE, !.idled = old.idled \/ old.inputOnly \/ ~heldOff]
    <3>1. /\ new \in Notice /\ ~new.armed /\ (new.alive <=> notices[n].alive)
          /\ (new.inputOnly <=> notices[n].inputOnly)
          /\ (new.idled <=> notices[n].idled \/ notices[n].inputOnly \/ ~heldOff)
      BY <1>1 DEF Notice
    <3>2. notices' = [notices EXCEPT ![n] = new] /\ notices[n].armed
      BY <2>3 DEF TimerFires
    <3>3. Counting(notices[n], heldOff)
      BY <1>1
    <3> HIDE DEF new
    <3>4. Counting(new, heldOff)
      BY <3>1, <3>2, <3>3 DEF Counting
    <3> QED
      BY <3>1, <3>2, <3>4
  <2> QED
    BY <2>1, <2>2, <2>3
<1>4. notices' \in [Notices -> Notice] /\ \A m \in Notices : Counting(notices'[m], heldOff)
  BY <1>1, <1>3
<1> QED
  BY <1>2, <1>4, NoticesKeep

LEMMA ActivityKeeps ==
    ASSUME IdleInv, NotifyActivity
    PROVE  IdleInv'
<1>1. notices \in [Notices -> Notice] /\ heldOff \in BOOLEAN
  BY DEF IdleInv
<1>2. notices' \in [Notices -> Notice] /\ \A m \in Notices : Counting(notices'[m], heldOff)
  BY <1>1, RearmedCounts DEF NotifyActivity
<1> QED
  BY <1>2, NoticesKeep DEF NotifyActivity

LEMMA ChangedKeeps ==
    ASSUME IdleInv, HandleChanged
    PROVE  IdleInv'
<1> DEFINE held == Head(changes)
<1>1. /\ notices \in [Notices -> Notice] /\ heldOff \in BOOLEAN
      /\ \A m \in Notices : Counting(notices[m], heldOff)
      /\ changes' = Tail(changes) /\ heldOff' = held
      /\ notices' = IF held = heldOff THEN notices ELSE [n \in Notices |-> SetInhibited(notices[n], held)]
      /\ UNCHANGED <<inhibitors, awake>>
  BY DEF IdleInv, HandleChanged
<1>2. /\ Tail(changes) \in Seq(BOOLEAN) /\ held \in BOOLEAN /\ held = ~heldOff
      /\ Alternate(Tail(changes), held, awake)
  BY NewsTail DEF IdleInv, HandleChanged
<1> HIDE DEF held
<1>3. ASSUME NEW n \in Notices
      PROVE  SetInhibited(notices[n], held) \in Notice /\ Counting(SetInhibited(notices[n], held), held)
  <2>1. notices[n] \in Notice /\ Counting(notices[n], heldOff)
    BY <1>1
  <2>2. CASE notices[n].inputOnly \/ ~notices[n].alive
    BY <2>1, <2>2 DEF SetInhibited, Counting
  <2>3. CASE ~(notices[n].inputOnly \/ ~notices[n].alive)
    BY <1>2, <2>1, <2>3, RearmedCounts DEF SetInhibited
  <2> QED
    BY <2>2, <2>3
<1>4. notices' \in [Notices -> Notice] /\ \A n \in Notices : Counting(notices'[n], held)
  BY <1>1, <1>2, <1>3
<1> QED
  BY <1>1, <1>2, <1>4 DEF IdleInv, Counts

LEMMA CountdownIsKept == IdleSpec => []CountdownKept
<1>1. IdleInit => IdleInv
  <2> SUFFICES ASSUME IdleInit PROVE IdleInv
    OBVIOUS
  <2>1. /\ inhibitors \in [Inhibitors -> {"none", "visible", "hidden"}]
        /\ changes = <<>> /\ heldOff = FALSE /\ awake = FALSE /\ ~Counts(inhibitors)
    BY DEF IdleInit, InhibitorsInit, NoticesInit, Counts
  <2>2. notices \in [Notices -> Notice] /\ \A n \in Notices : ~notices[n].alive
    BY DEF IdleInit, NoticesInit, Notice
  <2>3. awake = Counts(inhibitors)
    BY <2>1 DEF Counts
  <2>4. Alternate(changes, heldOff, awake)
    <3>1. Len(changes) = 0 /\ 1..(0 - 1) = {}
      BY <2>1
    <3> QED
      BY <2>1, <3>1 DEF Alternate
  <2>5. \A n \in Notices : Counting(notices[n], heldOff)
    BY <2>2 DEF Counting
  <2>6. changes \in Seq(BOOLEAN)
    BY <2>1
  <2>7. heldOff \in BOOLEAN /\ awake \in BOOLEAN
    BY <2>1
  <2> QED
    BY <2>1, <2>2, <2>3, <2>4, <2>5, <2>6, <2>7 DEF IdleInv
<1>2. IdleInv /\ [IdleNext]_idleVars => IdleInv'
  <2> SUFFICES ASSUME IdleInv, [IdleNext]_idleVars PROVE IdleInv'
    OBVIOUS
  <2>1. CASE UNCHANGED idleVars \/ UserComesOrGoes
    BY <2>1 DEF idleVars, UserComesOrGoes, IdleInv, Counts
  <2> QED
    BY <2>1, InhibitorsKeep, CountdownsKeep, ActivityKeeps, ChangedKeeps DEF IdleNext
<1>3. IdleInv => CountdownKept
  <2> SUFFICES ASSUME IdleInv PROVE CountdownKept
    OBVIOUS
  <2>1. ASSUME NEW n \in Notices, notices[n].alive, NEW held \in BOOLEAN,
               held <=> heldOff /\ ~notices[n].inputOnly
        PROVE  /\ notices[n].idled => ~held /\ ~notices[n].armed
               /\ ~notices[n].idled => notices[n].armed = ~held
    <3>1. notices[n].armed \in BOOLEAN /\ notices[n].inputOnly \in BOOLEAN /\ Counting(notices[n], heldOff)
      BY DEF IdleInv, Notice
    <3> QED
      BY <2>1, <3>1 DEF Counting
  <2>2. heldOff = IF changes = <<>> THEN Counts(inhibitors) ELSE ~changes[1]
    <3>1. changes = <<>> => heldOff = awake
      BY DEF IdleInv, Alternate
    <3>2. changes # <<>> => changes[1] = ~heldOff
      BY DEF IdleInv, Alternate
    <3> QED
      BY <3>1, <3>2 DEF IdleInv
  <2> QED
    BY <2>1, <2>2 DEF CountdownKept
<1> QED
  BY <1>1, <1>2, <1>3, PTL DEF IdleSpec

\* While the user is away: the lock is honoured and the countdowns are kept.
THEOREM AwayIsSound == LocksSpec /\ IdleSpec => []AwaySound
  BY LockIsHonoured, CountdownIsKept, PTL DEF AwaySound

-----------------------------------------------------------------------------
(* Colours.  A ramp that is on a screen is of a control that applied it     *)
(* there, or was inherited; a matrix is of the active client, which named   *)
(* the screen.  A control that forgets that it applied resets what it set.  *)

Control == [live : BOOLEAN, app : Apps \cup {NoTable}, screen : Displays \cup {NoTable},
            owns : BOOLEAN, applied : BOOLEAN]

\* RampsOwned, of one screen.
Owned(s) ==
    /\ Ramp(s) # NoTable /\ s \notin inherited =>
           controls[Ramp(s)].live /\ controls[Ramp(s)].applied /\ controls[Ramp(s)].screen = s
    /\ Matrix(s) # NoTable => Matrix(s) = ctm.active /\ s \in ctm.pending
    /\ <<"ramp", s>> \notin unheard => screened["ramp"][s] = Ramp(s)
    /\ <<"matrix", s>> \notin unheard => screened["matrix"][s] = Matrix(s)

RampsInv ==
    /\ DOMAIN tables = Kinds /\ DOMAIN screened = Kinds
    /\ \A k \in Kinds : DOMAIN tables[k] = Displays /\ DOMAIN screened[k] = Displays
    /\ controls \in [Controls -> Control]
    /\ \A c \in Controls : controls[c].live => controls[c].screen \in Displays
    /\ \A s \in Displays : Ramp(s) \in Controls \cup {NoTable}
    /\ inherited \subseteq Displays
    /\ ctm = [bound |-> ctm.bound, active |-> ctm.active, pending |-> ctm.pending]
    /\ ctm.pending \subseteq Displays
    /\ \A s \in Displays : Owned(s)

LEMMA EmitSets ==
    ASSUME RampsInv, NEW s \in Displays, NEW table \in Controls \cup {NoTable}, Emit(s, table)
    PROVE  /\ DOMAIN tables' = Kinds
           /\ \A k \in Kinds : DOMAIN tables'[k] = Displays
           /\ Ramp(s)' = table
           /\ \A t \in Displays : Matrix(t)' = Matrix(t) /\ (t # s => Ramp(t)' = Ramp(t))
           /\ unheard' = unheard \cup {<<"ramp", s>>}
           /\ inherited' = inherited \ {s}
  BY DEF RampsInv, Emit, Ramp, Matrix, Kinds

LEMMA EmitAllSets ==
    ASSUME RampsInv, NEW ss \in SUBSET Displays, NEW table, EmitAll(ss, table)
    PROVE  /\ DOMAIN tables' = Kinds
           /\ \A k \in Kinds : DOMAIN tables'[k] = Displays
           /\ \A t \in Displays : Ramp(t)' = Ramp(t) /\ Matrix(t)' = IF t \in ss THEN table ELSE Matrix(t)
           /\ unheard' = unheard \cup {<<"matrix", s>> : s \in ss}
<1>1. "matrix" \in Kinds /\ "ramp" \in Kinds /\ Kinds = {"ramp", "matrix"}
  BY DEF Kinds
<1>2. tables["matrix"] = tables["matrix"] /\ DOMAIN tables = Kinds /\ \A k \in Kinds : DOMAIN tables[k] = Displays
  BY DEF RampsInv
<1>3. /\ DOMAIN tables' = Kinds
      /\ tables'["ramp"] = tables["ramp"]
      /\ tables'["matrix"] = [s \in Displays |-> IF s \in ss THEN table ELSE tables["matrix"][s]]
  BY <1>1, <1>2 DEF EmitAll
<1> QED
  BY <1>1, <1>2, <1>3 DEF EmitAll, Ramp, Matrix

LEMMA NoControlIs == NoControl \in Control /\ ~NoControl.live
  BY DEF NoControl, Control

LEMMA RampsStart == RampsInit => RampsInv
<1> SUFFICES ASSUME RampsInit PROVE RampsInv
  OBVIOUS
<1>1. NoControl \in Control /\ ~NoControl.live
  BY NoControlIs
<1> QED
  BY <1>1 DEF RampsInv, RampsInit, GammaInit, CtmInit, Kinds, Owned, Ramp, Matrix

\* Gamma steps leave the matrices alone, and what they do to the controls and
\* the ramps is all that matters.
LEMMA GammaKeeps ==
    ASSUME RampsInv, UNCHANGED <<ctm, screened>>,
           \/ UNCHANGED <<tables, unheard>>
           \/ \E s \in Displays, table \in Controls \cup {NoTable} : Emit(s, table),
           controls' \in [Controls -> Control],
           \A c \in Controls : controls'[c].live => controls'[c].screen \in Displays,
           inherited' \subseteq Displays,
           \A s \in Displays : Ramp(s)' # NoTable /\ s \notin inherited' =>
               controls'[Ramp(s)'].live /\ controls'[Ramp(s)'].applied /\ controls'[Ramp(s)'].screen = s
    PROVE  RampsInv'
<1>1. CASE UNCHANGED <<tables, unheard>>
  BY <1>1 DEF RampsInv, Owned, Ramp, Matrix
<1>2. ASSUME NEW s \in Displays, NEW table \in Controls \cup {NoTable}, Emit(s, table)
      PROVE  RampsInv'
  <2>1. /\ DOMAIN tables' = Kinds
        /\ \A k \in Kinds : DOMAIN tables'[k] = Displays
        /\ Ramp(s)' = table
        /\ \A t \in Displays : Matrix(t)' = Matrix(t) /\ (t # s => Ramp(t)' = Ramp(t))
        /\ unheard' = unheard \cup {<<"ramp", s>>}
    BY <1>2, EmitSets
  <2>2. \A t \in Displays : <<"matrix", t>> # <<"ramp", s>> /\ (t # s => <<"ramp", t>> # <<"ramp", s>>)
    OBVIOUS
  <2>3. \A t \in Displays : Ramp(t)' \in Controls \cup {NoTable}
    BY <2>1 DEF RampsInv
  <2>4. /\ DOMAIN screened' = Kinds /\ \A k \in Kinds : DOMAIN screened'[k] = Displays
        /\ ctm'.pending \subseteq Displays
        /\ ctm' = [bound |-> ctm'.bound, active |-> ctm'.active, pending |-> ctm'.pending]
    BY DEF RampsInv
  <2>5. ASSUME NEW t \in Displays PROVE Owned(t)'
    <3>1. Owned(t)
      BY DEF RampsInv
    <3>2. Ramp(t)' # NoTable /\ t \notin inherited' =>
             controls'[Ramp(t)'].live /\ controls'[Ramp(t)'].applied /\ controls'[Ramp(t)'].screen = t
      OBVIOUS
    <3>3. Matrix(t)' = Matrix(t) /\ ctm' = ctm /\ screened' = screened
      BY <2>1
    <3>4. <<"matrix", t>> \notin unheard' => <<"matrix", t>> \notin unheard
      BY <2>1
    <3>5. <<"ramp", t>> \notin unheard' => <<"ramp", t>> \notin unheard /\ t # s
      BY <2>1
    <3>6. t # s => Ramp(t)' = Ramp(t)
      BY <2>1
    <3> QED
      BY <3>1, <3>2, <3>3, <3>4, <3>5, <3>6 DEF Owned
  <2> QED
    BY <2>1, <2>3, <2>4, <2>5 DEF RampsInv
<1> QED
  BY <1>1, <1>2

LEMMA ControlOf ==
    ASSUME RampsInv
    PROVE  /\ controls \in [Controls -> Control]
           /\ \A c \in Controls : controls[c].live => controls[c].screen \in Displays
           /\ \A s \in Displays : Ramp(s) \in Controls \cup {NoTable}
           /\ inherited \subseteq Displays
           /\ \A s \in Displays : Ramp(s) # NoTable /\ s \notin inherited =>
                  controls[Ramp(s)].live /\ controls[Ramp(s)].applied /\ controls[Ramp(s)].screen = s
  BY DEF RampsInv, Owned

LEMMA GetControlKeeps ==
    ASSUME RampsInv, NEW c \in Controls, NEW a \in Apps, NEW s \in Displays, GetGammaControl(c, a, s)
    PROVE  RampsInv'
<1> DEFINE failed == {d \in Controls : Holds(d, a, s)}
           new == [live |-> TRUE, app |-> a, screen |-> s, owns |-> HasTable(s), applied |-> FALSE]
<1>1. /\ controls \in [Controls -> Control]
      /\ \A d \in Controls : controls[d].live => controls[d].screen \in Displays
      /\ inherited \subseteq Displays
  BY ControlOf
<1>2. /\ ~controls[c].live
      /\ controls' = [d \in Controls |->
             IF d = c THEN new
             ELSE IF d \in failed THEN [controls[d] EXCEPT !.owns = FALSE, !.applied = FALSE]
             ELSE controls[d]]
      /\ inherited' = IF \E d \in failed : controls[d].applied THEN inherited \cup {s} ELSE inherited
      /\ UNCHANGED <<tables, unheard, ctm, screened>>
  BY DEF GetGammaControl
<1>3. new \in Control /\ new.screen = s
  BY DEF Control, HasTable
<1>4. \A d \in Controls : /\ [controls[d] EXCEPT !.owns = FALSE, !.applied = FALSE] \in Control
                          /\ [controls[d] EXCEPT !.owns = FALSE, !.applied = FALSE].screen = controls[d].screen
                          /\ ([controls[d] EXCEPT !.owns = FALSE, !.applied = FALSE].live <=> controls[d].live)
  BY <1>1 DEF Control
<1>5. \A d \in failed : controls[d].screen = s
  BY DEF Holds
<1> HIDE DEF new, failed
<1>6. controls' \in [Controls -> Control] /\ \A d \in Controls : controls'[d].live => controls'[d].screen \in Displays
  BY <1>1, <1>2, <1>3, <1>4
<1>7. ASSUME NEW t \in Displays, Ramp(t)' # NoTable, t \notin inherited'
      PROVE  controls'[Ramp(t)'].live /\ controls'[Ramp(t)'].applied /\ controls'[Ramp(t)'].screen = t
  <2>1. Ramp(t)' = Ramp(t) /\ t \notin inherited
    BY <1>2, <1>7 DEF Ramp
  <2>2. /\ Ramp(t) \in Controls
        /\ controls[Ramp(t)].live /\ controls[Ramp(t)].applied /\ controls[Ramp(t)].screen = t
    BY <1>7, <2>1, ControlOf
  <2>3. Ramp(t) # c
    BY <1>2, <2>2
  <2>4. Ramp(t) \notin failed
    BY <1>2, <1>5, <1>7, <2>2
  <2> QED
    BY <1>2, <2>1, <2>2, <2>3, <2>4
<1>8. inherited' \subseteq Displays
  BY <1>1, <1>2
<1> QED
  BY <1>2, <1>6, <1>7, <1>8, GammaKeeps

LEMMA SetGammaKeeps ==
    ASSUME RampsInv, NEW c \in Controls, SetGamma(c)
    PROVE  RampsInv'
<1>1. /\ controls \in [Controls -> Control]
      /\ \A d \in Controls : controls[d].live => controls[d].screen \in Displays
      /\ inherited \subseteq Displays
  BY ControlOf
<1>0. PICK s \in Displays : s = controls[c].screen
  BY <1>1 DEF SetGamma
<1>2. /\ controls[c].live
      /\ controls' = [controls EXCEPT ![c].applied = TRUE]
      /\ Emit(s, c)
      /\ UNCHANGED <<ctm, screened>>
  BY <1>1, <1>0 DEF SetGamma
<1>3. [controls[c] EXCEPT !.applied = TRUE] \in Control
  BY <1>1 DEF Control
<1>4. controls' \in [Controls -> Control]
  BY <1>1, <1>2, <1>3
<1>5. /\ \A d \in Controls : /\ controls'[d].live <=> controls[d].live
                             /\ controls'[d].screen = controls[d].screen
                             /\ controls[d].applied => controls'[d].applied
      /\ controls'[c].applied
  BY <1>1, <1>2 DEF Control
<1>6. c \in Controls \cup {NoTable}
  OBVIOUS
<1>7. Ramp(s)' = c /\ inherited' = inherited \ {s} /\ \A t \in Displays : t # s => Ramp(t)' = Ramp(t)
  BY <1>2, <1>6, EmitSets
<1>8. ASSUME NEW t \in Displays, Ramp(t)' # NoTable, t \notin inherited'
      PROVE  controls'[Ramp(t)'].live /\ controls'[Ramp(t)'].applied /\ controls'[Ramp(t)'].screen = t
  <2>1. CASE t = s
    BY <1>0, <1>2, <1>5, <1>7, <2>1
  <2>2. CASE t # s
    <3>1. Ramp(t)' = Ramp(t) /\ t \notin inherited
      BY <1>7, <1>8, <2>2
    <3> QED
      BY <1>5, <1>8, <3>1, ControlOf
  <2> QED
    BY <2>1, <2>2
<1> QED
  BY <1>1, <1>2, <1>4, <1>5, <1>6, <1>7, <1>8, GammaKeeps

\* Controls that let go of s: as long as one of them had applied, its ramp is
\* reset, and otherwise it was none of theirs.
LEMMA LettingGo ==
    ASSUME RampsInv, NEW s \in Displays, NEW lost \in SUBSET Controls,
           \A c \in lost : controls[c].screen = s /\ controls[c].live,
           Reset(s, \E c \in lost : controls[c].applied),
           UNCHANGED <<ctm, screened>>,
           controls' \in [Controls -> Control],
           \A c \in Controls : controls'[c].live => controls'[c].screen \in Displays,
           \A c \in Controls \ lost : controls'[c] = controls[c]
    PROVE  RampsInv'
<1>1. CASE \E c \in lost : controls[c].applied
  <2>1. Emit(s, NoTable)
    BY <1>1 DEF Reset
  <2>2. NoTable \in Controls \cup {NoTable}
    OBVIOUS
  <2>3. Ramp(s)' = NoTable /\ inherited' = inherited \ {s} /\ \A t \in Displays : t # s => Ramp(t)' = Ramp(t)
    BY <2>1, <2>2, EmitSets
  <2>4. ASSUME NEW t \in Displays, Ramp(t)' # NoTable, t \notin inherited'
        PROVE  controls'[Ramp(t)'].live /\ controls'[Ramp(t)'].applied /\ controls'[Ramp(t)'].screen = t
    <3>1. t # s /\ Ramp(t)' = Ramp(t) /\ t \notin inherited
      BY <2>3, <2>4
    <3>2. /\ Ramp(t) \in Controls
          /\ controls[Ramp(t)].live /\ controls[Ramp(t)].applied /\ controls[Ramp(t)].screen = t
      BY <2>4, <3>1, ControlOf
    <3>3. Ramp(t) \notin lost
      BY <3>1, <3>2
    <3> QED
      BY <3>1, <3>2, <3>3
  <2>5. inherited' \subseteq Displays
    BY <2>3, ControlOf
  <2> QED
    BY <2>1, <2>2, <2>4, <2>5, GammaKeeps
<1>2. CASE ~\E c \in lost : controls[c].applied
  <2>1. UNCHANGED <<tables, unheard, inherited>>
    BY <1>2 DEF Reset
  <2>2. ASSUME NEW t \in Displays, Ramp(t)' # NoTable, t \notin inherited'
        PROVE  controls'[Ramp(t)'].live /\ controls'[Ramp(t)'].applied /\ controls'[Ramp(t)'].screen = t
    <3>1. Ramp(t)' = Ramp(t) /\ t \notin inherited
      BY <2>1, <2>2 DEF Ramp
    <3>2. /\ Ramp(t) \in Controls
          /\ controls[Ramp(t)].live /\ controls[Ramp(t)].applied /\ controls[Ramp(t)].screen = t
      BY <2>2, <3>1, ControlOf
    <3>3. Ramp(t) \notin lost
      BY <1>2, <3>2
    <3> QED
      BY <3>1, <3>2, <3>3
  <2>3. inherited' \subseteq Displays
    BY <2>1, ControlOf
  <2> QED
    BY <2>1, <2>2, <2>3, GammaKeeps
<1> QED
  BY <1>1, <1>2

LEMMA DestroyControlKeeps ==
    ASSUME RampsInv, NEW c \in Controls, DestroyControl(c)
    PROVE  RampsInv'
<1> DEFINE s == controls[c].screen
<1>1. /\ controls \in [Controls -> Control]
      /\ \A d \in Controls : controls[d].live => controls[d].screen \in Displays
  BY ControlOf
<1>2. /\ controls[c].live /\ s \in Displays
      /\ controls' = [controls EXCEPT ![c] = NoControl]
      /\ Reset(s, controls[c].applied)
      /\ UNCHANGED <<ctm, screened>>
  BY <1>1 DEF DestroyControl
<1>3. Reset(s, \E d \in {c} : controls[d].applied)
  BY <1>2 DEF Reset
<1>4. controls' \in [Controls -> Control] /\ \A d \in Controls : controls'[d].live => controls'[d].screen \in Displays
  BY <1>1, <1>2, NoControlIs
<1>5. \A d \in {c} : controls[d].screen = s /\ controls[d].live
  BY <1>2
<1>6. \A d \in Controls \ {c} : controls'[d] = controls[d]
  BY <1>1, <1>2
<1>7. {c} \in SUBSET Controls
  OBVIOUS
<1> HIDE DEF s
<1> QED
  BY ZenonT(40), <1>2, <1>3, <1>4, <1>5, <1>6, <1>7, LettingGo

LEMMA ReleaseOutputKeeps ==
    ASSUME RampsInv, NEW a \in Apps, NEW s \in Displays, ReleaseOutput(a, s)
    PROVE  RampsInv'
<1> DEFINE lost == {c \in Controls : Holds(c, a, s)}
<1>1. /\ controls \in [Controls -> Control]
      /\ \A d \in Controls : controls[d].live => controls[d].screen \in Displays
  BY ControlOf
<1>2. /\ controls' = [c \in Controls |->
             IF c \in lost THEN [controls[c] EXCEPT !.owns = FALSE, !.applied = FALSE] ELSE controls[c]]
      /\ Reset(s, \E c \in lost : controls[c].applied)
      /\ UNCHANGED <<ctm, screened>>
  BY DEF ReleaseOutput
<1>3. lost \in SUBSET Controls /\ \A c \in lost : controls[c].screen = s /\ controls[c].live
  BY DEF Holds
<1>4. \A c \in Controls : /\ [controls[c] EXCEPT !.owns = FALSE, !.applied = FALSE] \in Control
                          /\ [controls[c] EXCEPT !.owns = FALSE, !.applied = FALSE].screen = controls[c].screen
                          /\ ([controls[c] EXCEPT !.owns = FALSE, !.applied = FALSE].live <=> controls[c].live)
  BY <1>1 DEF Control
<1> HIDE DEF lost
<1>5. controls' \in [Controls -> Control] /\ \A d \in Controls : controls'[d].live => controls'[d].screen \in Displays
  BY <1>1, <1>2, <1>4
<1>6. \A c \in Controls \ lost : controls'[c] = controls[c]
  BY <1>2
<1> QED
  BY <1>2, <1>3, <1>5, <1>6, LettingGo

\* Matrices: whatever the active client set is among what it named.
LEMMA MatricesKept ==
    ASSUME RampsInv, NEW a \in Apps,
           BindCtm(a) \/ CommitCtm(a) \/ LeaveCtm(a) \/ \E s \in Displays : SetCtmForOutput(a, s)
    PROVE  RampsInv'
<1>1. /\ DOMAIN screened = Kinds /\ \A k \in Kinds : DOMAIN screened[k] = Displays
      /\ DOMAIN tables = Kinds /\ \A k \in Kinds : DOMAIN tables[k] = Displays
      /\ controls \in [Controls -> Control]
      /\ \A s \in Displays : Ramp(s) \in Controls \cup {NoTable}
      /\ \A c \in Controls : controls[c].live => controls[c].screen \in Displays
      /\ inherited \subseteq Displays
      /\ ctm.pending \subseteq Displays
      /\ ctm = [bound |-> ctm.bound, active |-> ctm.active, pending |-> ctm.pending]
      /\ \A s \in Displays : Owned(s)
  BY DEF RampsInv
<1>2. CASE BindCtm(a) \/ \E s \in Displays : SetCtmForOutput(a, s)
  <2>1. UNCHANGED <<controls, tables, unheard, screened, inherited>>
    BY <1>2 DEF BindCtm, SetCtmForOutput
  <2>2. /\ ctm' = [bound |-> ctm'.bound, active |-> ctm'.active, pending |-> ctm'.pending]
        /\ ctm'.pending \subseteq Displays /\ ctm.pending \subseteq ctm'.pending
        /\ ctm.active # NoTable => ctm'.active = ctm.active
    BY <1>1, <1>2 DEF BindCtm, SetCtmForOutput
  <2>3. \A s \in Displays : Ramp(s)' = Ramp(s) /\ Matrix(s)' = Matrix(s)
    BY <2>1 DEF Ramp, Matrix
  <2>4. ASSUME NEW s \in Displays PROVE Owned(s)'
    BY <1>1, <2>1, <2>2, <2>3 DEF Owned
  <2> QED
    BY <1>1, <2>1, <2>2, <2>3, <2>4 DEF RampsInv
<1>3. CASE \E table : \E ss \in SUBSET Displays :
                /\ EmitAll(ss, table)
                /\ ss = ctm.pending
                /\ UNCHANGED <<controls, screened, inherited>>
                /\ ctm' = [bound |-> ctm'.bound, active |-> ctm'.active, pending |-> ctm'.pending]
                /\ ctm'.pending \subseteq Displays
                /\ table # NoTable => ctm' = ctm /\ table = ctm.active
  <2>0. PICK ss \in SUBSET Displays : ss = ctm.pending
    BY <1>1
  <2>1. PICK table :
                /\ EmitAll(ss, table)
                /\ UNCHANGED <<controls, screened, inherited>>
                /\ ctm' = [bound |-> ctm'.bound, active |-> ctm'.active, pending |-> ctm'.pending]
                /\ ctm'.pending \subseteq Displays
                /\ table # NoTable => ctm' = ctm /\ table = ctm.active
    BY <1>3, <2>0
  <2>2. /\ DOMAIN tables' = Kinds
        /\ \A k \in Kinds : DOMAIN tables'[k] = Displays
        /\ \A t \in Displays : Ramp(t)' = Ramp(t)
                               /\ Matrix(t)' = IF t \in ss THEN table ELSE Matrix(t)
        /\ unheard' = unheard \cup {<<"matrix", s>> : s \in ss}
    BY <1>1, <2>1, EmitAllSets
  <2>3. ASSUME NEW s \in Displays PROVE Owned(s)'
    <3>1. Owned(s)
      BY <1>1
    <3>2. <<"ramp", s>> \notin unheard' => <<"ramp", s>> \notin unheard
      BY <2>2
    <3>3. <<"matrix", s>> \notin unheard' => <<"matrix", s>> \notin unheard /\ s \notin ss
      BY <2>2
    <3>4. Ramp(s)' = Ramp(s) /\ (s \in ss => Matrix(s)' = table)
          /\ (s \notin ss => Matrix(s)' = Matrix(s))
      BY <2>2
    <3>5. Matrix(s)' # NoTable => Matrix(s)' = ctm'.active /\ s \in ctm'.pending
      BY <2>1, <2>0, <3>1, <3>4 DEF Owned
    <3> QED
      BY <2>1, <3>1, <3>2, <3>3, <3>4, <3>5 DEF Owned
  <2> QED
    BY <1>1, <2>1, <2>2, <2>3 DEF RampsInv
<1>4. ASSUME CommitCtm(a) PROVE RampsInv'
  <2>1. EmitAll(ctm.pending, a) /\ UNCHANGED <<controls, ctm, screened, inherited>> /\ ctm.active = a
    BY <1>4 DEF CommitCtm
  <2> QED
    BY <1>1, <1>3, <2>1
<1>5. ASSUME LeaveCtm(a) PROVE RampsInv'
  <2>1. CASE ctm.active = a
    <3>1. EmitAll(ctm.pending, NoTable) /\ UNCHANGED <<controls, screened, inherited>>
          /\ ctm' = [bound |-> ctm.bound \ {a}, active |-> NoTable, pending |-> {}]
      BY <1>5, <2>1 DEF LeaveCtm
    <3> QED
      BY <1>1, <1>3, <3>1
  <2>2. CASE ctm.active # a
    <3>1. UNCHANGED <<controls, tables, unheard, screened, inherited>>
      BY <1>5, <2>2 DEF LeaveCtm
    <3>2. /\ ctm' = [bound |-> ctm'.bound, active |-> ctm'.active, pending |-> ctm'.pending]
          /\ ctm'.pending = ctm.pending /\ ctm'.active = ctm.active
      BY <1>1, <1>5, <2>2 DEF LeaveCtm
    <3>3. \A s \in Displays : Ramp(s)' = Ramp(s) /\ Matrix(s)' = Matrix(s)
      BY <3>1 DEF Ramp, Matrix
    <3>4. ASSUME NEW s \in Displays PROVE Owned(s)'
      BY <1>1, <3>1, <3>2, <3>3 DEF Owned
    <3> QED
      BY <1>1, <3>1, <3>2, <3>3, <3>4 DEF RampsInv
  <2> QED
    BY <2>1, <2>2
<1> QED
  BY <1>2, <1>4, <1>5

\* The compositor reads the table that is there.
LEMMA ColoursHandled ==
    ASSUME RampsInv, NEW k \in Kinds, NEW s \in Displays, HandleColours(k, s)
    PROVE  RampsInv'
<1>1. /\ DOMAIN screened = Kinds /\ \A j \in Kinds : DOMAIN screened[j] = Displays
      /\ \A t \in Displays : Owned(t)
  BY DEF RampsInv
<1>2. /\ unheard' = unheard \ {<<k, s>>}
      /\ screened' = [screened EXCEPT ![k][s] = IF k = "ramp" THEN Ramp(s) ELSE Matrix(s)]
      /\ UNCHANGED <<controls, ctm, tables, inherited>>
  BY DEF HandleColours
<1>3. DOMAIN screened' = Kinds /\ \A j \in Kinds : DOMAIN screened'[j] = Displays
  BY <1>1, <1>2
<1>4. \A t \in Displays : Ramp(t)' = Ramp(t) /\ Matrix(t)' = Matrix(t)
  BY <1>2 DEF Ramp, Matrix
<1>5. /\ \A j \in Kinds, t \in Displays : <<j, t>> # <<k, s>> => screened'[j][t] = screened[j][t]
      /\ screened'[k][s] = IF k = "ramp" THEN Ramp(s) ELSE Matrix(s)
  BY <1>1, <1>2
<1>6. ASSUME NEW t \in Displays PROVE Owned(t)'
  <2>1. Owned(t) /\ Ramp(t)' = Ramp(t) /\ Matrix(t)' = Matrix(t)
    BY <1>1, <1>4
  <2>2. <<"ramp", t>> \notin unheard' => screened'["ramp"][t] = Ramp(t)
    <3>1. CASE <<"ramp", t>> = <<k, s>>
      BY <1>5, <3>1
    <3>2. CASE <<"ramp", t>> # <<k, s>>
      BY <1>2, <1>5, <2>1, <3>2 DEF Owned, Kinds
    <3> QED
      BY <3>1, <3>2
  <2>3. <<"matrix", t>> \notin unheard' => screened'["matrix"][t] = Matrix(t)
    <3>1. CASE <<"matrix", t>> = <<k, s>>
      BY <1>5, <3>1
    <3>2. CASE <<"matrix", t>> # <<k, s>>
      BY <1>2, <1>5, <2>1, <3>2 DEF Owned, Kinds
    <3> QED
      BY <3>1, <3>2
  <2> QED
    BY <1>2, <2>1, <2>2, <2>3 DEF Owned
<1> QED
  BY <1>2, <1>3, <1>4, <1>6 DEF RampsInv

LEMMA RampSteps ==
    ASSUME RampsInv, [RampsNext]_rampVars
    PROVE  RampsInv'
<1>1. CASE UNCHANGED rampVars
  BY <1>1 DEF rampVars, RampsInv, Owned, Ramp, Matrix
<1>2. ASSUME NEW s \in Displays, NEW size, SetOutputSize(s, size) PROVE RampsInv'
  BY <1>2 DEF SetOutputSize, RampsInv, Owned, Ramp, Matrix
<1> QED
  BY <1>1, <1>2, GetControlKeeps, SetGammaKeeps, DestroyControlKeeps, ReleaseOutputKeeps,
     MatricesKept, ColoursHandled DEF RampsNext

\* The colours of every screen are of somebody who answers for them.
THEOREM ColoursAreOwned == RampsSpec => []RampsOwned
<1>1. RampsInit => RampsInv
  BY RampsStart
<1>2. RampsInv /\ [RampsNext]_rampVars => RampsInv'
  BY RampSteps
<1>3. RampsInv => RampsOwned
  BY DEF RampsInv, Owned, RampsOwned
<1> QED
  BY <1>1, <1>2, <1>3, PTL DEF RampsSpec

\* Who applied is alive and has the output, and has it alone among the controls of
\* that client's wl_output.
ControlsApart ==
    /\ \A c \in Controls : controls[c].applied => controls[c].live /\ controls[c].owns
    /\ \A c, d \in Controls :
           /\ controls[c].live /\ controls[c].owns /\ controls[d].live /\ controls[d].owns
           /\ controls[c].app = controls[d].app /\ controls[c].screen = controls[d].screen
           => c = d

\* A step that changes neither who applied nor any ramp hands nothing back.
LEMMA NothingHanded ==
    ASSUME \A s \in Displays : Ramp(s)' = Ramp(s),
           \A c \in Controls, s \in Displays : Applied(c, s) => controls'[c].applied
    PROVE  HandBack
  BY DEF HandBack, TakesDownAnothers

\* The same, where the only ramp that changes is set.
LEMMA RampTaken ==
    ASSUME NEW s \in Displays, Ramp(s)' # NoTable,
           \A t \in Displays : t # s => Ramp(t)' = Ramp(t),
           \A c \in Controls, t \in Displays : Applied(c, t) => controls'[c].applied
    PROVE  HandBack
  BY DEF HandBack, TakesDownAnothers

\* Controls of a client's wl_output let go of it, as in LettingGo.
LetGo(s, a, lost) ==
    /\ \A c \in lost : controls[c].screen = s /\ controls[c].live
    /\ \A c \in lost : controls[c].applied => controls[c].app = a
    /\ \A c \in Controls : controls[c].applied /\ controls[c].app = a /\ controls[c].screen = s
           /\ (\E d \in lost : controls[d].applied) => c \in lost
    /\ (\E c \in lost : controls[c].applied) => Emit(s, NoTable)
    /\ (\A c \in lost : ~controls[c].applied) => UNCHANGED tables
    /\ \A c \in lost : ~controls'[c].applied
    /\ \A c \in Controls \ lost : controls'[c] = controls[c]

LEMMA HandsBack ==
    ASSUME RampsInv, ControlsApart,
           NEW s \in Displays, NEW a, NEW lost \in SUBSET Controls, LetGo(s, a, lost)
    PROVE  HandBack
<1>0. /\ \A c \in lost : controls[c].screen = s /\ controls[c].live
      /\ \A c \in lost : controls[c].applied => controls[c].app = a
      /\ \A c \in Controls : controls[c].applied /\ controls[c].app = a /\ controls[c].screen = s
             /\ (\E d \in lost : controls[d].applied) => c \in lost
      /\ (\E c \in lost : controls[c].applied) => Emit(s, NoTable)
      /\ (\A c \in lost : ~controls[c].applied) => UNCHANGED tables
      /\ \A c \in lost : ~controls'[c].applied
      /\ \A c \in Controls \ lost : controls'[c] = controls[c]
  BY DEF LetGo
<1>1. CASE \E c \in lost : controls[c].applied
  <2>1. Emit(s, NoTable)
    BY <1>0, <1>1
  <2>2. Ramp(s)' = NoTable /\ \A t \in Displays : t # s => Ramp(t)' = Ramp(t)
    BY <2>1, EmitSets
  <2>3. PICK c \in lost : Applied(c, s) /\ ~controls'[c].applied /\ controls[c].app = a
    BY <1>0, <1>1 DEF Applied
  <2>4. ASSUME NEW t \in Displays, NEW d \in Controls, Applied(d, t), ~controls'[d].applied
        PROVE  t = s
    BY <1>0, <2>4 DEF Applied
  <2>5. ASSUME TakesDownAnothers(s),
               \A d, e \in Controls : Applied(d, s) /\ Applied(e, s) => controls[d].app = controls[e].app
        PROVE  FALSE
    <3>1. /\ Ramp(s) \in Controls /\ Applied(Ramp(s), s) /\ controls'[Ramp(s)].applied
      BY <2>5, ControlOf DEF TakesDownAnothers, Applied
    <3>2. controls[Ramp(s)].app = a
      BY <2>3, <2>5, <3>1
    <3>3. Ramp(s) \in lost
      BY <1>0, <1>1, <3>1, <3>2 DEF Applied
    <3> QED
      BY <1>0, <3>1, <3>3
  <2>6. \A t \in Displays : TakesDownAnothers(t) => t = s
    BY <2>2 DEF TakesDownAnothers
  <2> QED
    BY <2>2, <2>3, <2>4, <2>5, <2>6 DEF HandBack
<1>2. CASE ~\E c \in lost : controls[c].applied
  <2>1. UNCHANGED tables
    BY <1>0, <1>2
  <2>2. \A c \in Controls, t \in Displays : Applied(c, t) => controls'[c].applied
    BY <1>0, <1>2 DEF Applied
  <2> QED
    BY <2>1, <2>2, NothingHanded DEF Ramp
<1> QED
  BY <1>1, <1>2

\* A ramp is taken down by whoever applied it, at its end, and by nobody else
\* unless two clients have applied theirs to the same output.
THEOREM RampsAreHandedBack == RampsSpec => HandedBack
<1>1. RampsInit => RampsInv /\ ControlsApart
  BY RampsStart DEF RampsInit, GammaInit, NoControl, ControlsApart
<1>2. RampsInv /\ ControlsApart /\ [RampsNext]_rampVars => RampsInv' /\ ControlsApart' /\ [HandBack]_rampVars
  <2> SUFFICES ASSUME RampsInv, ControlsApart, [RampsNext]_rampVars
               PROVE  ControlsApart' /\ [HandBack]_rampVars
    BY RampSteps
  <2>1. controls \in [Controls -> Control] /\ NoTable \notin Controls
    BY RampAssumption DEF RampsInv
  <2>2. CASE UNCHANGED rampVars
    BY <2>2 DEF rampVars, ControlsApart
  <2>3. ASSUME UNCHANGED controls, \A s \in Displays : Ramp(s)' = Ramp(s)
        PROVE  ControlsApart' /\ HandBack
    BY <2>3, NothingHanded DEF ControlsApart, Applied
  <2>4. ASSUME NEW s \in Displays, NEW size, SetOutputSize(s, size) PROVE ControlsApart' /\ HandBack
    BY <2>3, <2>4 DEF SetOutputSize, Ramp
  <2>5. ASSUME NEW k \in Kinds, NEW s \in Displays, HandleColours(k, s) PROVE ControlsApart' /\ HandBack
    BY <2>3, <2>5 DEF HandleColours, Ramp
  <2>6. ASSUME NEW a \in Apps,
               BindCtm(a) \/ CommitCtm(a) \/ LeaveCtm(a) \/ \E s \in Displays : SetCtmForOutput(a, s)
        PROVE  ControlsApart' /\ HandBack
    <3>1. UNCHANGED controls
      BY <2>6 DEF BindCtm, CommitCtm, LeaveCtm, SetCtmForOutput
    <3>2. tables' = tables \/ tables'["ramp"] = tables["ramp"]
      BY <2>6 DEF RampsInv, Kinds, BindCtm, CommitCtm, LeaveCtm, SetCtmForOutput, EmitAll
    <3> QED
      BY <2>3, <3>1, <3>2 DEF Ramp
  <2>7. ASSUME NEW c \in Controls, NEW a \in Apps, NEW s \in Displays, GetGammaControl(c, a, s)
        PROVE  ControlsApart' /\ HandBack
    <3> DEFINE failed == {d \in Controls : Holds(d, a, s)}
               new == [live |-> TRUE, app |-> a, screen |-> s, owns |-> HasTable(s), applied |-> FALSE]
    <3>1. /\ ~controls[c].live
          /\ controls' = [d \in Controls |->
                 IF d = c THEN new
                 ELSE IF d \in failed THEN [controls[d] EXCEPT !.owns = FALSE, !.applied = FALSE]
                 ELSE controls[d]]
          /\ inherited' = IF \E d \in failed : controls[d].applied THEN inherited \cup {s} ELSE inherited
          /\ UNCHANGED tables
      BY <2>7 DEF GetGammaControl
    <3>2. new.live /\ new.app = a /\ new.screen = s /\ ~new.applied
      OBVIOUS
    <3>3. \A d \in failed : controls[d].app = a /\ controls[d].screen = s /\ controls[d].live
      BY DEF Holds
    <3>4. \A d \in Controls \ failed :
             ~(controls[d].live /\ controls[d].owns /\ controls[d].app = a /\ controls[d].screen = s)
      BY DEF Holds
    <3> HIDE DEF new, failed
    <3>5. controls'[c] = new
      BY <3>1
    <3>6. \A d \in failed : d # c /\ d \in Controls
      BY <3>1, <3>3 DEF failed
    <3>7. ASSUME NEW d \in failed
          PROVE  ~controls'[d].owns /\ ~controls'[d].applied
      <4>1. controls'[d] = [controls[d] EXCEPT !.owns = FALSE, !.applied = FALSE]
        BY <3>1, <3>6
      <4>2. controls[d] \in Control
        BY <2>1, <3>6
      <4> QED
        BY <4>1, <4>2 DEF Control
    <3>8. \A d \in Controls : d # c /\ d \notin failed => controls'[d] = controls[d]
      BY <3>1
    <3>9. ControlsApart'
      <4>1. ASSUME NEW d \in Controls, controls'[d].applied PROVE controls'[d].live /\ controls'[d].owns
        <5>1. d # c /\ d \notin failed
          BY <3>2, <3>5, <3>7, <4>1
        <5> QED
          BY <3>8, <4>1, <5>1 DEF ControlsApart
      <4>2. ASSUME NEW d \in Controls, NEW e \in Controls,
                   controls'[d].live, controls'[d].owns, controls'[e].live, controls'[e].owns,
                   controls'[d].app = controls'[e].app, controls'[d].screen = controls'[e].screen
            PROVE  d = e
        <5>1. d \notin failed /\ e \notin failed
          BY <3>7, <4>2
        <5>2. CASE d # c /\ e # c
          BY <3>8, <4>2, <5>1, <5>2 DEF ControlsApart
        <5>3. CASE d = c /\ e # c
          BY <3>2, <3>4, <3>5, <3>8, <4>2, <5>1, <5>3
        <5>4. CASE d # c /\ e = c
          BY <3>2, <3>4, <3>5, <3>8, <4>2, <5>1, <5>4
        <5> QED
          BY <5>2, <5>3, <5>4
      <4> QED
        BY <4>1, <4>2 DEF ControlsApart
    <3>10. \A t \in Displays : Ramp(t)' = Ramp(t)
      BY <3>1 DEF Ramp
    <3>11. ASSUME NEW d \in Controls, NEW t \in Displays, Applied(d, t), ~controls'[d].applied
           PROVE  t \in inherited'
      <4>1. d \in failed
        BY <3>1, <3>8, <3>11 DEF Applied, ControlsApart
      <4> QED
        BY <3>1, <3>3, <3>11, <4>1 DEF Applied
    <3> QED
      BY <3>9, <3>10, <3>11 DEF HandBack, TakesDownAnothers
  <2>8. ASSUME NEW c \in Controls, SetGamma(c) PROVE ControlsApart' /\ HandBack
    <3>0. PICK s \in Displays : s = controls[c].screen
      BY <2>8, ControlOf DEF SetGamma
    <3>1. /\ controls[c].live /\ controls[c].owns /\ Emit(s, c)
          /\ controls' = [controls EXCEPT ![c].applied = TRUE]
      BY <2>8, <3>0 DEF SetGamma
    <3>2. \A d \in Controls : /\ controls'[d].live <=> controls[d].live
                              /\ controls'[d].owns <=> controls[d].owns
                              /\ controls'[d].app = controls[d].app
                              /\ controls'[d].screen = controls[d].screen
                              /\ (controls[d].applied => controls'[d].applied)
                              /\ (controls'[d].applied => d = c \/ controls[d].applied)
      BY <2>1, <3>1 DEF Control
    <3>3. ControlsApart'
      BY <3>1, <3>2 DEF ControlsApart
    <3>4. Ramp(s)' = c /\ \A t \in Displays : t # s => Ramp(t)' = Ramp(t)
      BY <3>1, EmitSets
    <3>5. Ramp(s)' # NoTable
      BY <2>1, <3>4
    <3>6. \A d \in Controls, t \in Displays : Applied(d, t) => controls'[d].applied
      BY <3>2 DEF Applied
    <3> QED
      BY <3>3, <3>4, <3>5, <3>6, RampTaken
  <2>9. ASSUME NEW c \in Controls, DestroyControl(c) PROVE ControlsApart' /\ HandBack
    <3>0. PICK s \in Displays : s = controls[c].screen
      BY <2>9, ControlOf DEF DestroyControl
    <3>1. /\ controls[c].live /\ controls' = [controls EXCEPT ![c] = NoControl]
          /\ Reset(s, controls[c].applied)
      BY <2>9, <3>0 DEF DestroyControl
    <3>2. /\ ~NoControl.live /\ ~NoControl.applied
          /\ controls'[c] = NoControl /\ \A d \in Controls : d # c => controls'[d] = controls[d]
      BY <2>1, <3>1 DEF NoControl
    <3>3. ControlsApart'
      BY <3>2 DEF ControlsApart
    <3>4. PICK a : a = controls[c].app
      OBVIOUS
    <3>5. PICK lost \in SUBSET Controls : lost = {c}
      OBVIOUS
    <3>6. /\ (\E d \in lost : controls[d].applied) => Emit(s, NoTable)
          /\ (\A d \in lost : ~controls[d].applied) => UNCHANGED tables
      BY <3>1, <3>5 DEF Reset
    <3>7. \A d \in Controls : controls[d].applied /\ controls[d].app = a /\ controls[d].screen = s
                             /\ (\E e \in lost : controls[e].applied) => d \in lost
      BY <3>0, <3>4, <3>5 DEF ControlsApart
    <3>8. \A d \in lost : controls[d].screen = s /\ controls[d].live
      BY <3>0, <3>1, <3>5
    <3>9. \A d \in lost : controls[d].applied => controls[d].app = a
      BY <3>4, <3>5
    <3>10. (\A d \in lost : ~controls'[d].applied) /\ (\A d \in Controls \ lost : controls'[d] = controls[d])
      BY <3>2, <3>5
    <3>11. LetGo(s, a, lost)
      BY <3>6, <3>7, <3>8, <3>9, <3>10 DEF LetGo
    <3>12. HandBack
      BY <3>11, HandsBack
    <3> QED
      BY <3>3, <3>12
  <2>10. ASSUME NEW a \in Apps, NEW s \in Displays, ReleaseOutput(a, s) PROVE ControlsApart' /\ HandBack
    <3> DEFINE lost == {c \in Controls : Holds(c, a, s)}
    <3>1. /\ controls' = [c \in Controls |->
                 IF c \in lost THEN [controls[c] EXCEPT !.owns = FALSE, !.applied = FALSE] ELSE controls[c]]
          /\ Reset(s, \E c \in lost : controls[c].applied)
      BY <2>10 DEF ReleaseOutput
    <3>2. /\ lost \in SUBSET Controls
          /\ \A c \in lost : controls[c].screen = s /\ controls[c].live /\ controls[c].app = a
          /\ \A c \in Controls : controls[c].live /\ controls[c].owns /\ controls[c].app = a
                                /\ controls[c].screen = s => c \in lost
      BY DEF Holds
    <3> HIDE DEF lost
    <3>3. \A c \in lost : ~controls'[c].owns /\ ~controls'[c].applied
      <4> SUFFICES ASSUME NEW c \in lost PROVE ~controls'[c].owns /\ ~controls'[c].applied
        OBVIOUS
      <4>1. controls'[c] = [controls[c] EXCEPT !.owns = FALSE, !.applied = FALSE] /\ controls[c] \in Control
        BY <2>1, <3>1, <3>2
      <4> QED
        BY <4>1 DEF Control
    <3>4. \A c \in Controls \ lost : controls'[c] = controls[c]
      BY <3>1
    <3>5. ControlsApart'
      <4>1. ASSUME NEW d \in Controls, controls'[d].applied \/ controls'[d].owns PROVE d \notin lost /\ controls'[d] = controls[d]
        BY <3>3, <3>4, <4>1
      <4> QED
        BY <4>1 DEF ControlsApart
    <3>6. \A c \in Controls : controls[c].applied /\ controls[c].app = a /\ controls[c].screen = s
                 /\ (\E d \in lost : controls[d].applied) => c \in lost
      BY <3>2 DEF ControlsApart
    <3>7. /\ \A c \in lost : controls[c].screen = s /\ controls[c].live
          /\ \A c \in lost : controls[c].applied => controls[c].app = a
          /\ \A c \in lost : ~controls'[c].applied
      BY <3>2, <3>3
    <3>8. /\ lost \in SUBSET Controls
          /\ (\E c \in lost : controls[c].applied) => Emit(s, NoTable)
          /\ (\A c \in lost : ~controls[c].applied) => UNCHANGED tables
      BY <3>1, <3>2 DEF Reset
    <3>9. PICK gone \in SUBSET Controls : gone = lost
      BY <3>2
    <3>10. LetGo(s, a, gone)
      BY <3>4, <3>6, <3>7, <3>8, <3>9 DEF LetGo
    <3>11. HandBack
      BY <3>10, HandsBack
    <3> QED
      BY <3>5, <3>11
  <2> QED
    BY <2>2, <2>4, <2>5, <2>6, <2>7, <2>8, <2>9, <2>10 DEF RampsNext
<1> QED
  BY <1>1, <1>2, PTL DEF RampsSpec, HandedBack

-----------------------------------------------------------------------------
(* Output management.  A description of the outputs is known by its serial, *)
(* so that a configuration with the last serial was begun against the heads *)
(* of now; a ticket is new when it is given, so that whoever holds it is    *)
(* alone, and can still be read and answered.                               *)

\* What is known of a configuration by itself, whatever its picture is.
ConfigsOf(P) ==
    [state : {"none", "open", "used"}, serial : Nat, stale : BOOLEAN, named : SUBSET Monitors,
     ticket : Nat, verdicts : Seq(Verdicts), picture : P, present : BOOLEAN]

Judgement(r) ==
    /\ r.present
    /\ r.state # "used" => r.ticket = 0 /\ r.verdicts = <<>>
    /\ r.state = "used" => Len(r.verdicts) = IF r.ticket = 0 THEN 1 ELSE 0

SoundConfig(r) == (\E P : r \in ConfigsOf(P)) /\ Judgement(r)

\* An open one is of a description that was sent, and knows the last.
Begun(r, last, described) ==
    r.state = "open" => r.serial <= last /\ (r.serial = last => r.picture = described)

Described == [m \in heads |-> said[m]]

\* Its ticket was given, and can be read and answered.
Pending(ticket) ==
    /\ ticket \in 1..tickets /\ ticket \in DOMAIN waiting
    /\ ticket \in asks.read \cup ToSet(asks.queued)

\* Whoever waits has such a ticket.
Waits(c) == configs[c].ticket # 0 => Pending(configs[c].ticket)

HeadsOf(X) == [enabled : BOOLEAN, x : X, mode : X]
IsHead(h) == \E X : h \in HeadsOf(X)
Knows(v, s) == v.enabled = s.enabled /\ (s.enabled => v = s)

HeadsInv ==
    /\ serial \in Nat /\ heads \subseteq Monitors
    /\ DOMAIN said = Monitors /\ DOMAIN view = Monitors
    /\ said = [m \in Monitors |-> said[m]] /\ view = [m \in Monitors |-> view[m]]
    /\ \A m \in Monitors : IsHead(said[m]) /\ IsHead(view[m])
    /\ \A m \in heads : Knows(view[m], said[m])

RequestsInv ==
    /\ tickets \in Nat /\ asks.queued \in Seq(Nat)
    /\ asks = [queued |-> asks.queued, read |-> asks.read]
    /\ configs = [c \in Configs |-> configs[c]]
    /\ \A c \in Configs : /\ SoundConfig(configs[c])
                          /\ Begun(configs[c], serial, Described)
                          /\ Waits(c)
    /\ \A c, d \in Configs :
           configs[c].ticket # 0 /\ configs[c].ticket = configs[d].ticket => c = d

ConfigsInv == HeadsInv /\ RequestsInv

-----------------------------------------------------------------------------
LEMMA NoConfigIs == SoundConfig(NoConfig) /\ NoConfig.ticket = 0 /\ NoConfig.state = "none"
<1>1. NoConfig \in ConfigsOf({<<>>})
  BY DEF NoConfig, ConfigsOf
<1> QED
  BY <1>1 DEF NoConfig, SoundConfig, Judgement

LEMMA ReadIs ==
    ASSUME NEW m
    PROVE  IsHead(Read(m)) /\ IsHead(Unknown) /\ Unknown.enabled = FALSE
<1>1. /\ Read(m) \in HeadsOf({Read(m).x, Read(m).mode})
      /\ Unknown \in HeadsOf({Unknown.x, Unknown.mode}) /\ Unknown.enabled = FALSE
  BY DEF Read, HeadsOf, Unknown
<1> QED
  BY <1>1 DEF IsHead

LEMMA HeadSplit ==
    ASSUME NEW h, IsHead(h)
    PROVE  /\ h.enabled \in BOOLEAN
           /\ h = [enabled |-> h.enabled, x |-> h.x, mode |-> h.mode]
           /\ [h EXCEPT !.enabled = FALSE] = [enabled |-> FALSE, x |-> h.x, mode |-> h.mode]
<1>1. PICK X : h \in [enabled : BOOLEAN, x : X, mode : X]
  BY DEF IsHead, HeadsOf
<1>2. h.enabled \in BOOLEAN
  BY <1>1
<1>3. h = [enabled |-> h.enabled, x |-> h.x, mode |-> h.mode]
  BY <1>1
<1>4. [h EXCEPT !.enabled = FALSE] = [enabled |-> FALSE, x |-> h.x, mode |-> h.mode]
  <2> DEFINE off == [h EXCEPT !.enabled = FALSE]
  <2>1. off \in [enabled : BOOLEAN, x : X, mode : X] /\ off.enabled = FALSE /\ off.x = h.x /\ off.mode = h.mode
    BY <1>1
  <2> HIDE DEF off
  <2>2. off = [enabled |-> off.enabled, x |-> off.x, mode |-> off.mode]
    BY <2>1
  <2> QED
    BY <2>1, <2>2 DEF off
<1> QED
  BY <1>2, <1>3, <1>4

LEMMA HeadMade ==
    ASSUME NEW e \in BOOLEAN, NEW x, NEW mode
    PROVE  IsHead([enabled |-> e, x |-> x, mode |-> mode])
<1>1. [enabled |-> e, x |-> x, mode |-> mode] \in HeadsOf({x, mode})
  BY DEF HeadsOf
<1> QED
  BY <1>1 DEF IsHead

\* What a client hears makes it know what was said.
LEMMA ToldKnows ==
    ASSUME NEW old, NEW was, NEW now, IsHead(old), IsHead(was), IsHead(now), Knows(old, was)
    PROVE  IsHead(Told(old, was, now)) /\ Knows(Told(old, was, now), now)
<1>1. CASE ~now.enabled
  <2>1. Told(old, was, now) = [enabled |-> FALSE, x |-> old.x, mode |-> old.mode]
    BY <1>1, HeadSplit DEF Told
  <2>2. IsHead(Told(old, was, now))
    BY <2>1, HeadMade
  <2>3. Told(old, was, now).enabled = FALSE
    BY <2>1
  <2>4. now.enabled = FALSE
    BY <1>1, HeadSplit
  <2> QED
    BY <2>2, <2>3, <2>4 DEF Knows
<1>2. CASE now.enabled
  <2>1. Told(old, was, now) =
           [enabled |-> TRUE,
            x |-> IF now.x # was.x \/ ~was.enabled THEN now.x ELSE old.x,
            mode |-> IF now.mode # was.mode \/ ~was.enabled THEN now.mode ELSE old.mode]
    BY <1>2 DEF Told
  <2>2. was.enabled => old = was
    BY DEF Knows
  <2>3. Told(old, was, now) = [enabled |-> TRUE, x |-> now.x, mode |-> now.mode]
    BY <2>1, <2>2
  <2>4. now.enabled = TRUE
    BY <1>2, HeadSplit
  <2>5. now = [enabled |-> TRUE, x |-> now.x, mode |-> now.mode]
    BY <2>4, HeadSplit
  <2>6. Told(old, was, now) = now
    BY <2>3, <2>5
  <2> QED
    BY <2>6 DEF Knows
<1> QED
  BY <1>1, <1>2

-----------------------------------------------------------------------------
(* Descriptions. *)

LEMMA HeadsFollow ==
    ASSUME HeadsInv, NEW m \in Monitors, NEW now, NEW told, IsHead(now), IsHead(told), Knows(told, now),
           heads' \subseteq heads \cup {m}, serial' = serial + 1,
           said' = [said EXCEPT ![m] = now], view' = [view EXCEPT ![m] = told]
    PROVE  HeadsInv' /\ serial' = serial + 1
<1>1. /\ DOMAIN said' = Monitors /\ DOMAIN view' = Monitors
      /\ said'[m] = now /\ view'[m] = told
      /\ \A k \in Monitors \ {m} : said'[k] = said[k] /\ view'[k] = view[k]
  BY DEF HeadsInv
<1>2. serial' \in Nat /\ heads' \subseteq Monitors
  BY DEF HeadsInv
<1>3. \A k \in Monitors : IsHead(said'[k]) /\ IsHead(view'[k])
  BY <1>1 DEF HeadsInv
<1>4. \A k \in heads' : Knows(view'[k], said'[k])
  BY <1>1, <1>2 DEF HeadsInv
<1>5. said' = [k \in Monitors |-> said'[k]] /\ view' = [k \in Monitors |-> view'[k]]
  BY DEF HeadsInv
<1> QED
  BY <1>1, <1>2, <1>3, <1>4, <1>5 DEF HeadsInv

LEMMA AddHeadKnown ==
    ASSUME HeadsInv, NEW m \in Monitors, AddHead(m)
    PROVE  HeadsInv' /\ serial' = serial + 1
<1>1. /\ heads' = heads \cup {m}
      /\ said' = [said EXCEPT ![m] = Read(m)]
      /\ view' = [view EXCEPT ![m] = Told(Unknown, Unknown, Read(m))]
      /\ serial' = serial + 1
  BY DEF AddHead, SendDone
<1>2. IsHead(Read(m)) /\ IsHead(Unknown) /\ Knows(Unknown, Unknown)
  BY ReadIs DEF Knows
<1>3. IsHead(Told(Unknown, Unknown, Read(m))) /\ Knows(Told(Unknown, Unknown, Read(m)), Read(m))
  BY <1>2, ToldKnows
<1>4. PICK now, told : now = Read(m) /\ told = Told(Unknown, Unknown, Read(m))
  OBVIOUS
<1>5. /\ heads' = heads \cup {m} /\ serial' = serial + 1
      /\ said' = [said EXCEPT ![m] = now] /\ view' = [view EXCEPT ![m] = told]
      /\ IsHead(now) /\ IsHead(told) /\ Knows(told, now)
  BY <1>1, <1>2, <1>3, <1>4
<1> QED
  BY <1>5, HeadsFollow

LEMMA RemoveHeadKnown ==
    ASSUME HeadsInv, NEW m \in Monitors, RemoveHead(m)
    PROVE  HeadsInv' /\ serial' = serial + 1
<1>1. /\ heads' = heads \ {m}
      /\ said' = [said EXCEPT ![m] = Unknown] /\ view' = [view EXCEPT ![m] = Unknown]
      /\ serial' = serial + 1
  BY DEF RemoveHead, SendDone
<1>2. PICK now : now = Unknown
  OBVIOUS
<1>3. /\ heads' \subseteq heads \cup {m} /\ serial' = serial + 1
      /\ said' = [said EXCEPT ![m] = now] /\ view' = [view EXCEPT ![m] = now]
      /\ IsHead(now) /\ Knows(now, now)
  BY <1>1, <1>2, ReadIs DEF Knows
<1> QED
  BY <1>3, HeadsFollow

LEMMA UpdateKnown ==
    ASSUME HeadsInv, Update
    PROVE  HeadsInv' /\ serial' = serial + 1
<1> DEFINE now == [m \in Monitors |-> IF m \in heads THEN Read(m) ELSE said[m]]
<1>1. /\ heads' = heads /\ said' = now /\ serial' = serial + 1
      /\ view' = [m \in Monitors |-> IF now[m] # said[m] THEN Told(view[m], said[m], now[m]) ELSE view[m]]
  BY DEF Update, SendDone
<1>2. /\ DOMAIN now = Monitors /\ now = [m \in Monitors |-> now[m]]
      /\ \A m \in Monitors : IsHead(now[m])
      /\ \A m \in Monitors \ heads : now[m] = said[m]
  <2>1. \A m : IsHead(Read(m))
    BY ReadIs
  <2>2. \A m \in Monitors : now[m] = IF m \in heads THEN Read(m) ELSE said[m]
    OBVIOUS
  <2> HIDE DEF now
  <2> QED
    BY <2>1, <2>2 DEF HeadsInv, now
<1> HIDE DEF now
<1>3. ASSUME NEW m \in Monitors
      PROVE  IsHead(view'[m]) /\ (m \in heads => Knows(view'[m], now[m]))
  <2>1. IsHead(view[m]) /\ IsHead(said[m]) /\ IsHead(now[m]) /\ (m \in heads => Knows(view[m], said[m]))
    BY <1>2 DEF HeadsInv
  <2>2. CASE now[m] = said[m]
    BY <1>1, <2>1, <2>2
  <2>3. CASE now[m] # said[m]
    <3>1. m \in heads /\ Knows(view[m], said[m])
      BY <1>2, <2>1, <2>3
    <3>2. IsHead(Told(view[m], said[m], now[m])) /\ Knows(Told(view[m], said[m], now[m]), now[m])
      BY <2>1, <3>1, ToldKnows
    <3> QED
      BY <1>1, <2>3, <3>2
  <2> QED
    BY <2>2, <2>3
<1> QED
  BY <1>1, <1>2, <1>3 DEF HeadsInv

LEMMA ConfigSplit ==
    ASSUME NEW r, SoundConfig(r)
    PROVE  /\ r.serial \in Nat /\ r.ticket \in Nat /\ r.verdicts \in Seq(Verdicts)
           /\ r.stale \in BOOLEAN /\ r.named \in SUBSET Monitors /\ r.present
           /\ r.state \in {"none", "open", "used"}
           /\ r.state # "used" => r.ticket = 0 /\ r.verdicts = <<>>
           /\ r.state = "used" => Len(r.verdicts) = IF r.ticket = 0 THEN 1 ELSE 0
  BY DEF SoundConfig, Judgement, ConfigsOf

\* A new description leaves every configuration behind.
LEMMA DescriptionsPass ==
    ASSUME ConfigsInv, HeadsInv', serial' = serial + 1, UNCHANGED ClientVars
    PROVE  ConfigsInv'
<1>1. serial \in Nat /\ UNCHANGED <<configs, tickets, waiting, asks>>
  BY DEF ConfigsInv, HeadsInv, ClientVars
<1>2. \A c \in Configs : Begun(configs[c], serial, Described) /\ SoundConfig(configs[c])
  BY DEF ConfigsInv, RequestsInv
<1>3. ASSUME NEW c \in Configs PROVE Begun(configs[c], serial', Described')
  <2>1. Begun(configs[c], serial, Described) /\ configs[c].serial \in Nat
    BY <1>2, ConfigSplit
  <2> QED
    BY <1>1, <2>1 DEF Begun
<1>4. RequestsInv'
  BY <1>1, <1>3 DEF ConfigsInv, RequestsInv, Waits, Pending
<1> QED
  BY <1>4 DEF ConfigsInv

-----------------------------------------------------------------------------
(* Configurations. *)

LEMMA HeadsStay ==
    ASSUME HeadsInv, UNCHANGED <<heads, said, view, serial>>
    PROVE  HeadsInv' /\ Described' = Described
  BY DEF HeadsInv, Described

\* One configuration changes, which waits for nothing new.
LEMMA OneConfigChanges ==
    ASSUME ConfigsInv, UNCHANGED <<heads, said, view, serial, tickets, waiting, asks>>,
           NEW c \in Configs, NEW r, configs' = [configs EXCEPT ![c] = r],
           SoundConfig(r), Begun(r, serial, Described), r.ticket = 0
    PROVE  ConfigsInv'
<1>1. HeadsInv' /\ Described' = Described
  BY HeadsStay DEF ConfigsInv
<1>2. /\ configs' = [d \in Configs |-> configs'[d]]
      /\ configs'[c] = r /\ \A d \in Configs \ {c} : configs'[d] = configs[d]
  BY DEF ConfigsInv, RequestsInv
<1>3. \A d \in Configs : /\ SoundConfig(configs'[d])
                         /\ Begun(configs'[d], serial, Described)
                         /\ configs'[d].ticket # 0 => Pending(configs'[d].ticket)
  BY <1>2 DEF ConfigsInv, RequestsInv, Waits
<1>4. \A d, e \in Configs :
           configs'[d].ticket # 0 /\ configs'[d].ticket = configs'[e].ticket => d = e
  BY <1>2 DEF ConfigsInv, RequestsInv
<1>5. tickets \in Nat /\ asks.queued \in Seq(Nat) /\ asks = [queued |-> asks.queued, read |-> asks.read]
  BY DEF ConfigsInv, RequestsInv
<1> QED
  BY <1>1, <1>2, <1>3, <1>4, <1>5 DEF ConfigsInv, RequestsInv, Waits, Pending

\* A verdict, of one that waits or is open.
LEMMA VerdictIs ==
    ASSUME NEW P, NEW r \in ConfigsOf(P), r.present, r.verdicts = <<>>, NEW v \in Verdicts
    PROVE  SoundConfig(Verdict(r, v)) /\ Verdict(r, v).ticket = 0 /\ Verdict(r, v).state = "used"
<1> DEFINE vs == Append(r.verdicts, v)
           u == [r EXCEPT !.state = "used", !.ticket = 0, !.named = {}, !.picture = <<>>, !.verdicts = vs]
<1>1. vs \in Seq(Verdicts) /\ Len(vs) = 1
  BY DEF ConfigsOf
<1>3. Verdict(r, v) = u
  BY DEF Verdict
<1> HIDE DEF vs
<1>4. u \in ConfigsOf({<<>>})
  BY <1>1 DEF ConfigsOf
<1>5. u.ticket = 0 /\ u.state = "used" /\ u.verdicts = vs /\ (u.present <=> r.present)
  BY DEF ConfigsOf
<1> HIDE DEF u
<1>6. Judgement(u)
  BY <1>1, <1>5 DEF Judgement
<1> QED
  BY <1>3, <1>4, <1>5, <1>6 DEF SoundConfig

LEMMA ClientsKeep ==
    ASSUME ConfigsInv, NEW c \in Configs,
           \/ CreateConfiguration(c) \/ NameFinished(c) \/ Cancel(c) \/ Forgotten(c)
           \/ DestroyConfig(c)
           \/ \E m \in Monitors : NameHead(c, m)
    PROVE  ConfigsInv'
<1>1. UNCHANGED <<heads, said, view, serial, tickets, waiting, asks>>
  BY DEF CreateConfiguration, NameFinished, Cancel, Forgotten, DestroyConfig, NameHead, HeadVars
<1>2. /\ SoundConfig(configs[c]) /\ Begun(configs[c], serial, Described)
      /\ serial \in Nat /\ heads \subseteq Monitors
  BY DEF ConfigsInv, RequestsInv, HeadsInv
<1>3. CASE CreateConfiguration(c)
  <2>1. PICK pic : pic = Described
    OBVIOUS
  <2> DEFINE r == [NoConfig EXCEPT !.state = "open", !.serial = serial, !.picture = pic]
  <2>2. configs' = [configs EXCEPT ![c] = r]
    BY <1>3, <2>1 DEF CreateConfiguration, Described
  <2>3. r \in ConfigsOf({pic})
    <3>1. NoConfig \in ConfigsOf({<<>>})
      BY DEF NoConfig, ConfigsOf
    <3> QED
      BY <1>2, <3>1 DEF ConfigsOf
  <2>4. r.state = "open" /\ r.serial = serial /\ r.picture = pic /\ r.ticket = 0 /\ r.verdicts = <<>> /\ r.present
    BY DEF NoConfig
  <2> HIDE DEF r
  <2>5. SoundConfig(r)
    BY <2>3, <2>4 DEF SoundConfig, Judgement
  <2>6. Begun(r, serial, Described)
    BY <1>2, <2>1, <2>4 DEF Begun
  <2> QED
    BY <1>1, <2>2, <2>4, <2>5, <2>6, OneConfigChanges
<1>4. CASE Forgotten(c) \/ DestroyConfig(c)
  <2>1. configs' = [configs EXCEPT ![c] = NoConfig]
    BY <1>4 DEF Forgotten, DestroyConfig
  <2>2. SoundConfig(NoConfig) /\ Begun(NoConfig, serial, Described) /\ NoConfig.ticket = 0
    BY NoConfigIs DEF Begun
  <2> QED
    BY <1>1, <2>1, <2>2, OneConfigChanges
<1>5. CASE NameFinished(c)
  <2> DEFINE r == [configs[c] EXCEPT !.stale = TRUE]
  <2>1. configs' = [configs EXCEPT ![c] = r] /\ configs[c].state = "open"
    BY <1>5 DEF NameFinished
  <2>3. PICK P : configs[c] \in ConfigsOf(P)
    BY <1>2 DEF SoundConfig
  <2>4. /\ r \in ConfigsOf(P) /\ r.state = configs[c].state /\ r.serial = configs[c].serial
        /\ r.ticket = configs[c].ticket /\ r.verdicts = configs[c].verdicts
        /\ r.picture = configs[c].picture /\ (r.present <=> configs[c].present)
    BY <2>3 DEF ConfigsOf
  <2> HIDE DEF r
  <2>2. SoundConfig(r) /\ Begun(r, serial, Described) /\ r.ticket = 0
    BY <1>2, <2>1, <2>4 DEF SoundConfig, Judgement, Begun
  <2> QED
    BY <1>1, <2>1, <2>2, OneConfigChanges
<1>6. ASSUME NEW m \in Monitors, NameHead(c, m) PROVE ConfigsInv'
  <2> DEFINE r == [configs[c] EXCEPT !.named = configs[c].named \cup {m}]
  <2>1. configs' = [configs EXCEPT ![c] = r] /\ configs[c].state = "open"
    BY <1>6 DEF NameHead
  <2>3. PICK P : configs[c] \in ConfigsOf(P)
    BY <1>2 DEF SoundConfig
  <2>4. /\ r \in ConfigsOf(P) /\ r.state = configs[c].state /\ r.serial = configs[c].serial
        /\ r.ticket = configs[c].ticket /\ r.verdicts = configs[c].verdicts
        /\ r.picture = configs[c].picture /\ (r.present <=> configs[c].present)
    BY <2>3 DEF ConfigsOf
  <2> HIDE DEF r
  <2>2. SoundConfig(r) /\ Begun(r, serial, Described) /\ r.ticket = 0
    BY <1>2, <2>1, <2>4 DEF SoundConfig, Judgement, Begun
  <2> QED
    BY <1>1, <2>1, <2>2, OneConfigChanges
<1>7. CASE Cancel(c)
  <2> DEFINE r == Verdict(configs[c], "cancelled")
  <2>1. configs' = [configs EXCEPT ![c] = r] /\ configs[c].state = "open"
    BY <1>7 DEF Cancel
  <2>2. configs[c].verdicts = <<>> /\ configs[c].present /\ "cancelled" \in Verdicts
    BY <1>2, <2>1, ConfigSplit DEF Verdicts
  <2>4. PICK P : configs[c] \in ConfigsOf(P)
    BY <1>2 DEF SoundConfig
  <2>3. SoundConfig(r) /\ Begun(r, serial, Described) /\ r.ticket = 0
    BY <2>2, <2>4, VerdictIs DEF Begun
  <2> HIDE DEF r
  <2> QED
    BY <1>1, <2>1, <2>3, OneConfigChanges
<1> QED
  BY <1>3, <1>4, <1>5, <1>6, <1>7

-----------------------------------------------------------------------------
(* Requests and their answers. *)

LEMMA AppendSet ==
    ASSUME NEW s \in Seq(Nat), NEW q \in Nat
    PROVE  Append(s, q) \in Seq(Nat) /\ ToSet(Append(s, q)) = ToSet(s) \cup {q}
<1>1. /\ Append(s, q) \in Seq(Nat) /\ DOMAIN Append(s, q) = 1..(Len(s) + 1)
      /\ Append(s, q)[Len(s) + 1] = q /\ \A i \in 1..Len(s) : Append(s, q)[i] = s[i]
      /\ DOMAIN s = 1..Len(s)
  OBVIOUS
<1>2. ToSet(Append(s, q)) \subseteq ToSet(s) \cup {q}
  BY <1>1 DEF ToSet
<1>3. ToSet(s) \subseteq ToSet(Append(s, q)) /\ q \in ToSet(Append(s, q))
  BY <1>1 DEF ToSet
<1> QED
  BY <1>1, <1>2, <1>3

LEMMA TailSet ==
    ASSUME NEW s \in Seq(Nat), s # <<>>
    PROVE  Tail(s) \in Seq(Nat) /\ Head(s) \in Nat /\ ToSet(s) \subseteq {Head(s)} \cup ToSet(Tail(s))
<1>1. /\ Tail(s) \in Seq(Nat) /\ Head(s) = s[1] /\ Head(s) \in Nat /\ DOMAIN s = 1..Len(s)
      /\ DOMAIN Tail(s) = 1..(Len(s) - 1) /\ \A i \in 1..(Len(s) - 1) : Tail(s)[i] = s[i + 1]
  OBVIOUS
<1>2. ASSUME NEW i \in 1..Len(s) PROVE s[i] \in {Head(s)} \cup ToSet(Tail(s))
  <2>1. i = 1 \/ (i - 1 \in 1..(Len(s) - 1) /\ (i - 1) + 1 = i)
    OBVIOUS
  <2>2. CASE i = 1
    BY <1>1, <2>2
  <2>3. CASE i - 1 \in 1..(Len(s) - 1) /\ (i - 1) + 1 = i
    <3>1. Tail(s)[i - 1] = s[i] /\ i - 1 \in DOMAIN Tail(s)
      BY <1>1, <2>3
    <3> QED
      BY <3>1 DEF ToSet
  <2> QED
    BY <2>1, <2>2, <2>3
<1>3. ToSet(s) \subseteq {Head(s)} \cup ToSet(Tail(s))
  <2> SUFFICES ASSUME NEW x \in ToSet(s) PROVE x \in {Head(s)} \cup ToSet(Tail(s))
    OBVIOUS
  <2>1. PICK i \in 1..Len(s) : x = s[i]
    BY <1>1 DEF ToSet
  <2> QED
    BY <1>2, <2>1
<1> QED
  BY <1>1, <1>3

LEMMA SubmitKeeps ==
    ASSUME ConfigsInv, NEW c \in Configs, NEW v \in Verdicts, Submit(c, v)
    PROVE  ConfigsInv'
<1> DEFINE t == tickets + 1
<1>1. /\ UNCHANGED <<heads, said, view, serial>> /\ tickets' = t
      /\ configs[c].state = "open" /\ ~Outdated(c)
  BY DEF Submit, HeadVars
<1>2. /\ SoundConfig(configs[c]) /\ Begun(configs[c], serial, Described)
      /\ tickets \in Nat /\ asks.queued \in Seq(Nat)
      /\ asks = [queued |-> asks.queued, read |-> asks.read]
  BY DEF ConfigsInv, RequestsInv
<1>3. configs[c].picture = Described /\ configs[c].verdicts = <<>> /\ configs[c].ticket = 0
  BY <1>1, <1>2, ConfigSplit DEF Begun, Outdated
<1>4. PICK j : /\ j = Judged(c) /\ j \in ConfigsOf({<<>>}) /\ j.present
               /\ j.state = "used" /\ j.ticket = 0 /\ j.verdicts = <<>>
  <2>1. PICK P : configs[c] \in ConfigsOf(P)
    BY <1>2 DEF SoundConfig
  <2> DEFINE same == configs[c].picture = Described
             j == [configs[c] EXCEPT !.state = "used", !.named = {}, !.picture = <<>>, !.present = same]
  <2>2. same \in BOOLEAN /\ same
    BY <1>3
  <2>3. j = Judged(c)
    BY DEF Judged, Described
  <2> HIDE DEF same
  <2>4. /\ j \in ConfigsOf({<<>>}) /\ (j.present <=> same)
        /\ j.state = "used" /\ j.ticket = configs[c].ticket /\ j.verdicts = configs[c].verdicts
    BY <2>1, <2>2 DEF ConfigsOf
  <2> HIDE DEF j
  <2> QED
    BY <1>3, <2>2, <2>3, <2>4
<1>5. HeadsInv' /\ Described' = Described
  BY <1>1, HeadsStay DEF ConfigsInv
<1>6. PICK r, q : /\ configs' = [configs EXCEPT ![c] = r] /\ SoundConfig(r) /\ r.state = "used"
                  /\ asks' = [asks EXCEPT !.queued = Append(asks.queued, q)] /\ q \in Nat
                  /\ DOMAIN waiting \subseteq DOMAIN waiting'
                  /\ r.ticket # 0 => r.ticket = t /\ q = t /\ t \in DOMAIN waiting'
  <2>1. CASE deferred
    <3> DEFINE r == [j EXCEPT !.ticket = t]
    <3>1. /\ configs' = [configs EXCEPT ![c] = r]
          /\ asks' = [asks EXCEPT !.queued = Append(asks.queued, t)]
          /\ waiting' = [u \in DOMAIN waiting \cup {t} |-> IF u = t THEN heads ELSE waiting[u]]
      BY <1>1, <1>4, <2>1 DEF Submit
    <3>2. t \in Nat /\ t # 0
      BY <1>2
    <3>3. /\ r \in ConfigsOf({<<>>}) /\ (r.present <=> j.present)
          /\ r.state = j.state /\ r.ticket = t /\ r.verdicts = j.verdicts
      BY <1>4, <3>2 DEF ConfigsOf
    <3> HIDE DEF r, t
    <3>4. SoundConfig(r)
      BY <1>4, <3>2, <3>3 DEF SoundConfig, Judgement
    <3> QED
      BY <1>4, <3>1, <3>2, <3>3, <3>4
  <2>2. CASE ~deferred
    <3> DEFINE r == Verdict(j, v)
    <3>1. /\ configs' = [configs EXCEPT ![c] = r]
          /\ asks' = [asks EXCEPT !.queued = Append(asks.queued, 0)]
          /\ waiting' = waiting
      BY <1>1, <1>4, <2>2 DEF Submit
    <3>3. SoundConfig(r) /\ r.state = "used" /\ r.ticket = 0
      BY <1>4, VerdictIs
    <3>4. 0 \in Nat /\ DOMAIN waiting \subseteq DOMAIN waiting'
      BY <3>1
    <3> HIDE DEF r, t
    <3> QED
      BY <3>1, <3>3, <3>4
  <2> QED
    BY <2>1, <2>2
<1>7. /\ asks'.queued = Append(asks.queued, q) /\ asks'.read = asks.read
      /\ asks' = [queued |-> asks'.queued, read |-> asks'.read]
      /\ asks'.queued \in Seq(Nat)
      /\ ToSet(asks'.queued) = ToSet(asks.queued) \cup {q}
  <2>1. /\ asks'.queued = Append(asks.queued, q) /\ asks'.read = asks.read
        /\ asks' = [queued |-> asks'.queued, read |-> asks'.read]
    BY <1>2, <1>6
  <2>2. /\ Append(asks.queued, q) \in Seq(Nat)
        /\ ToSet(Append(asks.queued, q)) = ToSet(asks.queued) \cup {q}
    BY <1>2, <1>6, AppendSet
  <2> QED
    BY <2>1, <2>2
<1>8. /\ configs' = [d \in Configs |-> configs'[d]]
      /\ configs'[c] = r /\ \A d \in Configs \ {c} : configs'[d] = configs[d]
  BY <1>6 DEF ConfigsInv, RequestsInv
<1>9. ASSUME NEW d \in Configs \ {c}, configs'[d].ticket # 0
      PROVE  Pending(configs[d].ticket) /\ configs[d].ticket = configs'[d].ticket /\ configs'[d].ticket # t
  <2>1. configs'[d] = configs[d] /\ Pending(configs[d].ticket)
    BY <1>8, <1>9 DEF ConfigsInv, RequestsInv, Waits
  <2> QED
    BY <1>2, <2>1 DEF Pending
<1>10. \A u : Pending(u) => Pending(u)'
  BY <1>1, <1>2, <1>6, <1>7 DEF Pending
<1>11. ASSUME NEW d \in Configs PROVE Waits(d)'
  <2> SUFFICES ASSUME configs'[d].ticket # 0 PROVE Waits(d)'
    BY DEF Waits
  <2>1. PICK u : u = configs'[d].ticket
    OBVIOUS
  <2>2. Pending(u)'
    <3>1. CASE d = c
      <4>1. u = t /\ q = t /\ t \in DOMAIN waiting' /\ tickets' = t
        BY <1>1, <1>6, <1>8, <2>1, <3>1
      <4>2. t \in 1..t /\ q \in ToSet(asks'.queued)
        BY <1>2, <1>7
      <4> QED
        BY <4>1, <4>2 DEF Pending
    <3>2. CASE d # c
      BY <1>9, <1>10, <2>1, <3>2
    <3> QED
      BY <3>1, <3>2
  <2> QED
    BY <2>1, <2>2 DEF Waits
<1>12. \A d \in Configs : SoundConfig(configs'[d]) /\ Begun(configs'[d], serial, Described)
  BY <1>6, <1>8 DEF ConfigsInv, RequestsInv, Begun
<1>13. \A d, e \in Configs : configs'[d].ticket # 0 /\ configs'[d].ticket = configs'[e].ticket => d = e
  <2> SUFFICES ASSUME NEW d \in Configs, NEW e \in Configs,
                      configs'[d].ticket # 0, configs'[d].ticket = configs'[e].ticket
               PROVE  d = e
    OBVIOUS
  <2>1. CASE d = c \/ e = c
    BY <1>6, <1>8, <1>9, <2>1
  <2>2. CASE d # c /\ e # c
    BY <1>8, <2>2 DEF ConfigsInv, RequestsInv
  <2> QED
    BY <2>1, <2>2
<1>14. tickets' \in Nat
  BY <1>1, <1>2
<1> QED
  BY <1>1, <1>5, <1>7, <1>8, <1>11, <1>12, <1>13, <1>14 DEF ConfigsInv, RequestsInv

\* Whoever waits under the ticket hears the answer, and the others wait on.
LEMMA AnswerKeeps ==
    ASSUME ConfigsInv, NEW t \in 1..MaxTickets, NEW v \in Verdicts, Answer(t, v)
    PROVE  ConfigsInv'
<1>1. /\ UNCHANGED <<heads, said, view, serial, tickets, asks>>
      /\ configs' = [c \in Configs |-> IF configs[c].ticket = t THEN Verdict(configs[c], v) ELSE configs[c]]
      /\ DOMAIN waiting' = DOMAIN waiting \ {t}
  BY DEF Answer, HeadVars
<1>2. /\ tickets \in Nat /\ asks.queued \in Seq(Nat)
      /\ asks = [queued |-> asks.queued, read |-> asks.read]
      /\ \A c \in Configs : SoundConfig(configs[c]) /\ Begun(configs[c], serial, Described) /\ Waits(c)
  BY DEF ConfigsInv, RequestsInv
<1>3. HeadsInv' /\ Described' = Described
  BY <1>1, HeadsStay DEF ConfigsInv
<1>4. configs' = [c \in Configs |-> configs'[c]]
  BY <1>1
<1>5. ASSUME NEW c \in Configs, configs[c].ticket = t
      PROVE  SoundConfig(configs'[c]) /\ Begun(configs'[c], serial, Described) /\ configs'[c].ticket = 0
  <2>1. configs[c].verdicts = <<>> /\ configs[c].present
    <3>1. /\ configs[c].ticket # 0 /\ configs[c].verdicts \in Seq(Verdicts)
          /\ configs[c].state # "used" => configs[c].ticket = 0
          /\ configs[c].state = "used" => Len(configs[c].verdicts) = 0
      BY <1>2, <1>5, ConfigSplit
    <3>2. configs[c].present
      BY <1>2, ConfigSplit
    <3>3. configs[c].verdicts = <<>>
      BY <3>1, EmptySeq
    <3> QED
      BY <3>2, <3>3
  <2>2. PICK P : configs[c] \in ConfigsOf(P)
    BY <1>2 DEF SoundConfig
  <2>3. configs'[c] = Verdict(configs[c], v)
    BY <1>1, <1>5
  <2> QED
    BY <2>1, <2>2, <2>3, VerdictIs DEF Begun
<1>6. ASSUME NEW c \in Configs, configs[c].ticket # t
      PROVE  configs'[c] = configs[c] /\ (configs[c].ticket # 0 => configs[c].ticket \in DOMAIN waiting')
  BY <1>1, <1>2, <1>6 DEF Waits, Pending
<1>7. ASSUME NEW c \in Configs PROVE Waits(c)'
  <2>1. CASE configs[c].ticket = t
    BY <1>5, <2>1 DEF Waits
  <2>2. CASE configs[c].ticket # t
    BY <1>1, <1>2, <1>6, <2>2 DEF Waits, Pending
  <2> QED
    BY <2>1, <2>2
<1>8. \A c \in Configs : SoundConfig(configs'[c]) /\ Begun(configs'[c], serial, Described)
  BY <1>2, <1>5, <1>6
<1>9. \A c, d \in Configs : configs'[c].ticket # 0 /\ configs'[c].ticket = configs'[d].ticket => c = d
  BY <1>5, <1>6 DEF ConfigsInv, RequestsInv
<1> QED
  BY <1>1, <1>2, <1>3, <1>4, <1>7, <1>8, <1>9 DEF ConfigsInv, RequestsInv

\* A request is read.
LEMMA RequestRead ==
    ASSUME ConfigsInv, OutputConfigRequest
    PROVE  ConfigsInv'
<1>1. /\ UNCHANGED <<heads, said, view, serial, configs, tickets, waiting>>
      /\ asks.queued # <<>> /\ asks.queued \in Seq(Nat)
      /\ asks' = [queued |-> Tail(asks.queued), read |-> asks.read \cup ({Head(asks.queued)} \ {0})]
  BY DEF ConfigsInv, RequestsInv, OutputConfigRequest, HeadVars
<1>2. HeadsInv' /\ Described' = Described
  BY <1>1, HeadsStay DEF ConfigsInv
<1>3. /\ Tail(asks.queued) \in Seq(Nat)
      /\ ToSet(asks.queued) \subseteq {Head(asks.queued)} \cup ToSet(Tail(asks.queued))
  BY <1>1, TailSet
<1>4. /\ asks'.queued \in Seq(Nat) /\ asks' = [queued |-> asks'.queued, read |-> asks'.read]
      /\ (asks.read \cup ToSet(asks.queued)) \ {0} \subseteq asks'.read \cup ToSet(asks'.queued)
  BY <1>1, <1>3
<1>5. ASSUME NEW c \in Configs PROVE Waits(c)'
  <2>1. Waits(c)
    BY DEF ConfigsInv, RequestsInv
  <2> QED
    BY <1>1, <1>4, <2>1 DEF Waits, Pending
<1> QED
  BY <1>1, <1>2, <1>4, <1>5 DEF ConfigsInv, RequestsInv

LEMMA RestKeeps ==
    ASSUME ConfigsInv, UNCHANGED <<heads, said, view, serial, configs, tickets, waiting, asks>>
    PROVE  ConfigsInv'
<1>1. HeadsInv' /\ Described' = Described
  BY HeadsStay DEF ConfigsInv
<1> QED
  BY <1>1 DEF ConfigsInv, RequestsInv, Waits, Pending

\* Each request of a client has one answer, and its heads are as it believes.
THEOREM ConfigurationsAreJudged == ConfigsSpec => []VerdictsHonest
<1>1. ConfigsInit => ConfigsInv
  <2> SUFFICES ASSUME ConfigsInit PROVE ConfigsInv
    OBVIOUS
  <2>1. HeadsInv
    <3>1. PICK u : u = Unknown
      OBVIOUS
    <3>2. IsHead(u)
      BY <3>1, ReadIs
    <3> QED
      BY <3>1, <3>2 DEF ConfigsInit, OutputManagerInit, HeadsInv
  <2>2. \A c \in Configs : configs[c] = NoConfig
    BY DEF ConfigsInit, OutputManagerInit
  <2>3. \A c \in Configs : SoundConfig(configs[c]) /\ Begun(configs[c], serial, Described) /\ Waits(c)
    BY <2>2, NoConfigIs DEF Begun, Waits
  <2>4. \A c, d \in Configs : configs[c].ticket # 0 /\ configs[c].ticket = configs[d].ticket => c = d
    BY <2>2, NoConfigIs
  <2>5. /\ tickets \in Nat /\ asks.queued \in Seq(Nat) /\ asks = [queued |-> asks.queued, read |-> asks.read]
        /\ configs = [c \in Configs |-> configs[c]]
    BY DEF ConfigsInit, OutputManagerInit
  <2> QED
    BY <2>1, <2>3, <2>4, <2>5 DEF ConfigsInv, RequestsInv
<1>2. ConfigsInv /\ [ConfigsNext]_arrangementVars => ConfigsInv'
  <2> SUFFICES ASSUME ConfigsInv, [ConfigsNext]_arrangementVars PROVE ConfigsInv'
    OBVIOUS
  <2>1. CASE UNCHANGED configVars
    BY <2>1, RestKeeps DEF configVars
  <2>2. CASE SetDeferred
    BY <2>2, RestKeeps DEF SetDeferred, HeadVars
  <2>3. ASSUME NEW m \in Monitors, AddHead(m) \/ RemoveHead(m) PROVE ConfigsInv'
    <3>1. UNCHANGED ClientVars
      BY <2>3 DEF AddHead, RemoveHead, ClientVars
    <3> QED
      BY <2>3, <3>1, AddHeadKnown, RemoveHeadKnown, DescriptionsPass DEF ConfigsInv
  <2>4. CASE Update
    <3>1. UNCHANGED ClientVars
      BY <2>4 DEF Update, ClientVars
    <3> QED
      BY <2>4, <3>1, UpdateKnown, DescriptionsPass DEF ConfigsInv
  <2>5. ASSUME NEW m \in Monitors, Unplug(m) PROVE ConfigsInv'
    BY <2>1, <2>3, <2>5 DEF Unplug
  <2>6. UNCHANGED arrangementVars => UNCHANGED configVars
    BY DEF arrangementVars
  <2> QED
    BY <2>1, <2>2, <2>3, <2>4, <2>5, <2>6, ClientsKeep, SubmitKeeps, AnswerKeeps, RequestRead DEF ConfigsNext
<1>3. ConfigsInv => VerdictsHonest
  <2> SUFFICES ASSUME ConfigsInv PROVE VerdictsHonest
    OBVIOUS
  <2>1. ASSUME NEW c \in Configs, configs[c].state = "used"
        PROVE  /\ Len(configs[c].verdicts) = IF configs[c].ticket = 0 THEN 1 ELSE 0
               /\ configs[c].ticket # 0 =>
                    /\ configs[c].ticket \in DOMAIN waiting
                    /\ configs[c].ticket \in asks.read \cup ToSet(asks.queued)
                    /\ \A d \in Configs \ {c} : configs[d].ticket # configs[c].ticket
    <3>1. SoundConfig(configs[c]) /\ Waits(c)
      BY DEF ConfigsInv, RequestsInv
    <3>2. Len(configs[c].verdicts) = IF configs[c].ticket = 0 THEN 1 ELSE 0
      BY <2>1, <3>1, ConfigSplit
    <3>3. configs[c].ticket # 0 => \A d \in Configs \ {c} : configs[d].ticket # configs[c].ticket
      BY DEF ConfigsInv, RequestsInv
    <3> QED
      BY <3>1, <3>2, <3>3 DEF Waits, Pending
  <2>2. \A c \in Configs : configs[c].present
    BY ConfigSplit DEF ConfigsInv, RequestsInv
  <2>3. HeadsKnown
    BY DEF ConfigsInv, HeadsInv, HeadsKnown, Knows
  <2> QED
    BY <2>1, <2>2, <2>3 DEF VerdictsHonest, OneVerdict, AskedOfThePresent
<1> QED
  BY <1>1, <1>2, <1>3, PTL DEF ConfigsSpec

-----------------------------------------------------------------------------
(* The layout: its boxes, and what is greatest and least of them. *)

Boxes == [output : Monitors, x : Int, width : Widths]

LEMMA MaxIs ==
    ASSUME NEW S \in SUBSET Int, IsFiniteSet(S), S # {}
    PROVE  Max(S) \in S /\ \A y \in S : Max(S) >= y
<1>1. PICK x \in S : \A y \in S : y <= x
  BY Extremes
<1>2. \A y \in S : x >= y
  BY <1>1
<1> QED
  BY <1>2 DEF Max

LEMMA MinIs ==
    ASSUME NEW S \in SUBSET Int, IsFiniteSet(S), S # {}
    PROVE  Min(S) \in S /\ \A y \in S : Min(S) <= y
<1>1. PICK x \in S : \A y \in S : x <= y
  BY Extremes
<1> QED
  BY <1>1 DEF Min

LEMMA MaxOfTwo ==
    ASSUME NEW a \in Int, NEW b \in Int
    PROVE  Max({a, b}) \in {a, b} /\ Max({a, b}) \in Int /\ a <= Max({a, b}) /\ b <= Max({a, b})
<1>1. IsFiniteSet({a, b})
  <2>1. IsFiniteSet({a} \cup {b})
    BY FS_Singleton, FS_AddElement
  <2>2. {a} \cup {b} = {a, b}
    OBVIOUS
  <2> QED
    BY <2>1, <2>2
<1>2. {a, b} \in SUBSET Int /\ {a, b} # {}
  OBVIOUS
<1>3. Max({a, b}) \in {a, b} /\ \A y \in {a, b} : Max({a, b}) >= y
  BY <1>1, <1>2, MaxIs
<1> QED
  BY <1>3

LEMMA MinOfTwo ==
    ASSUME NEW a \in Int, NEW b \in Int
    PROVE  Min({a, b}) \in {a, b} /\ Min({a, b}) \in Int /\ Min({a, b}) <= a /\ Min({a, b}) <= b
<1>1. IsFiniteSet({a, b})
  <2>1. IsFiniteSet({a} \cup {b})
    BY FS_Singleton, FS_AddElement
  <2>2. {a} \cup {b} = {a, b}
    OBVIOUS
  <2> QED
    BY <2>1, <2>2
<1>2. {a, b} \in SUBSET Int /\ {a, b} # {}
  OBVIOUS
<1>3. Min({a, b}) \in {a, b} /\ \A y \in {a, b} : Min({a, b}) <= y
  BY <1>1, <1>2, MinIs
<1> QED
  BY <1>3

\* As many boxes as there are, what is computed of each is a finite set.
LEMMA FiniteImage ==
    ASSUME NEW s, NEW E, s \in Seq(E), NEW f, NEW I \in SUBSET (DOMAIN s)
    PROVE  IsFiniteSet({f[i] : i \in I})
<1>1. IsFiniteSet(I)
  <2>1. DOMAIN s = 1..Len(s) /\ Len(s) \in Nat
    OBVIOUS
  <2>2. IsFiniteSet(1..Len(s))
    BY <2>1, FS_Interval
  <2> QED
    BY <2>1, <2>2, FS_Subset
<1>2. PICK T : T = {f[i] : i \in I}
  OBVIOUS
<1>3. [i \in I |-> f[i]] \in Surjection(I, T)
  <2>1. [i \in I |-> f[i]] \in [I -> T]
    BY <1>2
  <2>2. \A t \in T : \E i \in I : [j \in I |-> f[j]][i] = t
    BY <1>2
  <2> QED
    BY <2>1, <2>2 DEF Surjection
<1>4. IsFiniteSet(T)
  BY <1>1, <1>3, FS_Surjection
<1> QED
  BY <1>2, <1>4

LEMMA WidthsAre == ASSUME NEW w \in Widths PROVE w \in Int /\ w >= 0
  BY LayoutAssumption

\* Where the boxes begin and end.
LEMMA EdgesAre ==
    ASSUME boxes \in Seq(Boxes)
    PROVE  /\ {b.x : b \in ToSet(boxes)} \in SUBSET Int /\ IsFiniteSet({b.x : b \in ToSet(boxes)})
           /\ {b.x + b.width : b \in ToSet(boxes)} \in SUBSET Int
           /\ IsFiniteSet({b.x + b.width : b \in ToSet(boxes)})
           /\ boxes # <<>> => ToSet(boxes) # {}
<1>1. ASSUME NEW i \in DOMAIN boxes
      PROVE  boxes[i] \in Boxes /\ boxes[i].x \in Int /\ boxes[i].x + boxes[i].width \in Int
  <2>1. boxes[i] \in Boxes
    OBVIOUS
  <2>2. boxes[i].x \in Int /\ boxes[i].width \in Widths
    BY <2>1 DEF Boxes
  <2> QED
    BY <2>1, <2>2, WidthsAre
<1>2. PICK begins : begins = [i \in DOMAIN boxes |-> boxes[i].x]
  OBVIOUS
<1>3. PICK ends : ends = [i \in DOMAIN boxes |-> boxes[i].x + boxes[i].width]
  OBVIOUS
<1>4. {b.x : b \in ToSet(boxes)} = {begins[i] : i \in DOMAIN boxes}
  BY <1>2 DEF ToSet
<1>5. {b.x + b.width : b \in ToSet(boxes)} = {ends[i] : i \in DOMAIN boxes}
  BY <1>3 DEF ToSet
<1>6. IsFiniteSet({begins[i] : i \in DOMAIN boxes}) /\ IsFiniteSet({ends[i] : i \in DOMAIN boxes})
  BY FiniteImage
<1>7. \A i \in DOMAIN boxes : begins[i] \in Int /\ ends[i] \in Int
  BY <1>1, <1>2, <1>3
<1>8. ASSUME boxes # <<>> PROVE ToSet(boxes) # {}
  <2>1. Len(boxes) # 0 /\ Len(boxes) \in Nat
    BY <1>8
  <2>2. 1 \in DOMAIN boxes
    BY <2>1
  <2> QED
    BY <2>2 DEF ToSet
<1> QED
  BY <1>4, <1>5, <1>6, <1>7, <1>8

LEMMA RightEdgeIs ==
    ASSUME boxes \in Seq(Boxes), NEW m \in Monitors
    PROVE  RightEdge(m) \in Int
<1> DEFINE all == {b.x + b.width : b \in ToSet(boxes)}
           others == {b.x + b.width : b \in {c \in ToSet(boxes) : c.output # m}}
<1>1. others \in SUBSET all
  OBVIOUS
<1>2. all \in SUBSET Int /\ IsFiniteSet(all)
  BY EdgesAre
<1>3. RightEdge(m) = Max({0} \cup others)
  BY DEF RightEdge
<1> HIDE DEF all, others
<1>4. IsFiniteSet(others)
  BY <1>1, <1>2, FS_Subset
<1>5. IsFiniteSet(others \cup {0})
  BY <1>4, FS_AddElement
<1>6. {0} \cup others = others \cup {0} /\ {0} \cup others \in SUBSET Int /\ {0} \cup others # {}
  BY <1>1, <1>2
<1>7. Max({0} \cup others) \in {0} \cup others
  BY <1>5, <1>6, MaxIs
<1> QED
  BY <1>3, <1>6, <1>7

\* The box around them has a first and a last pixel.
LEMMA BoundsAre ==
    ASSUME boxes \in Seq(Boxes)
    PROVE  /\ Bounds.x \in Int /\ Bounds.width \in Int
           /\ LastPixel(Bounds.x, Bounds.width) \in Int /\ Bounds.x <= LastPixel(Bounds.x, Bounds.width)
<1>1. Bounds.x \in Int /\ Bounds.width \in Int
  <2>1. CASE boxes = <<>>
    BY <2>1 DEF Bounds
  <2>2. CASE boxes # <<>>
    <3> DEFINE begins == {b.x : b \in ToSet(boxes)}
               ends == {b.x + b.width : b \in ToSet(boxes)}
    <3>1. Bounds = [x |-> Min(begins), width |-> Max(ends) - Min(begins)]
      BY <2>2 DEF Bounds
    <3>2. /\ begins \in SUBSET Int /\ IsFiniteSet(begins) /\ begins # {}
          /\ ends \in SUBSET Int /\ IsFiniteSet(ends) /\ ends # {}
      BY <2>2, EdgesAre
    <3> HIDE DEF begins, ends
    <3>3. Min(begins) \in Int /\ Max(ends) \in Int
      BY <3>2, MinIs, MaxIs
    <3> QED
      BY <3>1, <3>3
  <2> QED
    BY <2>1, <2>2
<1>2. PICK x, w \in Int : x = Bounds.x /\ w = Bounds.width
  BY <1>1
<1>3. x + w - 1 \in Int
  BY <1>2
<1>4. Max({x + w - 1, x}) \in Int /\ x <= Max({x + w - 1, x})
  BY <1>2, <1>3, MaxOfTwo
<1> QED
  BY <1>1, <1>2, <1>4 DEF LastPixel

-----------------------------------------------------------------------------
(* What is done to the list. *)

Unique(s) == \A i, j \in DOMAIN s : s[i].output = s[j].output => i = j
Outs(s) == {s[i].output : i \in DOMAIN s}

LEMMA PlacedIs == Placed = Outs(boxes)
  BY DEF Placed, Outs, ToSet

LEMMA WithoutIs ==
    ASSUME boxes \in Seq(Boxes), Unique(boxes), NEW m \in Monitors
    PROVE  /\ Without(m) \in Seq(Boxes) /\ Unique(Without(m))
           /\ Outs(Without(m)) \subseteq Placed \ {m}
           /\ m \notin Placed => Without(m) = boxes
<1>1. PICK keep : keep = {i \in DOMAIN boxes : boxes[i].output # m}
  OBVIOUS
<1>2. keep \in SUBSET (DOMAIN boxes) /\ Without(m) = Picked(boxes, keep)
  BY <1>1 DEF Without
<1>3. PICK left : left = Without(m)
  OBVIOUS
<1>4. /\ left \in Seq(Boxes) /\ DOMAIN left = 1..Cardinality(keep)
      /\ \A n \in DOMAIN left : InOrder(keep)[n] \in keep /\ left[n] = boxes[InOrder(keep)[n]]
      /\ \A k, n \in DOMAIN left : InOrder(keep)[k] = InOrder(keep)[n] => k = n
      /\ keep = DOMAIN boxes => left = boxes
  BY SMTT(30), <1>2, <1>3, PickedIs
<1>5. Unique(left)
  <2> SUFFICES ASSUME NEW k \in DOMAIN left, NEW n \in DOMAIN left, left[k].output = left[n].output
               PROVE  k = n
    BY DEF Unique
  <2>1. PICK i \in keep : i = InOrder(keep)[k] /\ left[k] = boxes[i]
    BY <1>4
  <2>2. PICK j \in keep : j = InOrder(keep)[n] /\ left[n] = boxes[j]
    BY <1>4
  <2>3. i = j
    BY <1>1, <2>1, <2>2 DEF Unique
  <2> QED
    BY <1>4, <2>1, <2>2, <2>3
<1>6. ASSUME NEW n \in DOMAIN left PROVE left[n].output \in Placed \ {m}
  <2>1. PICK i \in keep : left[n] = boxes[i]
    BY <1>4
  <2> QED
    BY <1>1, <2>1, PlacedIs DEF Outs
<1>7. m \notin Placed => keep = DOMAIN boxes
  BY <1>1, PlacedIs DEF Outs
<1> QED
  BY <1>3, <1>4, <1>5, <1>6, <1>7 DEF Outs

LEMMA PutIs ==
    ASSUME boxes \in Seq(Boxes), Unique(boxes), NEW m \in Monitors, NEW x \in Int, widths'[m] \in Widths, Put(m, x)
    PROVE  boxes' \in Seq(Boxes) /\ Unique(boxes') /\ Outs(boxes') \subseteq Placed \cup {m}
<1>1. PICK box : box = [output |-> m, x |-> x, width |-> widths'[m]]
  OBVIOUS
<1>2. box \in Boxes /\ box.output = m
  BY <1>1 DEF Boxes
<1>3. CASE m \in Placed
  <2>1. boxes' = [i \in DOMAIN boxes |-> IF boxes[i].output = m THEN box ELSE boxes[i]]
    BY <1>1, <1>3 DEF Put
  <2>2. DOMAIN boxes = 1..Len(boxes) /\ Len(boxes) \in Nat
    OBVIOUS
  <2>3. \A i \in DOMAIN boxes : boxes'[i] \in Boxes /\ boxes'[i].output = boxes[i].output
    BY <1>2, <2>1
  <2>4. boxes' \in Seq(Boxes) /\ DOMAIN boxes' = DOMAIN boxes
    BY <2>1, <2>2, <2>3
  <2>5. Unique(boxes')
    BY <2>3, <2>4 DEF Unique
  <2>6. Outs(boxes') \subseteq Placed
    BY <2>3, <2>4, PlacedIs DEF Outs
  <2> QED
    BY <2>4, <2>5, <2>6
<1>4. CASE m \notin Placed
  <2>1. boxes' = Append(boxes, box)
    BY <1>1, <1>4 DEF Put
  <2>2. /\ boxes' \in Seq(Boxes) /\ Len(boxes') = Len(boxes) + 1 /\ Len(boxes) \in Nat
        /\ \A i \in 1..Len(boxes) : boxes'[i] = boxes[i]
        /\ boxes'[Len(boxes) + 1] = box
    BY <1>2, <2>1, AppendProperties
  <2>3. DOMAIN boxes' = 1..(Len(boxes) + 1) /\ DOMAIN boxes = 1..Len(boxes)
    BY <2>2
  <2>4. ASSUME NEW i \in DOMAIN boxes', i # Len(boxes) + 1
        PROVE  i \in DOMAIN boxes /\ boxes'[i] = boxes[i] /\ boxes'[i].output \in Placed
    <3>1. i \in DOMAIN boxes
      BY <2>2, <2>3, <2>4
    <3> QED
      BY <2>2, <2>3, <3>1, PlacedIs DEF Outs
  <2>5. Unique(boxes')
    <3> SUFFICES ASSUME NEW i \in DOMAIN boxes', NEW j \in DOMAIN boxes', boxes'[i].output = boxes'[j].output
                 PROVE  i = j
      BY DEF Unique
    <3>1. CASE i = Len(boxes) + 1
      BY <1>2, <1>4, <2>2, <2>4, <3>1
    <3>2. CASE j = Len(boxes) + 1
      BY <1>2, <1>4, <2>2, <2>4, <3>2
    <3>3. CASE i # Len(boxes) + 1 /\ j # Len(boxes) + 1
      BY <2>4, <3>3 DEF Unique
    <3> QED
      BY <3>1, <3>2, <3>3
  <2>6. Outs(boxes') \subseteq Placed \cup {m}
    BY <1>2, <2>2, <2>4 DEF Outs
  <2> QED
    BY <2>2, <2>5, <2>6
<1> QED
  BY <1>3, <1>4

-----------------------------------------------------------------------------
(* Every step keeps the layout, and the pointer in it. *)

LayoutInv == LayoutTypeOK /\ PointerKept

LEMMA LayoutInvIs ==
    ASSUME LayoutInv
    PROVE  boxes \in Seq(Boxes) /\ Unique(boxes) /\ Outs(boxes) \subseteq plugged
  BY PlacedIs DEF LayoutInv, LayoutTypeOK, PointerKept, Unique, Boxes

\* After a change of the layout, the pointer has not moved in it yet.
LEMMA ChangeKeeps ==
    ASSUME LayoutInv, plugged' \subseteq Monitors, widths' \in [Monitors -> Widths],
           boxes' \in Seq(Boxes), Unique(boxes'), Outs(boxes') \subseteq plugged', LayoutChange
    PROVE  LayoutInv'
<1>1. LayoutTypeOK'
  BY DEF LayoutInv, LayoutTypeOK, LayoutChange, Boxes
<1>2. Placed' = Outs(boxes')
  BY DEF Placed, Outs, ToSet
<1>3. PointerKept'
  BY <1>2 DEF LayoutInv, PointerKept, LayoutChange, Unique
<1> QED
  BY <1>1, <1>3 DEF LayoutInv

LEMMA AddOutputKeeps ==
    ASSUME LayoutInv, NEW m \in Monitors, NEW x \in Int, AddOutput(m, x)
    PROVE  LayoutInv'
<1>1. widths'[m] \in Widths /\ m \in plugged /\ plugged' = plugged /\ widths' = widths /\ Put(m, x) /\ LayoutChange
  BY DEF AddOutput, LayoutInv, LayoutTypeOK
<1>2. boxes' \in Seq(Boxes) /\ Unique(boxes') /\ Outs(boxes') \subseteq Placed \cup {m}
  BY <1>1, LayoutInvIs, PutIs
<1>3. Outs(boxes') \subseteq plugged'
  BY <1>1, <1>2, LayoutInvIs, PlacedIs
<1> QED
  BY <1>1, <1>2, <1>3, ChangeKeeps DEF LayoutInv, LayoutTypeOK

LEMMA MoveToKeeps ==
    ASSUME LayoutInv, NEW x \in Int, MoveTo(x)
    PROVE  LayoutInv'
<1>1. PICK lo, hi \in Int : lo = Bounds.x /\ hi = LastPixel(Bounds.x, Bounds.width) /\ lo <= hi
  BY LayoutInvIs, BoundsAre
<1>2. PICK y : y = Max({lo, Min({x, hi})})
  OBVIOUS
<1>3. y \in Int /\ y \in lo..hi
  <2>1. PICK z \in Int : z = Min({x, hi}) /\ z <= hi
    BY <1>1, MinOfTwo
  <2>2. y \in {lo, z} /\ y \in Int /\ lo <= y
    BY <1>1, <1>2, <2>1, MaxOfTwo
  <2> QED
    BY <1>1, <2>1, <2>2
<1>4. cursor' = [cursor EXCEPT !.x = y, !.present = TRUE] /\ settled' = TRUE
  BY <1>1, <1>2 DEF MoveTo
<1>5. UNCHANGED <<plugged, widths, boxes>>
  BY DEF MoveTo
<1>6. cursor \in [x : Int, present : BOOLEAN, panicked : BOOLEAN] /\ ~cursor.panicked
  BY DEF LayoutInv, LayoutTypeOK, PointerKept
<1>7. cursor' \in [x : Int, present : BOOLEAN, panicked : BOOLEAN] /\ ~cursor'.panicked /\ cursor'.x = y
  BY <1>3, <1>4, <1>6
<1>8. LayoutTypeOK'
  BY <1>4, <1>5, <1>7 DEF LayoutInv, LayoutTypeOK
<1>9. Bounds' = Bounds /\ Placed' = Placed
  BY <1>5 DEF Bounds, Placed
<1>10. LastPixel(Bounds.x, Bounds.width)' = LastPixel(Bounds.x, Bounds.width)
  BY <1>9 DEF LastPixel
<1>11. cursor'.x \in Bounds'.x .. LastPixel(Bounds.x, Bounds.width)'
  BY <1>1, <1>3, <1>7, <1>9, <1>10
<1>12. PointerKept'
  BY <1>5, <1>7, <1>9, <1>11 DEF LayoutInv, PointerKept
<1> QED
  BY <1>8, <1>12 DEF LayoutInv

LEMMA ArrangesKeeps ==
    ASSUME LayoutInv, Arranges
    PROVE  LayoutInv'
<1>1. PICK m \in Monitors : \/ \E x \in Places : AddOutput(m, x)
                            \/ AddAuto(m) \/ RemoveOutput(m)
                            \/ \E w \in Widths : ModeChanged(m, w)
  BY DEF Arranges
<1>2. CASE \E x \in Places : AddOutput(m, x)
  BY <1>2, LayoutAssumption, AddOutputKeeps
<1>3. CASE AddAuto(m)
  BY <1>3, LayoutInvIs, RightEdgeIs, AddOutputKeeps DEF AddAuto
<1>4. CASE RemoveOutput(m)
  <2>1. boxes' = Without(m) /\ LayoutChange /\ plugged' = plugged /\ widths' = widths
    BY <1>4 DEF RemoveOutput
  <2>2. boxes' \in Seq(Boxes) /\ Unique(boxes') /\ Outs(boxes') \subseteq Placed \ {m}
    BY <2>1, LayoutInvIs, WithoutIs
  <2>3. Outs(boxes') \subseteq plugged'
    BY <2>1, <2>2, LayoutInvIs, PlacedIs
  <2> QED
    BY <2>1, <2>2, <2>3, ChangeKeeps DEF LayoutInv, LayoutTypeOK
<1>5. ASSUME NEW w \in Widths, ModeChanged(m, w) PROVE LayoutInv'
  <2>1. widths' = [widths EXCEPT ![m] = w] /\ plugged' = plugged /\ m \in plugged
    BY <1>5 DEF ModeChanged
  <2>2. widths' \in [Monitors -> Widths] /\ widths'[m] \in Widths
    BY <2>1 DEF LayoutInv, LayoutTypeOK
  <2>3. CASE m \in Placed
    <3>1. PICK x : x = BoxOf(m).x
      OBVIOUS
    <3>2. x \in Int
      <4>1. \E b \in ToSet(boxes) : b.output = m
        BY <2>3 DEF Placed
      <4>2. BoxOf(m) \in ToSet(boxes)
        BY <4>1 DEF BoxOf
      <4>3. BoxOf(m) \in Boxes
        BY <4>2, LayoutInvIs DEF ToSet
      <4> QED
        BY <3>1, <4>3 DEF Boxes
    <3>3. Put(m, x) /\ LayoutChange
      BY <1>5, <2>3, <3>1 DEF ModeChanged
    <3>4. boxes' \in Seq(Boxes) /\ Unique(boxes') /\ Outs(boxes') \subseteq Placed \cup {m}
      BY <2>2, <3>2, <3>3, LayoutInvIs, PutIs
    <3>5. Outs(boxes') \subseteq plugged'
      BY <2>1, <3>4, LayoutInvIs, PlacedIs
    <3> QED
      BY <2>1, <2>2, <3>3, <3>4, <3>5, ChangeKeeps DEF LayoutInv, LayoutTypeOK
  <2>4. CASE m \notin Placed
    <3>1. UNCHANGED <<plugged, boxes, cursor, settled>>
      BY <1>5, <2>4 DEF ModeChanged
    <3> QED
      BY <2>2, <3>1 DEF LayoutInv, LayoutTypeOK, PointerKept, Placed, Bounds, LastPixel
  <2> QED
    BY <2>3, <2>4
<1> QED
  BY <1>1, <1>2, <1>3, <1>4, <1>5

LEMMA UnpluggedKeeps ==
    ASSUME LayoutInv, NEW m \in Monitors, Unplugged(m)
    PROVE  LayoutInv'
<1>1. boxes' = Without(m) /\ plugged' = plugged \ {m} /\ widths' = widths
  BY DEF Unplugged
<1>2. boxes' \in Seq(Boxes) /\ Unique(boxes') /\ Outs(boxes') \subseteq Placed \ {m}
  BY <1>1, LayoutInvIs, WithoutIs
<1>3. Outs(boxes') \subseteq plugged'
  BY <1>1, <1>2, LayoutInvIs, PlacedIs
<1>4. CASE m \in Placed
  <2>1. LayoutChange
    BY <1>4 DEF Unplugged
  <2> QED
    BY <1>1, <1>2, <1>3, <2>1, ChangeKeeps DEF LayoutInv, LayoutTypeOK
<1>5. CASE m \notin Placed
  <2>1. UNCHANGED <<cursor, settled>> /\ boxes' = boxes
    BY <1>1, <1>5, LayoutInvIs, WithoutIs DEF Unplugged
  <2>2. Placed' = Placed /\ Placed \subseteq plugged'
    BY <1>1, <1>5, <2>1 DEF Placed, LayoutInv, PointerKept
  <2> QED
    BY <1>1, <2>1, <2>2 DEF LayoutInv, LayoutTypeOK, PointerKept, Bounds, LastPixel
<1> QED
  BY <1>4, <1>5

LEMMA PluggedInKeeps ==
    ASSUME LayoutInv, NEW m \in Monitors, PluggedIn(m)
    PROVE  LayoutInv'
  BY DEF PluggedIn, LayoutInv, LayoutTypeOK, PointerKept, Placed, Bounds, LastPixel

LEMMA LayoutStutters ==
    ASSUME LayoutInv, UNCHANGED layoutVars
    PROVE  LayoutInv'
  BY DEF layoutVars, LayoutInv, LayoutTypeOK, PointerKept, Placed, Bounds, LastPixel

LEMMA LayoutKeeps ==
    ASSUME LayoutInv, LayoutNext
    PROVE  LayoutInv'
<1>1. CASE Arranges
  BY <1>1, ArrangesKeeps
<1>2. CASE \E m \in Monitors : Unplugged(m) \/ PluggedIn(m)
  BY <1>2, UnpluggedKeeps, PluggedInKeeps
<1>3. CASE \E x \in Places : MoveTo(x) \/ MoveBy(x) \/ MoveBy(-x)
  <2>1. ASSUME NEW d \in Int, MoveBy(d) PROVE LayoutInv'
    <3>1. PICK x : x = (IF cursor.present THEN cursor.x ELSE Bounds.x + Bounds.width \div 2) + d
      OBVIOUS
    <3>2. cursor.x \in Int /\ Bounds.x \in Int /\ Bounds.width \in Int
      BY LayoutInvIs, BoundsAre DEF LayoutInv, LayoutTypeOK
    <3>3. x \in Int /\ MoveTo(x)
      BY <2>1, <3>1, <3>2 DEF MoveBy
    <3> QED
      BY <3>3, MoveToKeeps
  <2>2. \A x \in Places : x \in Int /\ -x \in Int
    BY LayoutAssumption
  <2> QED
    BY <1>3, <2>1, <2>2, MoveToKeeps
<1>4. CASE LeavePointer
  <2>1. /\ cursor' = [cursor EXCEPT !.present = FALSE] /\ UNCHANGED <<plugged, widths, boxes, settled>>
    BY <1>4 DEF LeavePointer
  <2>2. /\ cursor' \in [x : Int, present : BOOLEAN, panicked : BOOLEAN]
        /\ ~cursor'.panicked /\ ~cursor'.present
    BY <2>1 DEF LayoutInv, LayoutTypeOK, PointerKept
  <2> QED
    BY <2>1, <2>2 DEF LayoutInv, LayoutTypeOK, PointerKept, Placed
<1> QED
  BY <1>1, <1>2, <1>3, <1>4 DEF LayoutNext

LEMMA LayoutStarts == ASSUME LayoutInit PROVE LayoutInv
<1>1. boxes = <<>> /\ cursor = Pointer /\ settled = FALSE
  BY DEF LayoutInit
<1>2. boxes \in Seq(Boxes) /\ DOMAIN boxes = {} /\ Placed = {}
  BY <1>1 DEF Placed, ToSet
<1>3. LayoutTypeOK
  <2>1. cursor \in [x : Int, present : BOOLEAN, panicked : BOOLEAN] /\ settled \in BOOLEAN
    <3>1. Pointer \in [x : Int, present : BOOLEAN, panicked : BOOLEAN]
      <4> 0 \in Int /\ FALSE \in BOOLEAN
        OBVIOUS
      <4> QED
        BY DEF Pointer
    <3> QED
      BY <1>1, <3>1
  <2>2. plugged \subseteq Monitors /\ widths \in [Monitors -> Widths]
    BY DEF LayoutInit
  <2> QED
    BY <1>2, <2>1, <2>2 DEF LayoutTypeOK, Boxes
<1> QED
  BY <1>1, <1>2, <1>3 DEF LayoutInv, PointerKept, Pointer

\* However outputs come, go, move and switch their modes, the pointer that is
\* moved is in the box around them (OutputLayout, Pointer, desktop.rs).
THEOREM PointerIsKept == LayoutSpec => []PointerKept
<1>1. LayoutInit => LayoutInv
  BY LayoutStarts
<1>2. LayoutInv /\ [LayoutNext]_layoutVars => LayoutInv'
  BY LayoutKeeps, LayoutStutters
<1>3. LayoutInv => PointerKept
  BY DEF LayoutInv
<1> QED
  BY <1>1, <1>2, <1>3, PTL DEF LayoutSpec

LEMMA LayoutUnderConfigs ==
    ASSUME LayoutInv, [ConfigsNext]_arrangementVars
    PROVE  LayoutInv'
<1>1. CASE UNCHANGED layoutVars
  BY <1>1, LayoutStutters
<1>2. CASE Arranges \/ \E m \in Monitors : PluggedIn(m) \/ Unplugged(m)
  BY <1>2, LayoutKeeps DEF LayoutNext
<1>3. ASSUME NEW m \in Monitors, Unplug(m) PROVE LayoutInv'
  BY <1>2, <1>3 DEF Unplug
<1>4. ASSUME NEW c \in Configs,
             \/ CreateConfiguration(c) \/ NameFinished(c) \/ Cancel(c) \/ Forgotten(c) \/ DestroyConfig(c)
             \/ \E m \in Monitors : NameHead(c, m)
             \/ \E v \in Verdicts \ {"cancelled"} : Submit(c, v)
      PROVE  LayoutInv'
  BY <1>1, <1>4
     DEF CreateConfiguration, NameFinished, Cancel, Forgotten, DestroyConfig, NameHead, Submit, HeadVars
<1>5. ASSUME NEW t \in 1..MaxTickets, NEW v \in Verdicts \ {"cancelled"}, Answer(t, v)
      PROVE  LayoutInv'
  BY <1>1, <1>5 DEF Answer, HeadVars
<1>6. CASE Update \/ SetDeferred \/ OutputConfigRequest \/ \E m \in Monitors : AddHead(m)
  BY <1>1, <1>6 DEF Update, SetDeferred, OutputConfigRequest, AddHead, HeadVars
<1>7. UNCHANGED arrangementVars => UNCHANGED layoutVars
  BY DEF arrangementVars
<1> QED
  BY <1>1, <1>2, <1>3, <1>4, <1>5, <1>6, <1>7 DEF ConfigsNext

\* Whoever arranges the outputs, the compositor or its clients, and whichever of
\* them come and go meanwhile: the pointer stays among them, and each request has
\* one verdict, given of the outputs as they were described (OutputManager).
THEOREM ArrangementIsSound ==
    (ConfigsSpec => []ArrangementSound) /\ (LayoutSpec => []PointerKept)
<1>1. ConfigsInit => LayoutInv
  BY LayoutStarts DEF ConfigsInit
<1>2. LayoutInv /\ [ConfigsNext]_arrangementVars => LayoutInv'
  BY LayoutUnderConfigs
<1>3. LayoutInv => PointerKept
  BY DEF LayoutInv
<1>4. ConfigsSpec => []PointerKept
  BY <1>1, <1>2, <1>3, PTL DEF ConfigsSpec
<1> QED
  BY <1>4, PointerIsKept, ConfigurationsAreJudged, PTL DEF ArrangementSound

-----------------------------------------------------------------------------
(* What clients are told of the screens. *)

Spot == [x : Int, width : Nat]
Global == [is : {"none", "following", "kept"}, x : Int, width : Nat, set : SUBSET {"x", "width"}]
Held == [output : BOOLEAN, mode : Nat, xdg : Monitors \cup {NoScreen}, sent : Spot, has : Spot]

GlobalsTyped ==
    /\ globals \in [Monitors -> Global]
    /\ seen \in [Viewers -> [Monitors -> Held]]

\* What a client holds of m, against the global g: it was told all of it.
ToldOf(s, m, g) ==
    /\ s.output => s.mode = g.width /\ g.is # "none"
    /\ s.xdg \in {m, NoScreen}
    /\ ~s.output => s.xdg = NoScreen
    /\ s.xdg # NoScreen => s.sent = Where(g) /\ s.has = Where(g)

AllTold == \A v \in Viewers, m \in Monitors : ToldOf(seen[v][m], m, globals[m])

\* Where a list of boxes has m.
At(s, m) == (CHOOSE b \in ToSet(s) : b.output = m).x

GlobalKept(g, w, s, m) ==
    g.is = "following" =>
        /\ "width" \notin g.set => g.width = w
        /\ "x" \notin g.set /\ m \in Outs(s) => g.x = At(s, m)

AllKept == \A m \in Monitors : GlobalKept(globals[m], widths[m], boxes, m)

ScreensInv == LayoutInv /\ GlobalsTyped /\ AllTold /\ AllKept

LEMMA AtIs ==
    ASSUME NEW s \in Seq(Boxes), NEW m \in Outs(s)
    PROVE  At(s, m) \in Int
<1>1. PICK i \in DOMAIN s : s[i].output = m
  BY DEF Outs
<1>2. PICK b : b = CHOOSE c \in ToSet(s) : c.output = m
  OBVIOUS
<1>3. b \in ToSet(s)
  BY <1>1, <1>2 DEF ToSet
<1>4. b \in Boxes
  BY <1>3 DEF ToSet
<1> QED
  BY <1>2, <1>4 DEF At, Boxes

LEMMA InvSaysTold ==
    ASSUME ScreensInv
    PROVE  ScreensTold
<1>1. ASSUME NEW v \in Viewers, NEW m \in Monitors, seen[v][m].output
      PROVE  /\ seen[v][m].mode = globals[m].width
             /\ seen[v][m].xdg # NoScreen => seen[v][m].has = Where(globals[m])
  BY <1>1 DEF ScreensInv, AllTold, ToldOf
<1>2. ASSUME NEW m \in Following
      PROVE  /\ "width" \notin globals[m].set => globals[m].width = widths[m]
             /\ "x" \notin globals[m].set /\ m \in Placed => globals[m].x = BoxOf(m).x
  <2>1. m \in Monitors /\ globals[m].is = "following"
    BY <1>2 DEF Following
  <2>2. GlobalKept(globals[m], widths[m], boxes, m)
    BY <2>1 DEF ScreensInv, AllKept
  <2>3. At(boxes, m) = BoxOf(m).x
    BY DEF At, BoxOf
  <2> QED
    BY <2>1, <2>2, <2>3, PlacedIs DEF GlobalKept
<1> QED
  BY <1>1, <1>2 DEF ScreensTold, ToldAsKept, XdgOfItsOutput, KeptAsPlaced

-----------------------------------------------------------------------------
(* What is sent. *)

\* Who broadcasts for every global that changed has told everyone.
LEMMA BroadcastTells ==
    ASSUME OldXdg = {}, GlobalsTyped, AllTold, NEW to \in SUBSET Monitors, Broadcast(to),
           globals' \in [Monitors -> Global],
           \A m \in Monitors : globals'[m].is = "none" => globals[m].is = "none",
           \A m \in Monitors \ to : Where(globals'[m]) = Where(globals[m])
    PROVE  GlobalsTyped' /\ AllTold'
<1>1. ASSUME NEW v \in Viewers, NEW m \in Monitors
      PROVE  seen'[v][m] \in Held /\ ToldOf(seen'[v][m], m, globals'[m])
  <2>1. PICK s : s = seen[v][m]
    OBVIOUS
  <2>2. PICK g : g = globals'[m]
    OBVIOUS
  <2>3. PICK old : old = globals[m]
    OBVIOUS
  <2>4. s \in Held /\ g \in Global /\ old \in Global
    BY <2>1, <2>2, <2>3 DEF GlobalsTyped
  <2>5. ToldOf(s, m, old) /\ (m \notin to => Where(g) = Where(old)) /\ (g.is = "none" => old.is = "none")
    BY <2>1, <2>2, <2>3 DEF AllTold
  <2>6. Where(g) \in Spot /\ Where(g).width = g.width /\ Where(old).width = old.width
    BY <2>4 DEF Where, Spot, Global
  <2>7. PICK resent : resent = IF s.xdg \in to THEN [s EXCEPT !.sent = Where(globals'[s.xdg])] ELSE s
    OBVIOUS
  <2>8. seen'[v][m] = IF m \in to /\ s.output THEN DoneSent(v, resent, g) ELSE resent
    BY <2>1, <2>2, <2>7 DEF Broadcast
  <2>9. NoScreen \notin to /\ NoScreen # m
    BY ViewerAssumption
  <2>10. s.xdg \in {m, NoScreen} /\ (~s.output => s.xdg = NoScreen)
    BY <2>5 DEF ToldOf
  <2>11. CASE m \notin to
    <3>1. resent = s /\ seen'[v][m] = s
      BY <2>7, <2>8, <2>9, <2>10, <2>11
    <3>2. g.width = old.width
      BY <2>5, <2>6, <2>11
    <3> QED
      BY <2>2, <2>4, <2>5, <2>11, <3>1, <3>2 DEF ToldOf
  <2>12. CASE m \in to /\ ~s.output
    <3>1. seen'[v][m] = s
      BY <2>7, <2>8, <2>9, <2>10, <2>12
    <3> QED
      BY <2>2, <2>4, <2>10, <2>12, <3>1 DEF ToldOf
  <2>13. CASE m \in to /\ s.output
    <3>1. DoneSent(v, resent, g) = [resent EXCEPT !.mode = g.width, !.has = resent.sent]
      BY DEF DoneSent
    <3>2. g.width \in Nat
      BY <2>4 DEF Global
    <3>3. CASE s.xdg = m
      <4>1. resent = [s EXCEPT !.sent = Where(g)]
        BY <2>2, <2>7, <2>13, <3>3
      <4>2. resent \in Held /\ resent.sent = Where(g) /\ resent.output = s.output /\ resent.xdg = m
        BY <2>4, <2>6, <3>3, <4>1 DEF Held
      <4>3. PICK d : d = seen'[v][m]
        OBVIOUS
      <4>4. d = [resent EXCEPT !.mode = g.width, !.has = Where(g)]
        BY <2>8, <2>13, <3>1, <4>2, <4>3
      <4>5. /\ d \in Held /\ d.mode = g.width /\ d.has = Where(g) /\ d.sent = Where(g)
            /\ d.output = s.output /\ d.xdg = m
        BY <2>6, <3>2, <4>2, <4>4 DEF Held
      <4> QED
        BY <2>2, <2>5, <2>13, <4>3, <4>5 DEF ToldOf
    <3>4. CASE s.xdg = NoScreen
      <4>1. resent = s
        BY <2>7, <2>9, <3>4
      <4>2. PICK d : d = seen'[v][m]
        OBVIOUS
      <4>3. d = [s EXCEPT !.mode = g.width, !.has = s.sent]
        BY <2>8, <2>13, <3>1, <4>1, <4>2
      <4>4. d \in Held /\ d.mode = g.width /\ d.output = s.output /\ d.xdg = NoScreen
        BY <2>4, <3>2, <3>4, <4>3 DEF Held
      <4> QED
        BY <2>2, <2>5, <2>13, <4>2, <4>4 DEF ToldOf
    <3> QED
      BY <2>10, <3>3, <3>4
  <2> QED
    BY <2>11, <2>12, <2>13
<1>2. seen' = [v \in Viewers |-> [m \in Monitors |-> seen'[v][m]]]
  BY DEF Broadcast
<1>3. seen' \in [Viewers -> [Monitors -> Held]]
  <2>1. PICK after : after = seen'
    OBVIOUS
  <2>2. after = [v \in Viewers |-> [m \in Monitors |-> after[v][m]]]
    BY <1>2, <2>1
  <2>3. \A v \in Viewers, m \in Monitors : after[v][m] \in Held
    BY <1>1, <2>1
  <2> QED
    BY <2>1, <2>2, <2>3
<1> QED
  BY <1>1, <1>3 DEF GlobalsTyped, AllTold

-----------------------------------------------------------------------------
(* Following. *)

\* What becomes of a global when its output or the layout changes.
LEMMA HeardIs ==
    ASSUME ScreensInv, LayoutInv', NEW laidOut \in BOOLEAN, NEW m \in Monitors,
           laidOut \/ boxes' = boxes
    PROVE  /\ Heard(laidOut)[m] \in Global /\ Heard(laidOut)[m].is = globals[m].is
           /\ m \notin Switched \cup (IF laidOut THEN Moved ELSE {}) =>
                 Where(Heard(laidOut)[m]) = Where(globals[m])
           /\ GlobalKept(Heard(laidOut)[m], widths'[m], boxes', m)
<1>1. PICK g : g = globals[m]
  OBVIOUS
<1>2. PICK h : h = Heard(laidOut)[m]
  OBVIOUS
<1>3. g \in Global /\ GlobalKept(g, widths[m], boxes, m)
  BY <1>1 DEF ScreensInv, GlobalsTyped, AllKept
<1>4. PICK now : now = boxes'
  OBVIOUS
<1>5. now \in Seq(Boxes) /\ widths'[m] \in Nat
  <2>1. boxes' \in Seq(Boxes) /\ widths' \in [Monitors -> Widths]
    BY DEF LayoutInv, LayoutTypeOK, Boxes
  <2> QED
    BY <1>4, <2>1, LayoutAssumption
<1>6. (m \in Placed' <=> m \in Outs(now)) /\ BoxOf(m)'.x = At(now, m)
  BY <1>4 DEF Placed, Outs, ToSet, BoxOf, At
<1>7. m \in Outs(now) => At(now, m) \in Int
  BY <1>5, AtIs
<1>8. (m \in Following <=> g.is = "following") /\ (m \in Switched <=> g.is = "following" /\ widths'[m] # widths[m])
  BY <1>1 DEF Following, Switched
<1>9. m \in Moved <=> g.is = "following" /\ m \in Outs(now) /\ At(now, m) # g.x
  BY <1>1, <1>6, <1>8 DEF Moved
<1>10. h = IF m \in Switched THEN Follow(m, g)
           ELSE IF laidOut /\ m \in Following /\ m \in Outs(now)
           THEN [g EXCEPT !.x = At(now, m), !.set = @ \ {"x"}]
           ELSE g
  BY <1>1, <1>2, <1>6 DEF Heard
<1>11. CASE m \in Switched
  <2>1. PICK x \in Int : x = IF m \in Outs(now) THEN At(now, m) ELSE g.x
    BY <1>3, <1>7 DEF Global
  <2>2. h = [g EXCEPT !.width = widths'[m], !.set = {}, !.x = x]
    BY <1>6, <1>10, <1>11, <2>1 DEF Follow
  <2>3. h \in Global /\ h.is = g.is /\ h.width = widths'[m] /\ h.x = x
    BY <1>3, <1>5, <2>1, <2>2 DEF Global
  <2> QED
    BY <1>1, <1>2, <1>4, <1>11, <2>1, <2>3 DEF GlobalKept
<1>12. CASE m \notin Switched /\ laidOut /\ m \in Following /\ m \in Outs(now)
  <2>1. h = [g EXCEPT !.x = At(now, m), !.set = g.set \ {"x"}]
    BY <1>10, <1>12
  <2>2. h \in Global /\ h.is = g.is /\ h.width = g.width /\ h.x = At(now, m) /\ h.set = g.set \ {"x"}
    BY <1>3, <1>7, <1>12, <2>1 DEF Global
  <2>3. widths'[m] = widths[m]
    BY <1>8, <1>12
  <2>4. GlobalKept(h, widths'[m], now, m)
    BY <1>3, <2>2, <2>3 DEF GlobalKept
  <2>5. m \notin Moved => Where(h) = Where(g)
    BY <1>8, <1>9, <1>12, <2>2 DEF Where
  <2> QED
    BY <1>1, <1>2, <1>4, <1>12, <2>2, <2>4, <2>5
<1>13. CASE m \notin Switched /\ ~(laidOut /\ m \in Following /\ m \in Outs(now))
  <2>1. h = g
    BY <1>10, <1>13
  <2>2. GlobalKept(g, widths'[m], now, m)
    <3> SUFFICES ASSUME g.is = "following"
                 PROVE  /\ "width" \notin g.set => g.width = widths'[m]
                        /\ "x" \notin g.set /\ m \in Outs(now) => g.x = At(now, m)
      BY DEF GlobalKept
    <3>1. widths'[m] = widths[m]
      BY <1>8, <1>13
    <3>2. m \in Outs(now) => ~laidOut /\ now = boxes
      BY <1>4, <1>8, <1>13
    <3> QED
      BY <1>3, <3>1, <3>2 DEF GlobalKept
  <2> QED
    BY <1>1, <1>2, <1>3, <1>4, <2>1, <2>2
<1> QED
  BY <1>11, <1>12, <1>13

\* A change that is heard of and passed on keeps it all; whether the global goes
\* on following is another matter.
LEMMA PassKeeps ==
    ASSUME OldXdg = {}, ScreensInv, LayoutInv', NEW laidOut \in BOOLEAN, laidOut \/ boxes' = boxes,
           globals' \in [Monitors -> Global],
           \A m \in Monitors : Where(globals'[m]) = Where(Heard(laidOut)[m]),
           \A m \in Monitors : globals'[m] = Heard(laidOut)[m] \/ globals'[m].is = "kept",
           Pass(laidOut)
    PROVE  ScreensInv'
<1>1. PICK to : to = Switched \cup IF laidOut THEN Moved ELSE {}
  OBVIOUS
<1>2. to \in SUBSET Monitors /\ Broadcast(to)
  BY <1>1 DEF Pass, Switched, Moved, Following
<1>3. \A m \in Monitors \ to : Where(globals'[m]) = Where(globals[m])
  BY <1>1, HeardIs
<1>4. GlobalsTyped' /\ AllTold'
  <2>1. \A m \in Monitors : globals'[m].is = "none" => globals[m].is = "none"
    BY HeardIs
  <2> QED
    BY <1>2, <1>3, <2>1, BroadcastTells DEF ScreensInv
<1>5. ASSUME NEW m \in Monitors PROVE GlobalKept(globals'[m], widths'[m], boxes', m)
  <2>1. CASE globals'[m] = Heard(laidOut)[m]
    BY <2>1, HeardIs
  <2>2. CASE globals'[m].is = "kept"
    BY <2>2 DEF GlobalKept
  <2> QED
    BY <2>1, <2>2
<1>6. AllKept'
  BY <1>5 DEF AllKept
<1> QED
  BY <1>4, <1>6 DEF ScreensInv

LEMMA HeardKeeps ==
    ASSUME OldXdg = {}, ScreensInv, LayoutInv', NEW laidOut \in BOOLEAN, laidOut \/ boxes' = boxes,
           globals' = Heard(laidOut), Pass(laidOut)
    PROVE  ScreensInv'
<1>1. \A m \in Monitors : Heard(laidOut)[m] \in Global
  BY HeardIs
<1>2. Heard(laidOut) = [m \in Monitors |-> Heard(laidOut)[m]]
  BY DEF Heard
<1>3. globals' \in [Monitors -> Global]
  <2>1. PICK h : h = Heard(laidOut)
    OBVIOUS
  <2>2. h \in [Monitors -> Global]
    BY <1>1, <1>2, <2>1
  <2> QED
    BY <2>1, <2>2
<1> QED
  BY <1>3, PassKeeps

LEMMA RearrangedKeeps ==
    ASSUME OldXdg = {}, ScreensInv, NEW m \in Monitors, Rearranged(m)
    PROVE  ScreensInv'
<1>1. Arranges
  BY DEF Rearranged, Arranges
<1>2. LayoutInv'
  BY <1>1, ArrangesKeeps DEF ScreensInv
<1> QED
  BY <1>2, HeardKeeps DEF Rearranged

LEMMA ModeSwitchedKeeps ==
    ASSUME OldXdg = {}, ScreensInv, NEW m \in Monitors, NEW w \in Widths, ModeSwitched(m, w)
    PROVE  ScreensInv'
<1>1. Arranges /\ ModeChanged(m, w)
  BY DEF ModeSwitched, Arranges
<1>2. LayoutInv'
  BY <1>1, ArrangesKeeps DEF ScreensInv
<1>3. PICK laidOut \in BOOLEAN : laidOut <=> m \in Placed
  OBVIOUS
<1>4. laidOut = (m \in Placed)
  BY <1>3
<1>5. laidOut \/ boxes' = boxes
  BY <1>1, <1>3 DEF ModeChanged
<1>6. globals' = Heard(laidOut) /\ Pass(laidOut)
  BY <1>4 DEF ModeSwitched
<1> QED
  BY <1>2, <1>5, <1>6, HeardKeeps

LEMMA OutputGoneKeeps ==
    ASSUME OldXdg = {}, ScreensInv, NEW m \in Monitors, OutputGone(m)
    PROVE  ScreensInv'
<1>1. Unplugged(m)
  BY DEF OutputGone
<1>2. LayoutInv'
  BY <1>1, UnpluggedKeeps DEF ScreensInv
<1>3. PICK laidOut \in BOOLEAN : laidOut <=> m \in Placed
  OBVIOUS
<1>4. laidOut = (m \in Placed)
  BY <1>3
<1>5. laidOut \/ boxes' = boxes
  BY <1>1, <1>3, LayoutInvIs, WithoutIs DEF Unplugged, ScreensInv
<1>6. PICK h : h = Heard(laidOut)
  OBVIOUS
<1>7. h = [n \in Monitors |-> h[n]] /\ \A n \in Monitors : h[n] \in Global /\ h[n].is = globals[n].is
  <2>1. Heard(laidOut) = [n \in Monitors |-> Heard(laidOut)[n]]
    BY DEF Heard
  <2>2. \A n \in Monitors : Heard(laidOut)[n] \in Global /\ Heard(laidOut)[n].is = globals[n].is
    BY <1>2, <1>5, HeardIs
  <2> QED
    BY <1>6, <2>1, <2>2
<1>8. PICK is : is = IF m \in Following THEN "kept" ELSE h[m].is
  OBVIOUS
<1>9. globals' = [h EXCEPT ![m].is = is] /\ Pass(laidOut)
  BY <1>4, <1>6, <1>8 DEF OutputGone
<1>10. h \in [Monitors -> Global]
  BY <1>7
<1>11. is \in {"none", "following", "kept"} /\ (is = h[m].is \/ is = "kept")
  BY <1>7, <1>8 DEF Global
<1>12. PICK r : r = [h[m] EXCEPT !.is = is]
  OBVIOUS
<1>13. r \in Global /\ Where(r) = Where(h[m]) /\ r.is = is /\ (is = h[m].is => r = h[m])
  BY <1>7, <1>11, <1>12 DEF Global, Where
<1>14. globals' = [h EXCEPT ![m] = r]
  BY <1>9, <1>12
<1>15. globals' \in [Monitors -> Global]
  BY <1>10, <1>13, <1>14
<1>16. ASSUME NEW n \in Monitors
       PROVE  Where(globals'[n]) = Where(h[n]) /\ (globals'[n] = h[n] \/ globals'[n].is = "kept")
  <2>1. CASE n = m
    <3>1. globals'[n] = r
      BY <1>10, <1>14, <2>1
    <3> QED
      BY <1>11, <1>13, <2>1, <3>1
  <2>2. CASE n # m
    BY <1>10, <1>14, <2>2
  <2> QED
    BY <2>1, <2>2
<1> QED
  BY <1>2, <1>5, <1>6, <1>9, <1>15, <1>16, PassKeeps

-----------------------------------------------------------------------------
(* The compositor and the clients. *)

\* While the layout stands still, who follows no more has nothing to keep.
LEMMA LayoutStands ==
    ASSUME ScreensInv, UNCHANGED layoutVars
    PROVE  LayoutInv' /\ widths' = widths /\ boxes' = boxes
  BY LayoutStutters DEF ScreensInv, layoutVars

\* The compositor sets a global, and everyone hears of it.
LEMMA SetKeeps ==
    ASSUME OldXdg = {}, ScreensInv, UNCHANGED layoutVars, NEW m \in Monitors, NEW g \in Global, g.is # "none",
           globals' = [globals EXCEPT ![m] = g], GlobalKept(g, widths[m], boxes, m), Broadcast({m})
    PROVE  ScreensInv'
<1>1. LayoutInv' /\ widths' = widths /\ boxes' = boxes
  BY LayoutStands
<1>2. globals' \in [Monitors -> Global] /\ globals'[m] = g /\ \A n \in Monitors \ {m} : globals'[n] = globals[n]
  BY DEF ScreensInv, GlobalsTyped
<1>3. \A n \in Monitors \ {m} : Where(globals'[n]) = Where(globals[n])
  BY <1>2
<1>4. {m} \in SUBSET Monitors /\ \A n \in Monitors : globals'[n].is = "none" => globals[n].is = "none"
  BY <1>2
<1>5. GlobalsTyped' /\ AllTold'
  BY <1>2, <1>3, <1>4, BroadcastTells DEF ScreensInv
<1>6. \A n \in Monitors : GlobalKept(globals'[n], widths[n], boxes, n)
  BY <1>2 DEF ScreensInv, AllKept
<1>7. AllKept'
  BY <1>1, <1>6 DEF AllKept
<1> QED
  BY <1>1, <1>5, <1>7 DEF ScreensInv

LEMMA SetLogicalPositionKeeps ==
    ASSUME OldXdg = {}, ScreensInv, NEW m \in Monitors, NEW x \in Places, SetLogicalPosition(m, x)
    PROVE  ScreensInv'
<1>1. PICK old \in Global : old = globals[m]
  BY DEF ScreensInv, GlobalsTyped
<1>2. PICK g : g = [old EXCEPT !.x = x, !.set = old.set \cup {"x"}]
  OBVIOUS
<1>3. x \in Int
  BY LayoutAssumption
<1>4. g \in Global /\ g.is = old.is /\ g.width = old.width /\ g.set = old.set \cup {"x"}
  BY <1>2, <1>3 DEF Global
<1>5. globals' = [globals EXCEPT ![m] = g]
  BY <1>1, <1>2 DEF SetLogicalPosition, ScreensInv, GlobalsTyped
<1>6. GlobalKept(old, widths[m], boxes, m)
  BY <1>1 DEF ScreensInv, AllKept
<1>7. GlobalKept(g, widths[m], boxes, m)
  BY <1>4, <1>6 DEF GlobalKept
<1>8. g.is # "none"
  BY <1>1, <1>4 DEF SetLogicalPosition
<1> QED
  BY <1>4, <1>5, <1>7, <1>8, SetKeeps DEF SetLogicalPosition

LEMMA SetModeKeeps ==
    ASSUME OldXdg = {}, ScreensInv, NEW m \in Monitors, NEW w \in Widths, SetMode(m, w)
    PROVE  ScreensInv'
<1>1. PICK old \in Global : old = globals[m]
  BY DEF ScreensInv, GlobalsTyped
<1>2. PICK g : g = [old EXCEPT !.width = w, !.set = old.set \cup {"width"}]
  OBVIOUS
<1>3. w \in Nat
  BY LayoutAssumption
<1>4. g \in Global /\ g.is = old.is /\ g.x = old.x /\ g.set = old.set \cup {"width"}
  BY <1>2, <1>3 DEF Global
<1>5. globals' = [globals EXCEPT ![m] = g]
  BY <1>1, <1>2 DEF SetMode, ScreensInv, GlobalsTyped
<1>6. GlobalKept(old, widths[m], boxes, m)
  BY <1>1 DEF ScreensInv, AllKept
<1>7. GlobalKept(g, widths[m], boxes, m)
  BY <1>4, <1>6 DEF GlobalKept
<1>8. g.is # "none"
  BY <1>1, <1>4 DEF SetMode
<1> QED
  BY <1>4, <1>5, <1>7, <1>8, SetKeeps DEF SetMode

\* A global that begins: nobody holds the output yet.
LEMMA BeginKeeps ==
    ASSUME ScreensInv, UNCHANGED <<layoutVars, seen>>, NEW m \in Monitors, NEW g \in Global,
           globals[m].is = "none", globals' = [globals EXCEPT ![m] = g], GlobalKept(g, widths[m], boxes, m)
    PROVE  ScreensInv'
<1>1. LayoutInv' /\ widths' = widths /\ boxes' = boxes /\ seen' = seen
  BY LayoutStands
<1>2. globals' \in [Monitors -> Global] /\ globals'[m] = g /\ \A n \in Monitors \ {m} : globals'[n] = globals[n]
  BY DEF ScreensInv, GlobalsTyped
<1>3. GlobalsTyped'
  BY <1>1, <1>2 DEF ScreensInv, GlobalsTyped
<1>4. ASSUME NEW v \in Viewers, NEW n \in Monitors PROVE ToldOf(seen[v][n], n, globals'[n])
  <2>1. ToldOf(seen[v][n], n, globals[n])
    BY DEF ScreensInv, AllTold
  <2>2. CASE n = m
    BY <2>1, <2>2 DEF ToldOf
  <2>3. CASE n # m
    BY <1>2, <2>1, <2>3
  <2> QED
    BY <2>2, <2>3
<1>5. \A n \in Monitors : GlobalKept(globals'[n], widths[n], boxes, n)
  BY <1>2 DEF ScreensInv, AllKept
<1>6. AllTold' /\ AllKept'
  BY <1>1, <1>4, <1>5 DEF AllTold, AllKept
<1> QED
  BY <1>1, <1>3, <1>6 DEF ScreensInv

LEMMA ForOutputKeeps ==
    ASSUME ScreensInv, NEW m \in Monitors, ForOutput(m)
    PROVE  ScreensInv'
<1>1. UNCHANGED <<layoutVars, seen>> /\ globals[m].is = "none"
  BY DEF ForOutput
<1>2. widths' = widths /\ boxes' = boxes
  BY <1>1, LayoutStands
<1>3. Placed' = Placed /\ BoxOf(m)'.x = BoxOf(m).x
  BY <1>2 DEF Placed, BoxOf
<1>4. PICK first : first = [NoGlobal EXCEPT !.is = "following"]
  OBVIOUS
<1>5. first \in Global /\ first.is = "following"
  <2>1. NoGlobal \in Global
    BY DEF NoGlobal, Global
  <2> QED
    BY <1>4, <2>1 DEF Global
<1>6. PICK x : x = IF m \in Outs(boxes) THEN At(boxes, m) ELSE first.x
  OBVIOUS
<1>7. x \in Int
  BY <1>5, <1>6, AtIs, LayoutInvIs DEF ScreensInv, Global
<1>8. PICK g : g = Follow(m, first)
  OBVIOUS
<1>9. g = [first EXCEPT !.width = widths[m], !.set = {}, !.x = x]
  BY <1>2, <1>3, <1>6, <1>8, PlacedIs DEF Follow, At, BoxOf
<1>10. widths[m] \in Nat
  BY LayoutAssumption DEF ScreensInv, LayoutInv, LayoutTypeOK
<1>11. g \in Global /\ g.width = widths[m] /\ g.x = x
  BY <1>5, <1>7, <1>9, <1>10 DEF Global
<1>12. GlobalKept(g, widths[m], boxes, m)
  BY <1>6, <1>11 DEF GlobalKept
<1>13. globals' = [globals EXCEPT ![m] = g]
  BY <1>4, <1>8 DEF ForOutput
<1> QED
  BY <1>1, <1>11, <1>12, <1>13, BeginKeeps

LEMMA NewGlobalKeeps ==
    ASSUME ScreensInv, NEW m \in Monitors, NEW w \in Widths, NewGlobal(m, w)
    PROVE  ScreensInv'
<1>1. PICK g : g = [NoGlobal EXCEPT !.is = "kept", !.width = w]
  OBVIOUS
<1>2. g \in Global /\ g.is = "kept"
  <2>1. NoGlobal \in Global
    BY DEF NoGlobal, Global
  <2>2. w \in Nat
    BY LayoutAssumption
  <2> QED
    BY <1>1, <2>1, <2>2 DEF Global
<1>3. GlobalKept(g, widths[m], boxes, m)
  BY <1>2 DEF GlobalKept
<1>4. globals[m].is = "none" /\ globals' = [globals EXCEPT ![m] = g] /\ UNCHANGED <<layoutVars, seen>>
  BY <1>1 DEF NewGlobal
<1> QED
  BY <1>2, <1>3, <1>4, BeginKeeps

LEMMA UnboundIs ==
    /\ Unbound \in Held
    /\ \A m \in Monitors, g \in Global : ToldOf(Unbound, m, g)
<1>1. Nowhere \in Spot
  BY DEF Nowhere, Spot
<1>2. Unbound \in Held
  BY <1>1 DEF Unbound, Held
<1>3. \A m \in Monitors, g \in Global : ToldOf(Unbound, m, g)
  BY DEF Unbound, ToldOf
<1> QED
  BY <1>2, <1>3

LEMMA DropGlobalKeeps ==
    ASSUME ScreensInv, NEW m \in Monitors, DropGlobal(m)
    PROVE  ScreensInv'
<1>1. LayoutInv' /\ widths' = widths /\ boxes' = boxes
  BY LayoutStands DEF DropGlobal
<1>2. NoGlobal \in Global /\ NoGlobal.is = "none"
  BY DEF NoGlobal, Global
<1>3. /\ globals' \in [Monitors -> Global] /\ globals'[m].is = "none"
      /\ \A n \in Monitors \ {m} : globals'[n] = globals[n]
  BY <1>2 DEF DropGlobal, ScreensInv, GlobalsTyped
<1>4. PICK after : after = seen'
  OBVIOUS
<1>5. after = [v \in Viewers |-> [n \in Monitors |->
                   IF n = m THEN Unbound
                   ELSE IF seen[v][n].xdg = m THEN [seen[v][n] EXCEPT !.xdg = NoScreen]
                   ELSE seen[v][n]]]
  BY <1>4 DEF DropGlobal
<1>6. ASSUME NEW v \in Viewers, NEW n \in Monitors
      PROVE  after[v][n] \in Held /\ ToldOf(after[v][n], n, globals'[n])
  <2>1. seen[v][n] \in Held /\ ToldOf(seen[v][n], n, globals[n])
    BY DEF ScreensInv, GlobalsTyped, AllTold
  <2>2. CASE n = m
    BY <1>3, <1>5, <2>2, UnboundIs
  <2>3. CASE n # m
    <3>1. seen[v][n].xdg # m
      BY <2>1, <2>3, ViewerAssumption DEF ToldOf
    <3>2. after[v][n] = seen[v][n]
      BY <1>5, <2>3, <3>1
    <3> QED
      BY <1>3, <2>1, <2>3, <3>2
  <2> QED
    BY <2>2, <2>3
<1>7. after \in [Viewers -> [Monitors -> Held]]
  <2>1. after = [v \in Viewers |-> [n \in Monitors |-> after[v][n]]]
    BY <1>5
  <2> QED
    BY <1>6, <2>1
<1>8. GlobalsTyped' /\ AllTold'
  BY <1>3, <1>4, <1>6, <1>7 DEF GlobalsTyped, AllTold
<1>9. \A n \in Monitors : GlobalKept(globals'[n], widths[n], boxes, n)
  BY <1>3 DEF ScreensInv, AllKept, GlobalKept
<1>10. AllKept'
  BY <1>1, <1>9 DEF AllKept
<1> QED
  BY <1>1, <1>8, <1>10 DEF ScreensInv

\* A client does something with one output.
LEMMA ClientKeeps ==
    ASSUME ScreensInv, UNCHANGED <<layoutVars, globals>>, NEW v \in Viewers, NEW m \in Monitors, NEW s \in Held,
           ToldOf(s, m, globals[m]), seen' = [seen EXCEPT ![v][m] = s]
    PROVE  ScreensInv'
<1>1. LayoutInv' /\ widths' = widths /\ boxes' = boxes /\ globals' = globals
  BY LayoutStands
<1>2. PICK mine : mine = [seen[v] EXCEPT ![m] = s]
  OBVIOUS
<1>3. seen[v] \in [Monitors -> Held]
  BY DEF ScreensInv, GlobalsTyped
<1>4. mine \in [Monitors -> Held] /\ mine[m] = s /\ \A n \in Monitors \ {m} : mine[n] = seen[v][n]
  BY <1>2, <1>3
<1>5. seen' = [seen EXCEPT ![v] = mine]
  BY <1>2
<1>6. seen' \in [Viewers -> [Monitors -> Held]] /\ seen'[v] = mine /\ \A u \in Viewers \ {v} : seen'[u] = seen[u]
  BY <1>4, <1>5 DEF ScreensInv, GlobalsTyped
<1>7. ASSUME NEW u \in Viewers, NEW n \in Monitors PROVE ToldOf(seen'[u][n], n, globals[n])
  <2>1. ToldOf(seen[u][n], n, globals[n])
    BY DEF ScreensInv, AllTold
  <2>2. CASE u = v /\ n = m
    BY <1>4, <1>6, <2>2
  <2>3. CASE u = v /\ n # m
    BY <1>4, <1>6, <2>1, <2>3
  <2>4. CASE u # v
    BY <1>6, <2>1, <2>4
  <2> QED
    BY <2>2, <2>3, <2>4
<1>8. AllTold' /\ GlobalsTyped'
  BY <1>1, <1>6, <1>7 DEF AllTold, ScreensInv, GlobalsTyped
<1>9. AllKept'
  BY <1>1 DEF ScreensInv, AllKept
<1> QED
  BY <1>1, <1>8, <1>9 DEF ScreensInv

LEMMA BindGlobalKeeps ==
    ASSUME ScreensInv, NEW v \in Viewers, NEW m \in Monitors, BindGlobal(v, m)
    PROVE  ScreensInv'
<1>1. PICK old : old = seen[v][m]
  OBVIOUS
<1>2. PICK g : g = globals[m]
  OBVIOUS
<1>3. old \in Held /\ g \in Global /\ ToldOf(old, m, g) /\ ~old.output /\ g.is # "none"
  BY <1>1, <1>2 DEF ScreensInv, GlobalsTyped, AllTold, BindGlobal
<1>4. PICK s : s = [old EXCEPT !.output = TRUE, !.mode = g.width]
  OBVIOUS
<1>5. /\ s \in Held /\ s.output /\ s.mode = g.width /\ s.xdg = old.xdg
      /\ s.sent = old.sent /\ s.has = old.has
  BY <1>3, <1>4 DEF Held, Global
<1>6. ToldOf(s, m, g)
  BY <1>3, <1>5 DEF ToldOf
<1>7. seen' = [seen EXCEPT ![v][m] = s]
  <2>1. seen \in [Viewers -> [Monitors -> Held]]
    BY DEF ScreensInv, GlobalsTyped
  <2>2. seen' = [seen EXCEPT ![v][m].output = TRUE, ![v][m].mode = g.width]
    BY <1>2 DEF BindGlobal
  <2> QED
    BY <1>1, <1>4, <2>1, <2>2
<1> QED
  BY <1>2, <1>5, <1>6, <1>7, ClientKeeps DEF BindGlobal

LEMMA GetXdgOutputKeeps ==
    ASSUME ~OneManager, ScreensInv, NEW v \in Viewers, NEW m \in Monitors, NEW n \in Monitors, GetXdgOutput(v, m, n)
    PROVE  ScreensInv'
<1>1. PICK old : old = seen[v][m]
  OBVIOUS
<1>2. PICK g : g = globals[m]
  OBVIOUS
<1>3. old \in Held /\ g \in Global /\ ToldOf(old, m, g) /\ old.output /\ n = m
  BY <1>1, <1>2 DEF ScreensInv, GlobalsTyped, AllTold, GetXdgOutput
<1>4. PICK first : first = Where(g)
  OBVIOUS
<1>5. first \in Spot
  BY <1>3, <1>4 DEF Where, Global, Spot
<1>6. PICK s : s = [old EXCEPT !.xdg = m, !.sent = first, !.has = first]
  OBVIOUS
<1>7. /\ s \in Held /\ s.output /\ s.mode = old.mode /\ s.xdg = m
      /\ s.sent = first /\ s.has = first
  BY <1>3, <1>5, <1>6 DEF Held
<1>8. ToldOf(s, m, g)
  BY <1>3, <1>4, <1>7 DEF ToldOf
<1>9. seen' = [seen EXCEPT ![v][m] = s]
  <2>1. seen \in [Viewers -> [Monitors -> Held]]
    BY DEF ScreensInv, GlobalsTyped
  <2>2. seen' = [seen EXCEPT ![v][m].xdg = m, ![v][m].sent = first, ![v][m].has = first]
    BY <1>2, <1>3, <1>4 DEF GetXdgOutput
  <2> QED
    BY <1>1, <1>6, <2>1, <2>2
<1> QED
  BY <1>2, <1>7, <1>8, <1>9, ClientKeeps DEF GetXdgOutput

LEMMA ReleaseGlobalKeeps ==
    ASSUME ScreensInv, NEW v \in Viewers, NEW m \in Monitors, ReleaseGlobal(v, m)
    PROVE  ScreensInv'
<1>1. globals[m] \in Global
  BY DEF ScreensInv, GlobalsTyped
<1>2. Unbound \in Held /\ ToldOf(Unbound, m, globals[m])
  BY <1>1, UnboundIs
<1> QED
  BY <1>2, ClientKeeps DEF ReleaseGlobal

-----------------------------------------------------------------------------
LEMMA ScreensStart == ASSUME ScreensInit PROVE ScreensInv
<1>1. LayoutInv
  BY LayoutStarts DEF ScreensInit
<1>2. NoGlobal \in Global /\ NoGlobal.is = "none"
  BY DEF NoGlobal, Global
<1>3. \A v \in Viewers, m \in Monitors : seen[v][m] = Unbound /\ globals[m] = NoGlobal
  BY DEF ScreensInit, GlobalsInit
<1>4. GlobalsTyped
  BY <1>2, UnboundIs DEF ScreensInit, GlobalsInit, GlobalsTyped
<1>5. AllTold /\ AllKept
  <2>1. \A v \in Viewers, m \in Monitors : ToldOf(seen[v][m], m, globals[m])
    BY <1>2, <1>3, UnboundIs
  <2>2. \A m \in Monitors : globals[m] = NoGlobal
    BY DEF ScreensInit, GlobalsInit
  <2>3. \A m \in Monitors : GlobalKept(globals[m], widths[m], boxes, m)
    BY <1>2, <2>2 DEF GlobalKept
  <2> QED
    BY <2>1, <2>3 DEF AllTold, AllKept
<1> QED
  BY <1>1, <1>4, <1>5 DEF ScreensInv

LEMMA ScreensStutter ==
    ASSUME ScreensInv, LayoutInv', widths' = widths, boxes' = boxes, UNCHANGED screenVars
    PROVE  ScreensInv'
  BY DEF ScreensInv, screenVars, GlobalsTyped, AllTold, AllKept

LEMMA ScreensStep ==
    ASSUME OldXdg = {}, ~OneManager, ScreensInv, [ScreensNext]_publishedVars
    PROVE  ScreensInv'
<1>1. CASE UNCHANGED publishedVars
  BY <1>1, LayoutStands, ScreensStutter DEF publishedVars
<1>2. ASSUME NEW m \in Monitors, PluggedIn(m), UNCHANGED screenVars PROVE ScreensInv'
  <2>1. LayoutInv' /\ widths' = widths /\ boxes' = boxes
    BY <1>2, PluggedInKeeps DEF PluggedIn, ScreensInv
  <2> QED
    BY <1>2, <2>1, ScreensStutter
<1>3. CASE ScreensNext
  <2>1. PICK m \in Monitors :
           \/ Rearranged(m) \/ OutputGone(m) \/ ForOutput(m) \/ DropGlobal(m)
           \/ PluggedIn(m) /\ UNCHANGED screenVars
           \/ \E w \in Widths : ModeSwitched(m, w) \/ NewGlobal(m, w) \/ SetMode(m, w)
           \/ \E x \in Places : SetLogicalPosition(m, x)
           \/ \E v \in Viewers :
               \/ BindGlobal(v, m) \/ ReleaseGlobal(v, m)
               \/ \E n \in Monitors : GetXdgOutput(v, m, n)
    BY <1>3 DEF ScreensNext
  <2>2. CASE Rearranged(m) \/ OutputGone(m) \/ ForOutput(m) \/ DropGlobal(m)
    BY <2>2, RearrangedKeeps, OutputGoneKeeps, ForOutputKeeps, DropGlobalKeeps
  <2>3. CASE PluggedIn(m) /\ UNCHANGED screenVars
    BY <1>2, <2>3
  <2>4. CASE \E w \in Widths : ModeSwitched(m, w) \/ NewGlobal(m, w) \/ SetMode(m, w)
    BY <2>4, ModeSwitchedKeeps, NewGlobalKeeps, SetModeKeeps
  <2>5. CASE \E x \in Places : SetLogicalPosition(m, x)
    BY <2>5, SetLogicalPositionKeeps
  <2>6. CASE \E v \in Viewers : \/ BindGlobal(v, m) \/ ReleaseGlobal(v, m)
                                \/ \E n \in Monitors : GetXdgOutput(v, m, n)
    BY <2>6, BindGlobalKeeps, ReleaseGlobalKeeps, GetXdgOutputKeeps
  <2> QED
    BY <2>1, <2>2, <2>3, <2>4, <2>5, <2>6
<1> QED
  BY <1>1, <1>3

\* However outputs come, go, move and switch their modes, and however clients
\* bind and let go of them, what a client was told of an output is what its global
\* keeps, and that is how the output is: for clients that hear a done after a
\* change (version 3 of xdg-output), and ask the manager of the output they mean
\* (OutputGlobal, protocol.rs).
THEOREM ScreensAreTold ==
    ASSUME OldXdg = {}, ~OneManager
    PROVE  ScreensSpec => []ScreensTold
<1>1. ScreensInit => ScreensInv
  BY ScreensStart
<1>2. ScreensInv /\ [ScreensNext]_publishedVars => ScreensInv'
  BY ScreensStep
<1>3. ScreensInv => ScreensTold
  BY InvSaysTold
<1> QED
  BY <1>1, <1>2, <1>3, PTL DEF ScreensSpec

-----------------------------------------------------------------------------
(* Panels.  Of every surface that lives, the manager is on its way to know  *)
(* whether it is mapped: the last event that says so is right, or there is  *)
(* none and what is kept of it is.  Before any of them comes the event that *)
(* puts it on the output.                                                   *)

AskedFor == Wants \cup {Unasked(l) : l \in 0..3}
Panel(T) ==
    [alive : BOOLEAN, gone : BOOLEAN, closed : BOOLEAN, committed : BOOLEAN, configured : BOOLEAN,
     mapped : BOOLEAN, want : AskedFor, told : T]
Slot(T) == [mapped : BOOLEAN, top : T, height : T]
PanelsIn(T) == panels \in [Panels -> Panel(T)] /\ placed \in [Panels -> Slot(T)]

PanelKinds == {"Created", "Map", "Unmap", "Destroy", "StateChange"}

PanelsTyped ==
    /\ \E T : PanelsIn(T)
    /\ news \in Seq(LayerSurfaceEvent)
    /\ managed \in Seq(Panels)

\* An event that says whether p is mapped.
Tells(e, p) == e.of = p /\ e.kind \in {"Map", "Unmap"}

\* The last event in n is right about p, or with none, what is kept is.
Agreed(n, p, is, was) ==
    /\ \A i \in DOMAIN n : Tells(n[i], p) /\ (\A j \in DOMAIN n : j > i => ~Tells(n[j], p)) =>
          (n[i].kind = "Map" <=> is)
    /\ (\A i \in DOMAIN n : ~Tells(n[i], p)) => (was <=> is)

\* p is on the output, or is put there before anything is said of it.
Coming(n, order, p) ==
    \/ p \in ToSet(order)
    \/ \E k \in DOMAIN n : /\ n[k].kind = "Created" /\ n[k].of = p
                           /\ \A j \in DOMAIN n : j < k => ~Tells(n[j], p)

\* Nothing has been heard of p, nor is it known.
Silent(n, p) == \A i \in DOMAIN n : n[i].of # p

PanelKnown(p) ==
    /\ panels[p].alive => /\ Agreed(news, p, panels[p].mapped, placed[p].mapped)
                          /\ Coming(news, managed, p)
    /\ ~panels[p].alive /\ ~panels[p].gone =>
            Silent(news, p) /\ ~panels[p].mapped /\ ~placed[p].mapped

\* What PanelsLaidOut says of the layout.
Answered(p) ==
    panels[p].alive /\ panels[p].committed /\ ~panels[p].closed =>
        panels[p].configured /\ panels[p].told = placed[p].height

Anew == Arrange(managed, Wanted, [p \in ToSet(managed) |-> placed[p].mapped])
IsFresh(area, at, fresh) ==
    /\ area = fresh.usable
    /\ \A p \in DOMAIN fresh.box : at[p].top = fresh.box[p].top /\ at[p].height = fresh.box[p].height
FreshLayout == IsFresh(usableArea, placed, Anew)

PanelsInv ==
    /\ PanelsTyped
    /\ \A p \in Panels : PanelKnown(p)
    /\ news = <<>> => FreshLayout /\ \A p \in Panels : Answered(p)

LEMMA InvSaysLaidOut ==
    ASSUME PanelsInv
    PROVE  PanelsLaidOut
<1> SUFFICES ASSUME news = <<>> PROVE PanelsLaidOut
  BY DEF PanelsLaidOut
<1>1. DOMAIN news = {}
  OBVIOUS
<1>2. ASSUME NEW p \in Panels, panels[p].alive
      PROVE  /\ placed[p].mapped = panels[p].mapped
             /\ panels[p].committed /\ ~panels[p].closed =>
                    panels[p].configured /\ panels[p].told = placed[p].height
  <2>1. PICK T : PanelsIn(T)
    BY DEF PanelsInv, PanelsTyped
  <2>2. placed[p] \in Slot(T) /\ panels[p] \in Panel(T)
    BY <2>1 DEF PanelsIn
  <2>3. placed[p].mapped \in BOOLEAN /\ panels[p].mapped \in BOOLEAN
    BY <2>2 DEF Slot, Panel
  <2>4. Agreed(news, p, panels[p].mapped, placed[p].mapped) /\ Answered(p)
    BY <1>2 DEF PanelsInv, PanelKnown
  <2>5. placed[p].mapped <=> panels[p].mapped
    BY <1>1, <2>4 DEF Agreed
  <2> QED
    BY <1>2, <2>3, <2>4, <2>5 DEF Answered
<1>3. FreshLayout
  BY DEF PanelsInv
<1> QED
  BY <1>2, <1>3 DEF PanelsLaidOut, FreshLayout, IsFresh, Anew

-----------------------------------------------------------------------------
(* Events. *)

LEMMA JoinedIs ==
    ASSUME NEW n \in Seq(LayerSurfaceEvent), NEW more \in Seq(LayerSurfaceEvent)
    PROVE  /\ n \o more \in Seq(LayerSurfaceEvent)
           /\ DOMAIN (n \o more) = 1..(Len(n) + Len(more)) /\ DOMAIN n = 1..Len(n) /\ DOMAIN more = 1..Len(more)
           /\ Len(n) \in Nat /\ Len(more) \in Nat
           /\ \A i \in DOMAIN n : i \in DOMAIN (n \o more) /\ (n \o more)[i] = n[i]
           /\ \A i \in DOMAIN more : Len(n) + i \in DOMAIN (n \o more) /\ (n \o more)[Len(n) + i] = more[i]
           /\ \A i \in DOMAIN (n \o more) :
                 \/ i \in DOMAIN n
                 \/ \E k \in DOMAIN more : i = Len(n) + k
           /\ n \o more = <<>> => n = <<>> /\ more = <<>>
<1>1. PICK all : all = n \o more
  OBVIOUS
<1>2. /\ all \in Seq(LayerSurfaceEvent) /\ Len(all) = Len(n) + Len(more)
      /\ \A i \in 1 .. Len(n) + Len(more) : all[i] = IF i <= Len(n) THEN n[i] ELSE more[i - Len(n)]
  BY <1>1, ConcatProperties
<1>3. DOMAIN all = 1..(Len(n) + Len(more)) /\ DOMAIN n = 1..Len(n) /\ DOMAIN more = 1..Len(more)
      /\ Len(n) \in Nat /\ Len(more) \in Nat
  BY <1>2
<1>4. \A i \in DOMAIN n : i \in DOMAIN all /\ all[i] = n[i]
  BY <1>2, <1>3
<1>5. ASSUME NEW i \in DOMAIN more PROVE Len(n) + i \in DOMAIN all /\ all[Len(n) + i] = more[i]
  <2>1. Len(n) + i \in 1..(Len(n) + Len(more)) /\ ~(Len(n) + i <= Len(n)) /\ Len(n) + i - Len(n) = i
    BY <1>3
  <2> QED
    BY <1>2, <1>3, <2>1
<1>6. ASSUME NEW i \in DOMAIN all, i \notin DOMAIN n PROVE \E k \in DOMAIN more : i = Len(n) + k
  <2>1. i - Len(n) \in DOMAIN more /\ i = Len(n) + (i - Len(n))
    BY <1>3, <1>6
  <2> QED
    BY <2>1
<1>7. ASSUME all = <<>> PROVE n = <<>> /\ more = <<>>
  <2>1. Len(n) = 0 /\ Len(more) = 0
    BY <1>2, <1>3, <1>7
  <2> QED
    BY <2>1
<1> QED
  BY <1>1, <1>2, <1>3, <1>4, <1>5, <1>6, <1>7

\* What is fired says nothing of p.
LEMMA AgreedMore ==
    ASSUME NEW n \in Seq(LayerSurfaceEvent), NEW more \in Seq(LayerSurfaceEvent), NEW p, NEW is, NEW was,
           Agreed(n, p, is, was), \A k \in DOMAIN more : ~Tells(more[k], p)
    PROVE  Agreed(n \o more, p, is, was)
<1>1. PICK all : all = n \o more
  OBVIOUS
<1>2. /\ \A i \in DOMAIN n : i \in DOMAIN all /\ all[i] = n[i]
      /\ \A i \in DOMAIN all : i \in DOMAIN n \/ \E k \in DOMAIN more : i = Len(n) + k /\ all[i] = more[k]
  BY <1>1, JoinedIs
<1>3. \A i \in DOMAIN all : Tells(all[i], p) => i \in DOMAIN n
  BY <1>2
<1>4. ASSUME NEW i \in DOMAIN all, Tells(all[i], p), \A j \in DOMAIN all : j > i => ~Tells(all[j], p)
      PROVE  all[i].kind = "Map" <=> is
  <2>1. i \in DOMAIN n /\ Tells(n[i], p) /\ all[i] = n[i]
    BY <1>2, <1>3, <1>4
  <2>2. \A j \in DOMAIN n : j > i => ~Tells(n[j], p)
    BY <1>2, <1>4
  <2> QED
    BY <2>1, <2>2 DEF Agreed
<1>5. ASSUME \A i \in DOMAIN all : ~Tells(all[i], p) PROVE was <=> is
  <2>1. \A i \in DOMAIN n : ~Tells(n[i], p)
    BY <1>2, <1>5
  <2> QED
    BY <2>1 DEF Agreed
<1> QED
  BY <1>1, <1>4, <1>5 DEF Agreed

\* What is fired says how p is now.
LEMMA AgreedNow ==
    ASSUME NEW n \in Seq(LayerSurfaceEvent), NEW more \in Seq(LayerSurfaceEvent), NEW p, NEW is, NEW was,
           \E k \in DOMAIN more : Tells(more[k], p),
           \A k \in DOMAIN more : Tells(more[k], p) => (more[k].kind = "Map" <=> is)
    PROVE  Agreed(n \o more, p, is, was)
<1>1. PICK all : all = n \o more
  OBVIOUS
<1>2. /\ \A i \in DOMAIN all : i \in DOMAIN n \/ \E k \in DOMAIN more : i = Len(n) + k /\ all[i] = more[k]
      /\ DOMAIN n = 1..Len(n) /\ Len(n) \in Nat /\ DOMAIN more = 1..Len(more) /\ Len(more) \in Nat
      /\ \A k \in DOMAIN more : Len(n) + k \in DOMAIN all /\ all[Len(n) + k] = more[k]
  BY <1>1, JoinedIs
<1>3. PICK k \in DOMAIN more : Tells(more[k], p)
  OBVIOUS
<1>4. ASSUME NEW i \in DOMAIN all, Tells(all[i], p), \A j \in DOMAIN all : j > i => ~Tells(all[j], p)
      PROVE  all[i].kind = "Map" <=> is
  <2>1. i \notin DOMAIN n
    <3> SUFFICES ASSUME i \in DOMAIN n PROVE FALSE
      OBVIOUS
    <3>1. Len(n) + k > i
      BY <1>2
    <3> QED
      BY <1>2, <1>3, <1>4, <3>1
  <2>2. PICK l \in DOMAIN more : all[i] = more[l]
    BY <1>2, <2>1
  <2> QED
    BY <1>4, <2>2
<1>5. ~\A i \in DOMAIN all : ~Tells(all[i], p)
  BY <1>2, <1>3
<1> QED
  BY <1>1, <1>4, <1>5 DEF Agreed

LEMMA ComingMore ==
    ASSUME NEW n \in Seq(LayerSurfaceEvent), NEW more \in Seq(LayerSurfaceEvent), NEW p, NEW order,
           Coming(n, order, p)
    PROVE  Coming(n \o more, order, p)
<1>1. PICK all : all = n \o more
  OBVIOUS
<1>2. /\ \A i \in DOMAIN n : i \in DOMAIN all /\ all[i] = n[i]
      /\ \A i \in DOMAIN all : i \in DOMAIN n \/ \E k \in DOMAIN more : i = Len(n) + k
      /\ DOMAIN n = 1..Len(n) /\ Len(n) \in Nat /\ DOMAIN more = 1..Len(more) /\ Len(more) \in Nat
  BY <1>1, JoinedIs
<1>3. CASE p \in ToSet(order)
  BY <1>3 DEF Coming
<1>4. ASSUME NEW k \in DOMAIN n, n[k].kind = "Created", n[k].of = p, \A j \in DOMAIN n : j < k => ~Tells(n[j], p)
      PROVE  Coming(all, order, p)
  <2>1. ASSUME NEW j \in DOMAIN all, j < k PROVE ~Tells(all[j], p)
    <3>1. j \in DOMAIN n
      BY <1>2, <2>1
    <3> QED
      BY <1>2, <1>4, <2>1, <3>1
  <2> QED
    BY <1>2, <1>4, <2>1 DEF Coming
<1> QED
  BY <1>1, <1>3, <1>4 DEF Coming

LEMMA SilentMore ==
    ASSUME NEW n \in Seq(LayerSurfaceEvent), NEW more \in Seq(LayerSurfaceEvent), NEW p,
           Silent(n, p), Silent(more, p)
    PROVE  Silent(n \o more, p)
<1>1. PICK all : all = n \o more
  OBVIOUS
<1>2. /\ \A i \in DOMAIN n : i \in DOMAIN all /\ all[i] = n[i]
      /\ \A i \in DOMAIN all : i \in DOMAIN n \/ \E k \in DOMAIN more : i = Len(n) + k /\ all[i] = more[k]
  BY <1>1, JoinedIs
<1> QED
  BY <1>1, <1>2 DEF Silent

\* What is fired of p.
LEMMA FireIs ==
    ASSUME news \in Seq(LayerSurfaceEvent), NEW p \in Panels, NEW kinds \in Seq(PanelKinds), Fire(kinds, p)
    PROVE  \E more \in Seq(LayerSurfaceEvent) :
              /\ news' = news \o more /\ DOMAIN more = DOMAIN kinds /\ Len(more) = Len(kinds)
              /\ \A k \in DOMAIN kinds : more[k].kind = kinds[k] /\ more[k].of = p
<1>1. PICK more : more = [i \in 1..Len(kinds) |-> [kind |-> kinds[i], of |-> p]]
  OBVIOUS
<1>2. DOMAIN kinds = 1..Len(kinds) /\ Len(kinds) \in Nat
  OBVIOUS
<1>3. ASSUME NEW k \in DOMAIN kinds PROVE more[k] \in LayerSurfaceEvent /\ more[k].kind = kinds[k] /\ more[k].of = p
  <2>1. kinds[k] \in PanelKinds /\ more[k] = [kind |-> kinds[k], of |-> p]
    BY <1>1, <1>2
  <2> QED
    BY <2>1 DEF PanelKinds, LayerSurfaceEvent
<1>4. more \in Seq(LayerSurfaceEvent) /\ DOMAIN more = DOMAIN kinds /\ Len(more) = Len(kinds)
  BY <1>1, <1>2, <1>3
<1>5. news' = news \o more
  BY <1>1 DEF Fire
<1> QED
  BY <1>3, <1>4, <1>5

-----------------------------------------------------------------------------
(* Every step. *)

LEMMA Wider ==
    ASSUME NEW T, NEW U, T \subseteq U, PanelsIn(T)
    PROVE  PanelsIn(U)
<1>1. ASSUME NEW x \in Panel(T) PROVE x \in Panel(U)
  BY DEF Panel
<1>2. ASSUME NEW x \in Slot(T) PROVE x \in Slot(U)
  BY DEF Slot
<1>3. panels \in [Panels -> Panel(U)]
  BY <1>1 DEF PanelsIn
<1>4. placed \in [Panels -> Slot(U)]
  BY <1>2 DEF PanelsIn
<1> QED
  BY <1>3, <1>4 DEF PanelsIn

\* Nothing new is fired, and all is as it was.
LEMMA StandsStill ==
    ASSUME PanelsInv, UNCHANGED panelVars
    PROVE  PanelsInv'
<1>1. panels' = panels /\ news' = news /\ managed' = managed /\ placed' = placed /\ usableArea' = usableArea
  BY DEF panelVars
<1>2. PanelsTyped'
  BY <1>1 DEF PanelsInv, PanelsTyped, PanelsIn
<1>3. \A p \in Panels : PanelKnown(p)' /\ (Answered(p)' <=> Answered(p))
  BY <1>1 DEF PanelsInv, PanelKnown, Answered
<1>4. FreshLayout' <=> FreshLayout
  <2>1. Wanted' = Wanted
    BY <1>1 DEF Wanted
  <2>2. Anew' = Anew
    BY <1>1, <2>1 DEF Anew
  <2> QED
    BY <1>1, <2>2 DEF FreshLayout
<1> QED
  BY <1>1, <1>2, <1>3, <1>4 DEF PanelsInv

Shows == {"Map", "Unmap"}

\* A client commits, and events say what changed.
LEMMA CommittedKeeps ==
    ASSUME PanelsInv, NEW T, PanelsIn(T), NEW p \in Panels, NEW x \in Panel(T), panels[p].alive, x.alive,
           panels' = [panels EXCEPT ![p] = x], NEW kinds \in Seq(PanelKinds), Fire(kinds, p),
           UNCHANGED <<managed, placed, usableArea>>,
           \/ (\A k \in DOMAIN kinds : kinds[k] \notin Shows) /\ x.mapped = panels[p].mapped
           \/ /\ \E k \in DOMAIN kinds : kinds[k] \in Shows
              /\ \A k \in DOMAIN kinds : kinds[k] \in Shows => (kinds[k] = "Map" <=> x.mapped),
           kinds = <<>> => x = panels[p]
    PROVE  PanelsInv'
<1>1. news \in Seq(LayerSurfaceEvent) /\ managed \in Seq(Panels)
  BY DEF PanelsInv, PanelsTyped
<1>2. PICK more \in Seq(LayerSurfaceEvent) :
          /\ news' = news \o more /\ DOMAIN more = DOMAIN kinds /\ Len(more) = Len(kinds)
          /\ \A k \in DOMAIN kinds : more[k].kind = kinds[k] /\ more[k].of = p
  BY <1>1, FireIs
<1>3. PanelsIn(T)'
  BY DEF PanelsIn
<1>4. PanelsTyped'
  BY <1>1, <1>2, <1>3, JoinedIs DEF PanelsTyped
<1>5. panels'[p] = x /\ \A q \in Panels \ {p} : panels'[q] = panels[q]
  BY DEF PanelsIn
<1>6. ASSUME NEW q \in Panels PROVE PanelKnown(q)'
  <2>1. PanelKnown(q)
    BY DEF PanelsInv
  <2>2. CASE q # p
    <3>1. Silent(more, q) /\ \A k \in DOMAIN more : ~Tells(more[k], q)
      BY <1>2, <2>2 DEF Silent, Tells
    <3>2. panels[q].alive => Agreed(news', q, panels[q].mapped, placed[q].mapped) /\ Coming(news', managed, q)
      BY <1>1, <1>2, <2>1, <3>1, AgreedMore, ComingMore DEF PanelKnown
    <3>3. ~panels[q].alive /\ ~panels[q].gone => Silent(news', q) /\ ~panels[q].mapped /\ ~placed[q].mapped
      BY <1>1, <1>2, <2>1, <3>1, SilentMore DEF PanelKnown
    <3> QED
      BY <1>5, <2>2, <3>2, <3>3 DEF PanelKnown
  <2>3. CASE q = p
    <3>1. Agreed(news, p, panels[p].mapped, placed[p].mapped) /\ Coming(news, managed, p)
      BY <2>1, <2>3 DEF PanelKnown
    <3>2. Coming(news', managed, p)
      BY <1>1, <1>2, <3>1, ComingMore
    <3>3. Agreed(news', p, x.mapped, placed[p].mapped)
      <4>1. CASE (\A k \in DOMAIN kinds : kinds[k] \notin Shows) /\ x.mapped = panels[p].mapped
        <5>1. \A k \in DOMAIN more : ~Tells(more[k], p)
          BY <1>2, <4>1 DEF Tells, Shows
        <5> QED
          BY <1>1, <1>2, <3>1, <4>1, <5>1, AgreedMore
      <4>2. CASE /\ \E k \in DOMAIN kinds : kinds[k] \in Shows
                 /\ \A k \in DOMAIN kinds : kinds[k] \in Shows => (kinds[k] = "Map" <=> x.mapped)
        <5>1. /\ \E k \in DOMAIN more : Tells(more[k], p)
              /\ \A k \in DOMAIN more : Tells(more[k], p) => (more[k].kind = "Map" <=> x.mapped)
          BY <1>2, <4>2 DEF Tells, Shows
        <5> QED
          BY <1>1, <1>2, <5>1, AgreedNow
      <4> QED
        BY <4>1, <4>2
    <3> QED
      BY <1>5, <2>3, <3>2, <3>3 DEF PanelKnown
  <2> QED
    BY <2>2, <2>3
<1>7. ASSUME news' = <<>> PROVE FreshLayout' /\ \A q \in Panels : Answered(q)'
  <2>1. news = <<>> /\ more = <<>>
    <3>1. news \o more = <<>>
      BY <1>2, <1>7
    <3> QED
      BY <1>1, <3>1, JoinedIs
  <2>2. kinds = <<>>
    BY <1>2, <2>1
  <2>3. panels' = panels
    BY <2>2 DEF PanelsIn
  <2>4. FreshLayout' <=> FreshLayout
    <3>1. managed' = managed /\ placed' = placed /\ usableArea' = usableArea
      OBVIOUS
    <3>2. Wanted' = Wanted
      BY <2>3 DEF Wanted
    <3>3. Anew' = Anew
      BY <3>1, <3>2 DEF Anew
    <3> QED
      BY <3>1, <3>3 DEF FreshLayout
  <2>5. \A q \in Panels : Answered(q)' <=> Answered(q)
    BY <2>3 DEF Answered
  <2> QED
    BY <2>1, <2>4, <2>5 DEF PanelsInv
<1> QED
  BY <1>4, <1>6, <1>7 DEF PanelsInv

LEMMA OneKind ==
    ASSUME NEW a \in PanelKinds
    PROVE  /\ <<a>> \in Seq(PanelKinds) /\ <<a>> # <<>> /\ Len(<<a>>) = 1
           /\ DOMAIN <<a>> = {1} /\ <<a>>[1] = a
<1>1. PICK s : s = <<a>>
  OBVIOUS
<1>2. s \in Seq(PanelKinds) /\ Len(s) = 1 /\ s[1] = a
  BY <1>1
<1>3. DOMAIN s = 1..1
  BY <1>2
<1> QED
  BY <1>1, <1>2, <1>3

LEMMA TwoKinds ==
    ASSUME NEW a \in PanelKinds, NEW b \in PanelKinds
    PROVE  /\ <<a, b>> \in Seq(PanelKinds) /\ <<a, b>> # <<>> /\ DOMAIN <<a, b>> = {1, 2}
           /\ <<a, b>>[1] = a /\ <<a, b>>[2] = b
<1>1. PICK s : s = <<a, b>>
  OBVIOUS
<1>2. s \in Seq(PanelKinds) /\ Len(s) = 2 /\ s[1] = a /\ s[2] = b
  BY <1>1
<1>3. DOMAIN s = 1..2
  BY <1>2
<1> QED
  BY <1>1, <1>2, <1>3

LEMMA WantsAre ==
    ASSUME NEW w \in Wants
    PROVE  w \in AskedFor
  BY DEF AskedFor

LEMMA GetLayerSurfaceKeeps ==
    ASSUME PanelsInv, NEW p \in Panels, NEW w \in Wants, GetLayerSurface(p, w.layer)
    PROVE  PanelsInv'
<1>1. PICK T : PanelsIn(T)
  BY DEF PanelsInv, PanelsTyped
<1>2. news \in Seq(LayerSurfaceEvent) /\ managed \in Seq(Panels)
  BY DEF PanelsInv, PanelsTyped
<1>3. PICK kinds \in Seq(PanelKinds) :
          kinds = <<"Created">> /\ DOMAIN kinds = {1} /\ Len(kinds) = 1 /\ kinds[1] = "Created"
  <2>1. "Created" \in PanelKinds
    BY DEF PanelKinds
  <2> QED
    BY <2>1, OneKind
<1>4. PICK more \in Seq(LayerSurfaceEvent) :
          news' = news \o more /\ DOMAIN more = {1} /\ Len(more) = 1 /\ more[1].kind = "Created" /\ more[1].of = p
  <2>1. Fire(kinds, p)
    BY <1>3 DEF GetLayerSurface
  <2>2. PICK more \in Seq(LayerSurfaceEvent) :
            /\ news' = news \o more /\ DOMAIN more = DOMAIN kinds /\ Len(more) = Len(kinds)
            /\ \A k \in DOMAIN kinds : more[k].kind = kinds[k] /\ more[k].of = p
    BY <1>2, <2>1, FireIs
  <2> QED
    BY <1>3, <2>2
<1>5. PICK x : x = [panels[p] EXCEPT !.alive = TRUE, !.want = Unasked(w.layer)]
  OBVIOUS
<1>6. panels[p] \in Panel(T) /\ Unasked(w.layer) \in AskedFor
  BY <1>1, PanelAssumption DEF PanelsIn, AskedFor
<1>7. x \in Panel(T) /\ x.alive /\ x.mapped = panels[p].mapped
  BY <1>5, <1>6 DEF Panel
<1>8. panels' = [panels EXCEPT ![p] = x] /\ managed' = managed /\ placed' = placed /\ usableArea' = usableArea
  BY <1>5 DEF GetLayerSurface
<1>9. PanelsIn(T)' /\ panels'[p] = x /\ \A q \in Panels \ {p} : panels'[q] = panels[q]
  BY <1>1, <1>7, <1>8 DEF PanelsIn
<1>10. PanelsTyped' /\ news' # <<>>
  <2>1. more # <<>>
    <3>1. Len(more) # 0
      BY <1>4
    <3> QED
      BY <3>1
  <2> QED
    BY <1>2, <1>4, <1>8, <1>9, <2>1, JoinedIs DEF PanelsTyped
<1>11. ASSUME NEW q \in Panels PROVE PanelKnown(q)'
  <2>1. PanelKnown(q)
    BY DEF PanelsInv
  <2>2. CASE q # p
    <3>1. Silent(more, q) /\ \A k \in DOMAIN more : ~Tells(more[k], q)
      BY <1>4, <2>2 DEF Silent, Tells
    <3>2. panels[q].alive => Agreed(news', q, panels[q].mapped, placed[q].mapped) /\ Coming(news', managed, q)
      BY <1>2, <1>4, <2>1, <3>1, AgreedMore, ComingMore DEF PanelKnown
    <3>3. ~panels[q].alive /\ ~panels[q].gone => Silent(news', q) /\ ~panels[q].mapped /\ ~placed[q].mapped
      BY <1>2, <1>4, <2>1, <3>1, SilentMore DEF PanelKnown
    <3> QED
      BY <1>8, <1>9, <2>2, <3>2, <3>3 DEF PanelKnown
  <2>3. CASE q = p
    <3>1. Silent(news, p) /\ ~panels[p].mapped /\ ~placed[p].mapped
      BY <2>1, <2>3 DEF PanelKnown, GetLayerSurface
    <3>2. \A i \in DOMAIN news : ~Tells(news[i], p)
      BY <3>1 DEF Silent, Tells
    <3>3. Agreed(news, p, panels[p].mapped, placed[p].mapped)
      BY <3>1, <3>2 DEF Agreed
    <3>4. \A k \in DOMAIN more : ~Tells(more[k], p)
      BY <1>4 DEF Tells
    <3>5. Agreed(news', p, panels[p].mapped, placed[p].mapped)
      BY <1>2, <1>4, <3>3, <3>4, AgreedMore
    <3>6. Coming(news', managed, p)
      <4>1. PICK all : all = news \o more
        OBVIOUS
      <4>2. /\ \A i \in DOMAIN news : all[i] = news[i]
            /\ Len(news) + 1 \in DOMAIN all /\ all[Len(news) + 1] = more[1]
            /\ \A i \in DOMAIN all : i \in DOMAIN news \/ i = Len(news) + 1
            /\ Len(news) \in Nat
        BY <1>2, <1>4, <4>1, JoinedIs
      <4>3. ASSUME NEW j \in DOMAIN all, j < Len(news) + 1 PROVE ~Tells(all[j], p)
        BY <3>2, <4>2, <4>3
      <4> QED
        BY <1>4, <4>1, <4>2, <4>3 DEF Coming
    <3> QED
      BY <1>7, <1>8, <1>9, <2>3, <3>5, <3>6 DEF PanelKnown
  <2> QED
    BY <2>2, <2>3
<1> QED
  BY <1>10, <1>11 DEF PanelsInv

LEMMA InitialCommitKeeps ==
    ASSUME PanelsInv, NEW p \in Panels, NEW w \in Wants, InitialCommit(p, w)
    PROVE  PanelsInv'
<1>1. PICK T : PanelsIn(T)
  BY DEF PanelsInv, PanelsTyped
<1>2. PICK U : U = T \cup {w.height}
  OBVIOUS
<1>3. PanelsIn(U) /\ w.height \in U
  BY <1>1, <1>2, Wider
<1>4. PICK old : old = panels[p]
  OBVIOUS
<1>5. old \in Panel(U) /\ old.alive /\ w \in AskedFor
  BY <1>3, <1>4, WantsAre DEF PanelsIn, InitialCommit
<1>6. PICK y : y = [old EXCEPT !.want = w, !.committed = TRUE]
  OBVIOUS
<1>7. y \in Panel(U) /\ y.alive /\ y.mapped = old.mapped
  BY <1>5, <1>6 DEF Panel
<1>8. PICK x : x = IF w.height > 0 THEN Configured(y, w.height) ELSE y
  OBVIOUS
<1>9. x \in Panel(U) /\ x.alive /\ x.mapped = old.mapped
  BY <1>3, <1>7, <1>8 DEF Configured, Panel
<1>10. panels' = [panels EXCEPT ![p] = x] /\ Fire(<<"StateChange">>, p) /\ UNCHANGED <<managed, placed, usableArea>>
  BY <1>4, <1>6, <1>8 DEF InitialCommit
<1>11. PICK kinds \in Seq(PanelKinds) :
           kinds = <<"StateChange">> /\ kinds # <<>> /\ DOMAIN kinds = {1} /\ kinds[1] = "StateChange"
  <2>1. "StateChange" \in PanelKinds
    BY DEF PanelKinds
  <2> QED
    BY <2>1, OneKind
<1>12. kinds # <<>> /\ \A k \in DOMAIN kinds : kinds[k] \notin Shows
  BY <1>11 DEF Shows
<1>13. Fire(kinds, p)
  BY <1>10, <1>11
<1> QED
  BY <1>3, <1>4, <1>5, <1>9, <1>10, <1>12, <1>13, CommittedKeeps

LEMMA CommitKeeps ==
    ASSUME PanelsInv, NEW p \in Panels, NEW w \in Wants, NEW buffer \in BOOLEAN, Commit(p, w, buffer)
    PROVE  PanelsInv'
<1>1. PICK T : PanelsIn(T)
  BY DEF PanelsInv, PanelsTyped
<1>2. PICK U : U = T \cup {0}
  OBVIOUS
<1>3. PanelsIn(U) /\ 0 \in U
  BY <1>1, <1>2, Wider
<1>4. PICK old : old = panels[p]
  OBVIOUS
<1>5. old \in Panel(U) /\ old.alive /\ w \in AskedFor
  BY <1>3, <1>4, WantsAre DEF PanelsIn, Commit
<1>6. PICK change : change = IF w # old.want THEN <<"StateChange">> ELSE <<>>
  OBVIOUS
<1>7. /\ change \in Seq(PanelKinds) /\ (change = <<>> => w = old.want)
      /\ \A k \in DOMAIN change : change[k] \notin Shows
  <2>1. "StateChange" \in PanelKinds /\ "StateChange" \notin Shows
    BY DEF PanelKinds, Shows
  <2>2. CASE change = <<>>
    <3>1. DOMAIN change = {} /\ change \in Seq(PanelKinds)
      BY <2>2
    <3>2. <<"StateChange">> # <<>>
      BY <2>1, OneKind
    <3> QED
      BY <1>6, <2>2, <3>1, <3>2
  <2>3. CASE change = <<"StateChange">>
    <3>1. change \in Seq(PanelKinds) /\ change # <<>> /\ DOMAIN change = {1} /\ change[1] = "StateChange"
      BY <2>1, <2>3, OneKind
    <3> QED
      BY <2>1, <3>1
  <2> QED
    BY <1>6, <2>2, <2>3
<1>8. PICK y : y = [old EXCEPT !.want = w]
  OBVIOUS
<1>9. y \in Panel(U) /\ y.alive /\ y.mapped = old.mapped /\ (w = old.want => y = old)
  BY <1>5, <1>8 DEF Panel
<1>10. UNCHANGED <<managed, placed, usableArea>>
  BY DEF Commit
<1>11. ASSUME NEW kind \in Shows
       PROVE  /\ change \o <<kind>> \in Seq(PanelKinds) /\ change \o <<kind>> # <<>>
              /\ \E k \in DOMAIN (change \o <<kind>>) : (change \o <<kind>>)[k] \in Shows
              /\ \A k \in DOMAIN (change \o <<kind>>) : (change \o <<kind>>)[k] \in Shows =>
                    (change \o <<kind>>)[k] = kind
  <2>1. kind \in PanelKinds /\ "StateChange" \in PanelKinds /\ "StateChange" \notin Shows
    BY DEF PanelKinds, Shows
  <2>2. PICK last : last = <<kind>>
    OBVIOUS
  <2>3. last \in Seq(PanelKinds) /\ Len(last) = 1 /\ last[1] = kind
    BY <2>1, <2>2, OneKind
  <2>4. PICK all : all = change \o last
    OBVIOUS
  <2>5. /\ all \in Seq(PanelKinds) /\ Len(all) = Len(change) + 1 /\ Len(change) \in Nat
        /\ \A i \in 1..(Len(change) + 1) : all[i] = IF i <= Len(change) THEN change[i] ELSE last[i - Len(change)]
    <3>1. /\ all \in Seq(PanelKinds) /\ Len(all) = Len(change) + Len(last)
          /\ \A i \in 1..(Len(change) + Len(last)) :
                all[i] = IF i <= Len(change) THEN change[i] ELSE last[i - Len(change)]
      BY ZenonT(40), <1>7, <2>3, <2>4, ConcatProperties
    <3>2. Len(change) \in Nat
      BY <1>7
    <3> QED
      BY <2>3, <3>1, <3>2
  <2>6. DOMAIN all = 1..(Len(change) + 1) /\ DOMAIN change = 1..Len(change)
    BY <1>7, <2>5
  <2>7. Len(change) + 1 \in DOMAIN all /\ all[Len(change) + 1] = kind
    <3>1. Len(change) + 1 - Len(change) = 1 /\ ~(Len(change) + 1 <= Len(change)) /\ Len(change) + 1 \in 1..(Len(change) + 1)
      BY <2>5
    <3> QED
      BY <2>3, <2>5, <2>6, <3>1
  <2>8. \A i \in DOMAIN all : i # Len(change) + 1 => i \in DOMAIN change /\ all[i] = change[i]
    BY <2>5, <2>6
  <2>9. all # <<>>
    BY <2>6, <2>7
  <2> QED
    BY <1>7, <2>2, <2>4, <2>5, <2>7, <2>8, <2>9
<1>12. CASE /\ buffer /\ ~panels[p].mapped
            /\ panels' = [panels EXCEPT ![p] = [y EXCEPT !.mapped = TRUE]]
            /\ Fire(change \o <<"Map">>, p)
  <2>1. PICK x : x = [y EXCEPT !.mapped = TRUE]
    OBVIOUS
  <2>2. x \in Panel(U) /\ x.alive /\ x.mapped
    BY <1>9, <2>1 DEF Panel
  <2>3. PICK kinds : kinds = change \o <<"Map">>
    OBVIOUS
  <2>4. /\ kinds \in Seq(PanelKinds) /\ kinds # <<>> /\ Fire(kinds, p)
        /\ \E k \in DOMAIN kinds : kinds[k] \in Shows
        /\ \A k \in DOMAIN kinds : kinds[k] \in Shows => (kinds[k] = "Map" <=> x.mapped)
    <3>1. "Map" \in Shows
      BY DEF Shows
    <3> QED
      BY <1>11, <1>12, <2>2, <2>3, <3>1
  <2>5. panels' = [panels EXCEPT ![p] = x]
    BY <1>12, <2>1
  <2> QED
    BY <1>3, <1>4, <1>5, <1>10, <2>2, <2>4, <2>5, CommittedKeeps
<1>13. CASE /\ ~buffer /\ panels[p].mapped
            /\ panels' = [panels EXCEPT ![p] = [y EXCEPT !.mapped = FALSE, !.configured = FALSE, !.told = 0]]
            /\ Fire(change \o <<"Unmap">>, p)
  <2>1. PICK x : x = [y EXCEPT !.mapped = FALSE, !.configured = FALSE, !.told = 0]
    OBVIOUS
  <2>2. x \in Panel(U) /\ x.alive /\ ~x.mapped
    BY <1>3, <1>9, <2>1 DEF Panel
  <2>3. PICK kinds : kinds = change \o <<"Unmap">>
    OBVIOUS
  <2>4. /\ kinds \in Seq(PanelKinds) /\ kinds # <<>> /\ Fire(kinds, p)
        /\ \E k \in DOMAIN kinds : kinds[k] \in Shows
        /\ \A k \in DOMAIN kinds : kinds[k] \in Shows => (kinds[k] = "Map" <=> x.mapped)
    <3>1. "Unmap" \in Shows
      BY DEF Shows
    <3> QED
      BY <1>11, <1>13, <2>2, <2>3, <3>1
  <2>5. panels' = [panels EXCEPT ![p] = x]
    BY <1>13, <2>1
  <2> QED
    BY <1>3, <1>4, <1>5, <1>10, <2>2, <2>4, <2>5, CommittedKeeps
<1>14. CASE /\ buffer = panels[p].mapped
            /\ panels' = [panels EXCEPT ![p] = y]
            /\ Fire(change, p)
  <2>1. y.mapped = panels[p].mapped /\ (change = <<>> => y = panels[p])
    BY <1>4, <1>7, <1>9
  <2> QED
    BY <1>3, <1>4, <1>5, <1>7, <1>9, <1>10, <1>14, <2>1, CommittedKeeps
<1> QED
  BY <1>4, <1>6, <1>8, <1>12, <1>13, <1>14 DEF Commit

LEMMA DestroyPanelKeeps ==
    ASSUME PanelsInv, NEW p \in Panels, DestroyPanel(p)
    PROVE  PanelsInv'
<1>1. PICK T : PanelsIn(T)
  BY DEF PanelsInv, PanelsTyped
<1>2. news \in Seq(LayerSurfaceEvent) /\ managed \in Seq(Panels)
  BY DEF PanelsInv, PanelsTyped
<1>3. PICK U : U = T \cup {0}
  OBVIOUS
<1>4. PanelsIn(U) /\ NotPlaced \in Slot(U)
  BY <1>1, <1>3, Wider DEF NotPlaced, Slot
<1>5. PICK kinds : kinds = IF panels[p].mapped THEN <<"Unmap", "Destroy">> ELSE <<"Destroy">>
  OBVIOUS
<1>6. kinds \in Seq(PanelKinds) /\ kinds # <<>> /\ Fire(kinds, p)
  <2>1. kinds \in Seq(PanelKinds) /\ kinds # <<>>
    <3>1. "Unmap" \in PanelKinds /\ "Destroy" \in PanelKinds
      BY DEF PanelKinds
    <3> QED
      BY <1>5, <3>1, OneKind, TwoKinds
  <2> QED
    BY <1>5, <2>1 DEF DestroyPanel
<1>7. PICK more \in Seq(LayerSurfaceEvent) :
          news' = news \o more /\ more # <<>> /\ \A k \in DOMAIN more : more[k].of = p
  <2>1. PICK more \in Seq(LayerSurfaceEvent) :
            /\ news' = news \o more /\ DOMAIN more = DOMAIN kinds /\ Len(more) = Len(kinds)
            /\ \A k \in DOMAIN kinds : more[k].kind = kinds[k] /\ more[k].of = p
    BY <1>2, <1>6, FireIs
  <2>2. Len(kinds) # 0
    BY <1>6
  <2>3. more # <<>>
    BY <2>1, <2>2
  <2> QED
    BY <2>1, <2>3
<1>8. PICK x : x = [panels[p] EXCEPT !.alive = FALSE, !.gone = TRUE, !.mapped = FALSE]
  OBVIOUS
<1>9. x \in Panel(U) /\ ~x.alive /\ x.gone
  <2>1. panels[p] \in Panel(U)
    BY <1>4 DEF PanelsIn
  <2> QED
    BY <1>8, <2>1 DEF Panel
<1>10. panels' = [panels EXCEPT ![p] = x] /\ placed' = [placed EXCEPT ![p] = NotPlaced]
  BY <1>8 DEF DestroyPanel
<1>11. /\ PanelsIn(U)' /\ panels'[p] = x
       /\ \A q \in Panels \ {p} : panels'[q] = panels[q] /\ placed'[q] = placed[q]
  BY <1>4, <1>9, <1>10 DEF PanelsIn
<1>12. PICK keep : keep = {i \in DOMAIN managed : managed[i] # p}
  OBVIOUS
<1>13. managed' = Picked(managed, keep) /\ keep \in SUBSET (DOMAIN managed)
  BY <1>12 DEF DestroyPanel
<1>14. /\ managed' \in Seq(Panels) /\ DOMAIN managed' = 1..Cardinality(keep)
       /\ \A n \in 1..Cardinality(keep) : managed'[n] = managed[InOrder(keep)[n]]
       /\ \A i \in keep : \E n \in 1..Cardinality(keep) : InOrder(keep)[n] = i
  BY <1>2, <1>13, PickedIs
<1>15. ASSUME NEW q \in Panels \ {p}, q \in ToSet(managed) PROVE q \in ToSet(managed')
  <2>1. PICK i \in DOMAIN managed : managed[i] = q
    BY <1>15 DEF ToSet
  <2>2. i \in keep
    BY <1>12, <2>1
  <2>3. PICK n \in 1..Cardinality(keep) : InOrder(keep)[n] = i
    BY <1>14, <2>2
  <2>4. n \in DOMAIN managed' /\ managed'[n] = q
    BY <1>14, <2>1, <2>3
  <2> QED
    BY <2>4 DEF ToSet
<1>16. PanelsTyped' /\ news' # <<>>
  BY <1>2, <1>7, <1>11, <1>14, JoinedIs DEF PanelsTyped
<1>17. ASSUME NEW q \in Panels PROVE PanelKnown(q)'
  <2>1. PanelKnown(q)
    BY DEF PanelsInv
  <2>2. CASE q # p
    <3>1. Silent(more, q) /\ \A k \in DOMAIN more : ~Tells(more[k], q)
      BY <1>7, <2>2 DEF Silent, Tells
    <3>2. panels[q].alive => Agreed(news', q, panels[q].mapped, placed[q].mapped) /\ Coming(news', managed, q)
      BY <1>2, <1>7, <2>1, <3>1, AgreedMore, ComingMore DEF PanelKnown
    <3>3. Coming(news', managed, q) => Coming(news', managed', q)
      BY <1>15, <2>2 DEF Coming
    <3>4. ~panels[q].alive /\ ~panels[q].gone => Silent(news', q) /\ ~panels[q].mapped /\ ~placed[q].mapped
      BY <1>2, <1>7, <2>1, <3>1, SilentMore DEF PanelKnown
    <3> QED
      BY <1>11, <2>2, <3>2, <3>3, <3>4 DEF PanelKnown
  <2>3. CASE q = p
    BY <1>9, <1>11, <2>3 DEF PanelKnown
  <2> QED
    BY <2>2, <2>3
<1> QED
  BY <1>16, <1>17 DEF PanelsInv

\* Every surface of the output is closed, and those that were mapped are said to
\* be no more.
LEMMA CloseOutputKeeps ==
    ASSUME PanelsInv, CloseOutput
    PROVE  PanelsInv'
<1>1. PICK T : PanelsIn(T)
  BY DEF PanelsInv, PanelsTyped
<1>2. news \in Seq(LayerSurfaceEvent) /\ managed \in Seq(Panels)
  BY DEF PanelsInv, PanelsTyped
<1>3. PICK those : those = {i \in DOMAIN managed : panels[managed[i]].mapped}
  OBVIOUS
<1>4. PICK unmapped : unmapped = Picked(managed, those)
  OBVIOUS
<1>5. /\ unmapped \in Seq(Panels) /\ DOMAIN unmapped = 1..Cardinality(those)
      /\ \A n \in DOMAIN unmapped : InOrder(those)[n] \in those /\ unmapped[n] = managed[InOrder(those)[n]]
      /\ \A i \in those : \E n \in DOMAIN unmapped : InOrder(those)[n] = i
  <2>1. those \in SUBSET (DOMAIN managed)
    BY <1>3
  <2> QED
    BY <1>2, <1>4, <2>1, PickedIs
<1>6. PICK more : more = [i \in 1..Len(unmapped) |-> [kind |-> "Unmap", of |-> unmapped[i]]]
  OBVIOUS
<1>7. /\ DOMAIN unmapped = 1..Len(unmapped) /\ Len(unmapped) \in Nat
      /\ \A k \in DOMAIN unmapped : unmapped[k] \in Panels
  <2>1. unmapped \in Seq(Panels)
    BY <1>5
  <2> QED
    BY <2>1
<1>8. \A k \in DOMAIN unmapped : more[k] \in LayerSurfaceEvent /\ more[k].kind = "Unmap" /\ more[k].of = unmapped[k]
  <2> SUFFICES ASSUME NEW k \in DOMAIN unmapped
               PROVE  more[k] \in LayerSurfaceEvent /\ more[k].kind = "Unmap" /\ more[k].of = unmapped[k]
    OBVIOUS
  <2>1. more[k] = [kind |-> "Unmap", of |-> unmapped[k]] /\ unmapped[k] \in Panels
    <3>1. unmapped[k] \in Panels /\ k \in 1..Len(unmapped)
      BY <1>7
    <3> QED
      BY <1>6, <3>1
  <2> QED
    BY <2>1 DEF LayerSurfaceEvent
<1>9. more \in Seq(LayerSurfaceEvent) /\ DOMAIN more = DOMAIN unmapped
  <2>1. PICK l \in Nat : l = Len(unmapped)
    BY <1>7
  <2>2. more \in [1..l -> LayerSurfaceEvent]
    BY <1>6, <1>7, <1>8, <2>1
  <2> QED
    BY <1>7, <2>1, <2>2
<1>10. news' = news \o more
  BY <1>3, <1>4, <1>6 DEF CloseOutput
<1>11. /\ panels' = [q \in Panels |-> IF q \in ToSet(managed)
                        THEN [panels[q] EXCEPT !.closed = TRUE, !.mapped = FALSE] ELSE panels[q]]
       /\ managed' = managed /\ placed' = placed /\ usableArea' = usableArea
  BY DEF CloseOutput
<1>12. ASSUME NEW q \in Panels
       PROVE  /\ panels'[q] \in Panel(T) /\ panels'[q].alive = panels[q].alive /\ panels'[q].gone = panels[q].gone
              /\ panels'[q].want = panels[q].want
              /\ q \in ToSet(managed) => ~panels'[q].mapped /\ panels'[q].closed
              /\ q \notin ToSet(managed) => panels'[q] = panels[q]
  <2>1. panels[q] \in Panel(T)
    BY <1>1 DEF PanelsIn
  <2>2. CASE q \in ToSet(managed)
    <3>1. panels'[q] = [panels[q] EXCEPT !.closed = TRUE, !.mapped = FALSE]
      BY <1>11, <2>2
    <3> QED
      BY <2>1, <2>2, <3>1 DEF Panel
  <2>3. CASE q \notin ToSet(managed)
    BY <1>11, <2>1, <2>3
  <2> QED
    BY <2>2, <2>3
<1>13. PanelsIn(T)'
  <2>1. panels' \in [Panels -> Panel(T)]
    BY <1>11, <1>12
  <2> QED
    BY <1>1, <1>11, <2>1 DEF PanelsIn
<1>14. PanelsTyped'
  BY <1>2, <1>9, <1>10, <1>11, <1>13, JoinedIs DEF PanelsTyped
<1>15. ASSUME NEW q \in Panels, NEW k \in DOMAIN more, more[k].of = q
       PROVE  q \in ToSet(managed) /\ panels[q].mapped
  <2>1. PICK i \in those : q = managed[i]
    BY <1>5, <1>8, <1>9, <1>15
  <2> QED
    BY <1>3, <2>1 DEF ToSet
<1>16. ASSUME NEW q \in Panels PROVE PanelKnown(q)'
  <2>1. PanelKnown(q)
    BY DEF PanelsInv
  <2>2. ASSUME panels[q].alive
        PROVE  Agreed(news', q, panels'[q].mapped, placed[q].mapped) /\ Coming(news', managed, q)
    <3>1. Agreed(news, q, panels[q].mapped, placed[q].mapped) /\ Coming(news, managed, q)
      BY <2>1, <2>2 DEF PanelKnown
    <3>2. Coming(news', managed, q)
      BY <1>2, <1>9, <1>10, <3>1, ComingMore
    <3>3. CASE q \in ToSet(managed) /\ panels[q].mapped
      <4>1. PICK i \in DOMAIN managed : managed[i] = q
        BY <3>3 DEF ToSet
      <4>2. i \in those
        BY <1>3, <3>3, <4>1
      <4>3. PICK k \in DOMAIN unmapped : unmapped[k] = q
        BY <1>5, <4>1, <4>2
      <4>4. /\ \E n \in DOMAIN more : Tells(more[n], q)
            /\ \A n \in DOMAIN more : Tells(more[n], q) => (more[n].kind = "Map" <=> panels'[q].mapped)
        BY <1>8, <1>9, <1>12, <3>3, <4>3 DEF Tells
      <4>5. Agreed(news', q, panels'[q].mapped, placed[q].mapped)
        BY <1>2, <1>9, <1>10, <4>4, AgreedNow
      <4> QED
        BY <3>2, <4>5
    <3>4. CASE ~(q \in ToSet(managed) /\ panels[q].mapped)
      <4>1. \A k \in DOMAIN more : ~Tells(more[k], q)
        BY <1>15, <3>4 DEF Tells
      <4>2. Agreed(news', q, panels[q].mapped, placed[q].mapped)
        BY <1>2, <1>9, <1>10, <3>1, <4>1, AgreedMore
      <4>3. panels'[q].mapped <=> panels[q].mapped
        BY <1>12, <3>4
      <4>4. Agreed(news', q, panels'[q].mapped, placed[q].mapped)
        BY <4>2, <4>3 DEF Agreed
      <4> QED
        BY <3>2, <4>4
    <3> QED
      BY <3>3, <3>4
  <2>3. ASSUME ~panels[q].alive, ~panels[q].gone
        PROVE  Silent(news', q) /\ ~panels'[q].mapped /\ ~placed[q].mapped
    <3>1. Silent(news, q) /\ ~panels[q].mapped /\ ~placed[q].mapped
      BY <2>1, <2>3 DEF PanelKnown
    <3>2. Silent(more, q) /\ ~panels'[q].mapped
      BY <1>12, <1>15, <3>1 DEF Silent
    <3> QED
      BY <1>2, <1>9, <1>10, <3>1, <3>2, SilentMore
  <2> QED
    BY <1>11, <1>12, <2>2, <2>3 DEF PanelKnown
<1>17. ASSUME news' = <<>> PROVE FreshLayout' /\ \A q \in Panels : Answered(q)'
  <2>1. news = <<>>
    BY <1>2, <1>9, <1>10, <1>17, JoinedIs
  <2>2. Wanted' = Wanted
    BY <1>12 DEF Wanted
  <2>3. FreshLayout' <=> FreshLayout
    <3>1. Anew' = Anew
      BY <1>11, <2>2 DEF Anew
    <3> QED
      BY <1>11, <3>1 DEF FreshLayout
  <2>4. ASSUME NEW q \in Panels PROVE Answered(q)'
    <3>1. Answered(q)
      BY <2>1 DEF PanelsInv
    <3>2. CASE q \in ToSet(managed)
      BY <1>12, <3>2 DEF Answered
    <3>3. CASE q \notin ToSet(managed)
      BY <1>11, <1>12, <3>1, <3>3 DEF Answered
    <3> QED
      BY <3>2, <3>3
  <2> QED
    BY <2>1, <2>3, <2>4 DEF PanelsInv
<1> QED
  BY <1>14, <1>16, <1>17 DEF PanelsInv

\* The manager has no other surfaces than p, or had them before.
LEMMA ArrangeIs ==
    ASSUME NEW order, NEW wants, NEW mapped
    PROVE  DOMAIN Arrange(order, wants, mapped).box = ToSet(order)
  BY DEF Arrange

\* What a handled event leaves of it all.
LEMMA HandlePanelKeeps ==
    ASSUME PanelsInv, HandlePanel
    PROVE  PanelsInv'
<1>1. PICK T : PanelsIn(T)
  BY DEF PanelsInv, PanelsTyped
<1>2. news \in Seq(LayerSurfaceEvent) /\ managed \in Seq(Panels) /\ news # <<>>
  BY DEF PanelsInv, PanelsTyped, HandlePanel
<1>3. PICK e \in LayerSurfaceEvent : e = Head(news) /\ e = news[1]
  BY <1>2, HeadTailProperties
<1>4. PICK rest \in Seq(LayerSurfaceEvent) : rest = Tail(news) /\ news' = rest
  BY <1>2, HeadTailProperties DEF HandlePanel
<1>5. /\ DOMAIN news = 1..Len(news) /\ Len(news) \in Nat /\ 1 \in DOMAIN news
      /\ DOMAIN rest = 1..(Len(news) - 1)
      /\ \A i \in DOMAIN rest : i + 1 \in DOMAIN news /\ rest[i] = news[i + 1]
      /\ \A i \in DOMAIN news : i # 1 => i - 1 \in DOMAIN rest /\ news[i] = rest[i - 1]
  <2>1. Len(rest) = Len(news) - 1 /\ \A i \in 1..Len(rest) : rest[i] = news[i + 1]
    BY <1>2, <1>4, HeadTailProperties
  <2>2. DOMAIN news = 1..Len(news) /\ Len(news) \in Nat /\ Len(news) # 0
    BY <1>2
  <2>3. DOMAIN rest = 1..(Len(news) - 1)
    BY <2>1
  <2>4. \A i \in DOMAIN rest : i + 1 \in DOMAIN news /\ rest[i] = news[i + 1]
    BY <2>1, <2>2, <2>3
  <2>5. ASSUME NEW i \in DOMAIN news, i # 1 PROVE i - 1 \in DOMAIN rest /\ news[i] = rest[i - 1]
    <3>1. i - 1 \in DOMAIN rest /\ (i - 1) + 1 = i
      BY <2>2, <2>3, <2>5
    <3> QED
      BY <2>4, <3>1
  <2> QED
    BY <2>2, <2>3, <2>4, <2>5
<1>6. PICK order : order = IF e.kind = "Created" /\ panels[e.of].alive THEN Append(managed, e.of) ELSE managed
  OBVIOUS
<1>7. /\ order \in Seq(Panels) /\ ToSet(managed) \subseteq ToSet(order)
      /\ e.kind = "Created" /\ panels[e.of].alive => e.of \in ToSet(order)
  <2>1. CASE e.kind = "Created" /\ panels[e.of].alive
    <3>1. e.of \in Panels
      BY DEF LayerSurfaceEvent
    <3>2. /\ order \in Seq(Panels) /\ Len(order) = Len(managed) + 1 /\ Len(managed) \in Nat
          /\ \A i \in 1..Len(managed) : order[i] = managed[i]
          /\ order[Len(managed) + 1] = e.of
      BY <1>2, <1>6, <2>1, <3>1, AppendProperties
    <3>3. DOMAIN order = 1..(Len(managed) + 1) /\ DOMAIN managed = 1..Len(managed)
      BY <1>2, <3>2
    <3>4. \A i \in DOMAIN managed : i \in DOMAIN order /\ order[i] = managed[i]
      BY <3>2, <3>3
    <3>5. Len(managed) + 1 \in DOMAIN order
      BY <3>2, <3>3
    <3> QED
      BY <3>2, <3>4, <3>5 DEF ToSet
  <2>2. CASE ~(e.kind = "Created" /\ panels[e.of].alive)
    BY <1>2, <1>6, <2>2
  <2> QED
    BY <2>1, <2>2
<1>8. PICK mapped : mapped = [p \in ToSet(order) |-> IF p = e.of /\ e.kind \in Shows THEN e.kind = "Map"
                                                     ELSE placed[p].mapped]
  OBVIOUS
<1>9. managed' = order /\ LaidOut(order, mapped)
  BY <1>3, <1>6, <1>8 DEF HandlePanel, Shows
<1>10. PICK wants : wants = Wanted
  OBVIOUS
<1>11. PICK after : after = Arrange(order, wants, mapped)
  OBVIOUS
<1>12. /\ panels' = [p \in Panels |-> IF p \in ToSet(order) THEN Configured(panels[p], after.box[p].height)
                                      ELSE panels[p]]
       /\ placed' = [p \in Panels |->
              IF p \in ToSet(order)
              THEN [mapped |-> mapped[p], top |-> after.box[p].top, height |-> after.box[p].height]
              ELSE placed[p]]
       /\ usableArea' = after.usable
  BY <1>9, <1>10, <1>11 DEF LaidOut
<1>13. PICK U : U = T \cup {after.box[p].height : p \in ToSet(order)} \cup {after.box[p].top : p \in ToSet(order)}
  OBVIOUS
<1>14. PanelsIn(U) /\ \A p \in ToSet(order) : after.box[p].height \in U /\ after.box[p].top \in U
  <2>1. T \subseteq U
    BY <1>13
  <2> QED
    BY <1>1, <1>13, <2>1, Wider
<1>15. ASSUME NEW p \in Panels
       PROVE  /\ panels'[p] \in Panel(U) /\ panels'[p].alive = panels[p].alive /\ panels'[p].gone = panels[p].gone
              /\ panels'[p].mapped = panels[p].mapped /\ panels'[p].want = panels[p].want
              /\ panels'[p].committed = panels[p].committed /\ panels'[p].closed = panels[p].closed
              /\ p \in ToSet(order) /\ panels[p].committed /\ ~panels[p].closed =>
                    panels'[p].configured /\ panels'[p].told = after.box[p].height
  <2>1. PICK x : x = panels[p]
    OBVIOUS
  <2>2. x \in Panel(U)
    BY <1>14, <2>1 DEF PanelsIn
  <2>3. CASE p \in ToSet(order)
    <3>1. PICK h \in U : h = after.box[p].height
      BY <1>14, <2>3
    <3>2. PICK y : y = Configured(x, h)
      OBVIOUS
    <3>3. panels'[p] = y
      BY <1>12, <2>1, <2>3, <3>1, <3>2
    <3>4. /\ y \in Panel(U) /\ y.alive = x.alive /\ y.gone = x.gone /\ y.mapped = x.mapped
          /\ y.want = x.want /\ y.committed = x.committed /\ y.closed = x.closed
          /\ x.committed /\ ~x.closed => y.configured /\ y.told = h
      <4>1. CASE x.closed \/ ~x.committed \/ (x.configured /\ x.told = h)
        BY <2>2, <3>2, <4>1 DEF Configured
      <4>2. CASE ~(x.closed \/ ~x.committed \/ (x.configured /\ x.told = h))
        <5>1. y = [x EXCEPT !.configured = TRUE, !.told = h]
          BY <3>2, <4>2 DEF Configured
        <5> QED
          BY <2>2, <5>1 DEF Panel
      <4> QED
        BY <4>1, <4>2
    <3> QED
      BY <2>1, <3>1, <3>3, <3>4
  <2>4. CASE p \notin ToSet(order)
    BY <1>12, <2>1, <2>2, <2>4
  <2> QED
    BY <2>3, <2>4
<1>16. ASSUME NEW p \in Panels
       PROVE  /\ placed'[p] \in Slot(U)
              /\ p \in ToSet(order) => /\ placed'[p].mapped = mapped[p] /\ placed'[p].top = after.box[p].top
                                       /\ placed'[p].height = after.box[p].height
              /\ p \notin ToSet(order) => placed'[p] = placed[p]
  <2>1. placed[p] \in Slot(U)
    BY <1>14 DEF PanelsIn
  <2>2. CASE p \in ToSet(order)
    <3>1. placed'[p] = [mapped |-> mapped[p], top |-> after.box[p].top, height |-> after.box[p].height]
      BY <1>12, <2>2
    <3>2. mapped[p] \in BOOLEAN
      BY <1>8, <2>1, <2>2 DEF Slot
    <3>3. after.box[p].height \in U /\ after.box[p].top \in U
      BY <1>14, <2>2
    <3> QED
      BY <2>2, <3>1, <3>2, <3>3 DEF Slot
  <2>3. CASE p \notin ToSet(order)
    BY <1>12, <2>1, <2>3
  <2> QED
    BY <2>2, <2>3
<1>17. PanelsTyped'
  <2>1. panels' \in [Panels -> Panel(U)]
    BY <1>12, <1>15
  <2>2. placed' \in [Panels -> Slot(U)]
    BY <1>12, <1>16
  <2> QED
    BY <1>4, <1>7, <1>9, <2>1, <2>2 DEF PanelsTyped, PanelsIn
<1>18. ASSUME NEW p \in Panels PROVE PanelKnown(p)'
  <2>1. PanelKnown(p)
    BY DEF PanelsInv
  <2>2. ASSUME panels[p].alive
        PROVE  Agreed(rest, p, panels[p].mapped, placed'[p].mapped) /\ Coming(rest, order, p)
    <3>1. Agreed(news, p, panels[p].mapped, placed[p].mapped) /\ Coming(news, managed, p)
      BY <2>1, <2>2 DEF PanelKnown
    <3>2. Coming(rest, order, p)
      <4>1. CASE p \in ToSet(managed)
        BY <1>7, <4>1 DEF Coming
      <4>2. ASSUME NEW k \in DOMAIN news, news[k].kind = "Created", news[k].of = p,
                   \A j \in DOMAIN news : j < k => ~Tells(news[j], p)
            PROVE  Coming(rest, order, p)
        <5>1. CASE k = 1
          BY <1>3, <1>7, <2>2, <4>2, <5>1 DEF Coming
        <5>2. CASE k # 1
          <6>1. k - 1 \in DOMAIN rest /\ rest[k - 1] = news[k]
            BY <1>5, <5>2
          <6>2. ASSUME NEW j \in DOMAIN rest, j < k - 1 PROVE ~Tells(rest[j], p)
            <7>1. j + 1 \in DOMAIN news /\ rest[j] = news[j + 1] /\ j + 1 < k
              BY <1>5, <6>2
            <7> QED
              BY <4>2, <7>1
          <6> QED
            BY <4>2, <6>1, <6>2 DEF Coming
        <5> QED
          BY <5>1, <5>2
      <4> QED
        BY <3>1, <4>1, <4>2 DEF Coming
    <3>3. Tells(e, p) => p \in ToSet(managed)
      <4> SUFFICES ASSUME Tells(e, p), p \notin ToSet(managed) PROVE FALSE
        OBVIOUS
      <4>1. PICK k \in DOMAIN news : /\ news[k].kind = "Created"
                                     /\ \A j \in DOMAIN news : j < k => ~Tells(news[j], p)
        BY <3>1 DEF Coming
      <4>2. k # 1
        BY <1>3, <4>1 DEF Tells
      <4>3. 1 < k
        BY <1>5, <4>2
      <4> QED
        BY <1>3, <1>5, <4>1, <4>3
    <3>4. ASSUME NEW i \in DOMAIN rest, Tells(rest[i], p), \A j \in DOMAIN rest : j > i => ~Tells(rest[j], p)
          PROVE  rest[i].kind = "Map" <=> panels[p].mapped
      <4>1. i + 1 \in DOMAIN news /\ news[i + 1] = rest[i]
        BY <1>5
      <4>2. ASSUME NEW j \in DOMAIN news, j > i + 1 PROVE ~Tells(news[j], p)
        <5>1. j # 1 /\ j - 1 > i
          BY <1>5, <4>2
        <5>2. j - 1 \in DOMAIN rest /\ news[j] = rest[j - 1]
          BY <1>5, <5>1
        <5> QED
          BY <3>4, <5>1, <5>2
      <4> QED
        BY <3>1, <3>4, <4>1, <4>2 DEF Agreed
    <3>5. ASSUME \A i \in DOMAIN rest : ~Tells(rest[i], p)
          PROVE  placed'[p].mapped <=> panels[p].mapped
      <4>1. \A j \in DOMAIN news : j # 1 => ~Tells(news[j], p)
        BY <1>5, <3>5
      <4>2. CASE Tells(e, p)
        <5>1. \A j \in DOMAIN news : j > 1 => ~Tells(news[j], p)
          BY <1>5, <4>1
        <5>2. e.kind = "Map" <=> panels[p].mapped
          BY <1>3, <1>5, <3>1, <4>2, <5>1 DEF Agreed
        <5>3. p \in ToSet(order) /\ p = e.of /\ e.kind \in Shows
          BY <1>7, <3>3, <4>2 DEF Tells, Shows
        <5>4. placed'[p].mapped = (e.kind = "Map")
          BY <1>8, <1>16, <5>3
        <5> QED
          BY <5>2, <5>4
      <4>3. CASE ~Tells(e, p)
        <5>1. placed[p].mapped <=> panels[p].mapped
          BY <1>3, <3>1, <4>1, <4>3 DEF Agreed
        <5>2. placed'[p].mapped = placed[p].mapped
          BY <1>8, <1>16, <4>3 DEF Tells, Shows
        <5> QED
          BY <5>1, <5>2
      <4> QED
        BY <4>2, <4>3
    <3> QED
      BY <3>2, <3>4, <3>5 DEF Agreed
  <2>3. ASSUME ~panels[p].alive, ~panels[p].gone
        PROVE  Silent(rest, p) /\ ~panels[p].mapped /\ ~placed'[p].mapped
    <3>1. Silent(news, p) /\ ~panels[p].mapped /\ ~placed[p].mapped
      BY <2>1, <2>3 DEF PanelKnown
    <3>2. Silent(rest, p)
      BY <1>5, <3>1 DEF Silent
    <3>3. e.of # p
      BY <1>3, <1>5, <3>1 DEF Silent
    <3>4. placed'[p].mapped = placed[p].mapped
      BY <1>8, <1>16, <3>3
    <3> QED
      BY <3>1, <3>2, <3>4
  <2> QED
    BY <1>4, <1>9, <1>15, <2>2, <2>3 DEF PanelKnown
<1>19. ASSUME rest = <<>> PROVE FreshLayout' /\ \A p \in Panels : Answered(p)'
  <2>1. Wanted' = wants
    BY <1>10, <1>15 DEF Wanted
  <2>2. \A p \in ToSet(order) : p \in Panels
    BY <1>7 DEF ToSet
  <2>3. [p \in ToSet(order) |-> placed'[p].mapped] = mapped
    <3>1. \A p \in ToSet(order) : placed'[p].mapped = mapped[p]
      BY <1>16, <2>2
    <3>2. mapped = [p \in ToSet(order) |-> mapped[p]]
      BY <1>8
    <3> QED
      BY <3>1, <3>2
  <2>4. Anew' = after
    BY <1>9, <1>11, <2>1, <2>3 DEF Anew
  <2>5. DOMAIN after.box = ToSet(order)
    BY <1>11, ArrangeIs
  <2>6. IsFresh(usableArea', placed', after)
    BY <1>12, <1>16, <2>2, <2>5 DEF IsFresh
  <2>7. ASSUME NEW p \in Panels PROVE Answered(p)'
    <3> SUFFICES ASSUME panels[p].alive, panels[p].committed, ~panels[p].closed
                 PROVE  panels'[p].configured /\ panels'[p].told = placed'[p].height
      BY <1>15 DEF Answered
    <3>1. Coming(rest, order, p)
      BY <1>4, <1>9, <1>15, <1>18 DEF PanelKnown
    <3>2. p \in ToSet(order)
      <4>1. DOMAIN rest = {}
        BY <1>19
      <4> QED
        BY <3>1, <4>1 DEF Coming
    <3> QED
      BY <1>15, <1>16, <3>2
  <2> QED
    BY <2>4, <2>6, <2>7 DEF FreshLayout
<1> QED
  BY <1>4, <1>17, <1>18, <1>19 DEF PanelsInv

LEMMA NothingTakesNothing ==
    ASSUME NEW order, NEW wants, NEW mapped, Len(order) = 0
    PROVE  Left(order, wants, mapped)[0] = <<0, Height>>
<1> DEFINE step(left) ==
        [n \in 0..Len(order) |->
            IF n = 0 THEN <<0, Height>>
            ELSE IF mapped[order[n]] THEN Taken(wants[order[n]], left[n - 1])
            ELSE left[n - 1]]
<1>1. PICK start : start = [n \in {0} |-> <<0, Height>>]
  OBVIOUS
<1>2. 0..Len(order) = {0}
  <2>1. 0..0 = {0}
    BY SMT
  <2> QED
    BY <2>1
<1>3. start = step(start)
  BY <1>1, <1>2
<1>4. Left(order, wants, mapped) = CHOOSE left : left = step(left)
  BY DEF Left
<1>5. Left(order, wants, mapped) = step(Left(order, wants, mapped))
  <2> HIDE DEF step
  <2> QED
    BY <1>3, <1>4
<1>6. 0 \in 0..Len(order)
  BY <1>2
<1> QED
  BY <1>5, <1>6

LEMMA PanelsStart == ASSUME PanelsInit PROVE PanelsInv
<1>1. PICK T : T = {0, NoSize}
  OBVIOUS
<1>2. PICK x : x = [alive |-> FALSE, gone |-> FALSE, closed |-> FALSE, committed |-> FALSE, configured |-> FALSE,
                    mapped |-> FALSE, want |-> Unasked(0), told |-> NoSize]
  OBVIOUS
<1>3. x \in Panel(T) /\ ~x.alive /\ ~x.mapped /\ NotPlaced \in Slot(T) /\ ~NotPlaced.mapped
  BY <1>1, <1>2 DEF Panel, Slot, NotPlaced, AskedFor
<1>4. panels = [p \in Panels |-> x] /\ placed = [p \in Panels |-> NotPlaced]
  BY <1>2 DEF PanelsInit
<1>5. news = <<>> /\ managed = <<>> /\ usableArea = <<0, Height>>
  BY DEF PanelsInit
<1>6. PanelsTyped
  BY <1>3, <1>4, <1>5 DEF PanelsTyped, PanelsIn
<1>7. \A p \in Panels : PanelKnown(p) /\ Answered(p)
  BY <1>3, <1>4, <1>5 DEF PanelKnown, Silent, Answered
<1>8. FreshLayout
  <2>1. ToSet(managed) = {}
    BY <1>5 DEF ToSet
  <2>2. PICK wants : wants = Wanted
    OBVIOUS
  <2>3. PICK mapped : mapped = [p \in ToSet(managed) |-> placed[p].mapped]
    OBVIOUS
  <2>4. PICK sorted : sorted = Ordered(managed, wants)
    OBVIOUS
  <2>5. Len(sorted) = 0
    <3>1. Cardinality(ToSet(managed)) = 0
      BY <2>1, FS_EmptySet
    <3>2. DOMAIN sorted = 1..0
      BY <2>4, <3>1 DEF Ordered
    <3>3. sorted = <<>>
      BY <2>4, <3>1 DEF Ordered
    <3> QED
      BY <3>3
  <2>6. Left(sorted, wants, mapped)[0] = <<0, Height>>
    BY <2>5, NothingTakesNothing
  <2>7. Anew.usable = <<0, Height>>
    BY <2>2, <2>3, <2>4, <2>5, <2>6 DEF Anew, Arrange
  <2>8. DOMAIN Anew.box = {}
    BY <2>1, ArrangeIs DEF Anew
  <2> QED
    BY <1>5, <2>7, <2>8 DEF FreshLayout, IsFresh
<1> QED
  BY <1>6, <1>7, <1>8 DEF PanelsInv

LEMMA PanelsStep ==
    ASSUME PanelsInv, [PanelsNext]_panelVars
    PROVE  PanelsInv'
<1>1. CASE UNCHANGED panelVars
  BY <1>1, StandsStill
<1>2. CASE \E p \in Panels, w \in Wants :
              GetLayerSurface(p, w.layer) \/ InitialCommit(p, w) \/ \E b \in BOOLEAN : Commit(p, w, b)
  BY <1>2, GetLayerSurfaceKeeps, InitialCommitKeeps, CommitKeeps
<1>3. CASE \E p \in Panels : DestroyPanel(p)
  BY <1>3, DestroyPanelKeeps
<1>4. CASE HandlePanel \/ CloseOutput
  BY <1>4, HandlePanelKeeps, CloseOutputKeeps
<1> QED
  BY <1>1, <1>2, <1>3, <1>4 DEF PanelsNext

\* Whatever panels clients make, change and destroy, and in whatever order their
\* events are handled: once they are, the layout is the one a fresh look at them
\* would give, and every one of them was told its place in it (LayerManager,
\* shell/layer.cppm; LayerSurfaceEvent: "lay the output out again").
THEOREM PanelsAreLaidOut == PanelsSpec => []PanelsLaidOut
<1>1. PanelsInit => PanelsInv
  BY PanelsStart
<1>2. PanelsInv /\ [PanelsNext]_panelVars => PanelsInv'
  BY PanelsStep
<1>3. PanelsInv => PanelsLaidOut
  BY InvSaysLaidOut
<1> QED
  BY <1>1, <1>2, <1>3, PTL DEF PanelsSpec

-----------------------------------------------------------------------------
(* Taskbars.  What a client's handles say is compared with the windows, one *)
(* client at a time: a handle that is live is of a window that is shown,    *)
(* and the parent it names is live too.                                     *)

WinLife == [life : {"never", "made", "mapped", "gone"}, tracked : BOOLEAN, look : Looks,
            parent : Wins \cup {NoWin}]
Handle == [is : {"none", "live", "dropped"}, look : Looks, parent : Wins \cup {NoWin}]

\* What a client's handles hs say of w, when the windows are as in all.
SaysOf(all, hs, w) ==
    /\ hs[w].is = "live" => /\ Announced(all, w) /\ hs[w].look = all[w].look
                            /\ hs[w].parent \in {all[w].parent, NoWin}
    /\ hs[w].parent # NoWin => hs[hs[w].parent].is = "live"

Complete(all, hs) == \A w \in Wins : hs[w].is # "none" <=> Announced(all, w)

BarAgrees(bnd, all, hs) ==
    /\ hs \in [Wins -> Handle]
    /\ \A w \in Wins : SaysOf(all, hs, w)
    /\ bnd = "bound" => Complete(all, hs)
    /\ bnd = "no" => hs = [w \in Wins |-> NoHandle]

BarInv ==
    /\ wins \in [Wins -> WinLife] /\ binding \in [Watchers -> {"no", "bound", "stopped"}]
    /\ tracking \in BOOLEAN /\ asked \in Wins \cup {NoWin}
    /\ handle = [b \in Watchers |-> handle[b]]
    /\ \A b \in Watchers : BarAgrees(binding[b], wins, handle[b])

LEMMA NoHandleIs ==
    /\ NoHandle \in Handle /\ NoHandle.is = "none" /\ NoHandle.parent = NoWin
    /\ \A all, w : w \in Wins => SaysOf(all, [v \in Wins |-> NoHandle], w)
  BY DEF NoHandle, Handle, Looks, SaysOf

\* The handle for w is closed, and nothing else is said of the other windows.
LEMMA ClosedIs ==
    ASSUME NEW hs \in [Wins -> Handle], NEW w \in Wins, \A v \in Wins : hs[v].parent # NoWin => hs[hs[v].parent].is = "live"
    PROVE  /\ Closed(hs, w) \in [Wins -> Handle] /\ Closed(hs, w)[w] = NoHandle
           /\ \A v \in Wins \ {w} : /\ Closed(hs, w)[v].is = hs[v].is /\ Closed(hs, w)[v].look = hs[v].look
                                    /\ Closed(hs, w)[v].parent \in {hs[v].parent, NoWin} \ {w}
           /\ \A v \in Wins : Closed(hs, w)[v].parent # NoWin => Closed(hs, w)[Closed(hs, w)[v].parent].is = "live"
<1>1. ASSUME NEW v \in Wins \ {w}
      PROVE  /\ Closed(hs, w)[v] \in Handle
             /\ Closed(hs, w)[v].is = hs[v].is /\ Closed(hs, w)[v].look = hs[v].look
             /\ Closed(hs, w)[v].parent \in {hs[v].parent, NoWin} \ {w}
  <2>1. hs[v] \in Handle
    OBVIOUS
  <2>2. CASE hs[v].parent = w
    <3>1. Closed(hs, w)[v] = [hs[v] EXCEPT !.parent = NoWin]
      BY <2>2 DEF Closed
    <3> QED
      BY <2>1, <2>2, <3>1, TaskbarAssumption DEF Handle
  <2>3. CASE hs[v].parent # w
    BY <2>1, <2>3 DEF Closed
  <2> QED
    BY <2>2, <2>3
<1>2. Closed(hs, w)[w] = NoHandle
  BY DEF Closed
<1>3. Closed(hs, w) \in [Wins -> Handle]
  <2>1. \A v \in Wins : Closed(hs, w)[v] \in Handle
    BY <1>1, <1>2, NoHandleIs
  <2> QED
    BY <2>1 DEF Closed
<1>4. ASSUME NEW v \in Wins, Closed(hs, w)[v].parent # NoWin
      PROVE  Closed(hs, w)[Closed(hs, w)[v].parent].is = "live"
  <2>1. v \in Wins \ {w}
    BY <1>2, <1>4, NoHandleIs
  <2>2. Closed(hs, w)[v].parent = hs[v].parent /\ hs[v].parent # w /\ hs[v].parent # NoWin
    BY <1>1, <1>4, <2>1
  <2>3. hs[v].parent \in Wins \ {w} /\ hs[hs[v].parent].is = "live"
    BY <2>2 DEF Handle
  <2> QED
    BY <1>1, <2>2, <2>3
<1> QED
  BY <1>1, <1>2, <1>3, <1>4

\* What is said in detail of w is how w is.
LEMMA DetailsAre ==
    ASSUME NEW all \in [Wins -> WinLife], NEW hs \in [Wins -> Handle], NEW b \in Watchers, NEW w \in Wins,
           hs[w].is = "live", Announced(all, w),
           \A v \in Wins \ {w} : SaysOf(all, hs, v)
    PROVE  /\ Details(all, hs, b, w) \in [Wins -> Handle]
           /\ \A v \in Wins : /\ Details(all, hs, b, w)[v].is = hs[v].is
                              /\ SaysOf(all, Details(all, hs, b, w), v)
           /\ \A v \in Wins \ {w} : Details(all, hs, b, w)[v] = hs[v]
<1> DEFINE named == ParentSaid(all, hs, b, w)
           new == Details(all, hs, b, w)
<1>1. named \in {all[w].parent, NoWin} /\ named \in Wins \cup {NoWin} /\ (named # NoWin => hs[named].is = "live")
  BY DEF ParentSaid, WinLife
<1>2. all[w].look \in Looks /\ hs[w] \in Handle
  BY DEF WinLife
<1>3. new = [hs EXCEPT ![w].look = all[w].look, ![w].parent = named]
  BY DEF Details
<1> HIDE DEF named, new
<1>4. /\ new[w].is = hs[w].is /\ new[w].look = all[w].look /\ new[w].parent = named /\ new[w] \in Handle
      /\ \A v \in Wins \ {w} : new[v] = hs[v]
      /\ new \in [Wins -> Handle]
  BY <1>1, <1>2, <1>3 DEF Handle
<1>5. ASSUME NEW v \in Wins PROVE new[v].is = hs[v].is
  BY <1>4
<1>6. ASSUME NEW v \in Wins PROVE SaysOf(all, new, v)
  <2>1. CASE v = w
    BY <1>1, <1>4, <1>5, <2>1 DEF SaysOf
  <2>2. CASE v # w
    <3>1. SaysOf(all, hs, v) /\ new[v] = hs[v] /\ hs[v].parent \in Wins \cup {NoWin}
      BY <1>4, <2>2 DEF Handle
    <3> QED
      BY <1>5, <3>1 DEF SaysOf
  <2> QED
    BY <2>1, <2>2
<1> QED
  BY <1>4, <1>5, <1>6 DEF new

\* After a window has changed, the live handles for it say so.
LEMMA RefreshedAgree ==
    ASSUME BarInv, NEW all \in [Wins -> WinLife], NEW w \in Wins, wins' = all,
           \A v \in Wins \ {w} : all[v] = wins[v],
           all[w].life = wins[w].life /\ all[w].tracked = wins[w].tracked,
           handle' = Refreshed(all, {w}), UNCHANGED <<tracking, binding>>, asked' \in Wins \cup {NoWin}
    PROVE  BarInv'
<1>1. \A v \in Wins : Announced(all, v) = Announced(wins, v)
  BY DEF Announced
<1>2. ASSUME NEW b \in Watchers PROVE BarAgrees(binding'[b], wins', handle'[b])
  <2>1. /\ BarAgrees(binding[b], wins, handle[b]) /\ handle[b] \in [Wins -> Handle]
        /\ \A v \in Wins \ {w} : SaysOf(all, handle[b], v)
    BY <1>1 DEF BarInv, BarAgrees, SaysOf
  <2>2. CASE Announced(all, w) /\ handle[b][w].is = "live"
    <3> DEFINE new == Details(all, handle[b], b, w)
    <3>1. /\ new \in [Wins -> Handle] /\ \A v \in Wins : new[v].is = handle[b][v].is /\ SaysOf(all, new, v)
          /\ \A v \in Wins \ {w} : new[v] = handle[b][v]
      BY <2>1, <2>2, DetailsAre
    <3> HIDE DEF new
    <3>2. handle'[b] = new
      <4>1. handle'[b] = [v \in Wins |-> IF v \in {w} THEN new[v] ELSE handle[b][v]]
        BY <2>2 DEF Refreshed, new
      <4> QED
        BY <3>1, <4>1
    <3>3. handle[b] # [v \in Wins |-> NoHandle]
      BY <2>2, NoHandleIs
    <3> QED
      BY <1>1, <2>1, <3>1, <3>2, <3>3 DEF BarAgrees, Complete
  <2>3. CASE ~(Announced(all, w) /\ handle[b][w].is = "live")
    <3>1. handle'[b] = handle[b]
      BY <2>1, <2>3 DEF Refreshed
    <3>2. handle[b][w].is # "live"
      BY <1>1, <2>1, <2>3 DEF BarAgrees, SaysOf
    <3>3. \A v \in Wins : SaysOf(all, handle[b], v)
      BY <2>1, <3>2 DEF BarAgrees, SaysOf
    <3> QED
      BY <1>1, <2>1, <3>1, <3>3 DEF BarAgrees, Complete
  <2> QED
    BY <2>2, <2>3
<1>3. handle' = [b \in Watchers |-> handle'[b]]
  BY DEF Refreshed
<1> QED
  BY <1>2, <1>3 DEF BarInv

LEMMA BarsBegin == BarsInit => BarInv
<1> SUFFICES ASSUME BarsInit PROVE BarInv
  OBVIOUS
<1>1. wins \in [Wins -> WinLife] /\ \A w \in Wins : ~Announced(wins, w)
  BY DEF BarsInit, WinLife, Looks, Announced
<1>2. ASSUME NEW b \in Watchers PROVE BarAgrees(binding[b], wins, handle[b])
  <2>1. binding[b] = "no" /\ handle[b] = [w \in Wins |-> NoHandle]
    BY DEF BarsInit
  <2> QED
    BY <2>1, NoHandleIs DEF BarAgrees
<1> QED
  BY <1>1, <1>2 DEF BarsInit, BarInv

LEMMA MapAgrees ==
    ASSUME BarInv, NEW w \in Wins, Map(w)
    PROVE  BarInv'
<1> DEFINE all == [wins EXCEPT ![w].life = "mapped"]
<1>1. /\ wins' = all /\ wins[w].life = "made" /\ UNCHANGED <<tracking, binding, asked>>
      /\ handle' = IF wins[w].tracked THEN Announce(all, w) ELSE handle
      /\ wins \in [Wins -> WinLife]
  BY DEF Map, BarInv
<1>2. /\ all \in [Wins -> WinLife] /\ \A v \in Wins \ {w} : all[v] = wins[v]
      /\ all[w].look = wins[w].look /\ all[w].parent = wins[w].parent
      /\ all[w].life = "mapped" /\ all[w].tracked = wins[w].tracked
  BY <1>1 DEF WinLife
<1> HIDE DEF all
<1>3. /\ ~Announced(wins, w) /\ Announced(all, w) = wins[w].tracked
      /\ \A v \in Wins \ {w} : Announced(all, v) = Announced(wins, v)
  BY <1>1, <1>2 DEF Announced, WinLife
<1>4. ASSUME NEW b \in Watchers PROVE BarAgrees(binding'[b], all, handle'[b])
  <2>1. /\ BarAgrees(binding[b], wins, handle[b]) /\ handle[b] \in [Wins -> Handle]
        /\ handle[b][w].is # "live" /\ \A v \in Wins : SaysOf(all, handle[b], v)
    BY <1>2, <1>3 DEF BarInv, BarAgrees, SaysOf
  <2>2. CASE wins[w].tracked /\ binding[b] = "bound"
    <3> DEFINE fresh == [handle[b] EXCEPT ![w] = Fresh(all, w)]
               new == Details(all, fresh, b, w)
    <3>1. Fresh(all, w) \in Handle /\ Fresh(all, w).is = "live" /\ Fresh(all, w).parent = NoWin
      BY <1>2, NoHandleIs DEF Fresh, Handle, WinLife, NoHandle
    <3>2. /\ fresh \in [Wins -> Handle] /\ fresh[w].is = "live"
          /\ \A v \in Wins \ {w} : fresh[v] = handle[b][v]
      BY <2>1, <3>1
    <3> HIDE DEF fresh
    <3>3. \A v \in Wins \ {w} : SaysOf(all, fresh, v)
      BY <2>1, <3>2 DEF SaysOf, Handle
    <3>4. /\ new \in [Wins -> Handle] /\ \A v \in Wins : new[v].is = fresh[v].is /\ SaysOf(all, new, v)
      BY <1>2, <1>3, <2>2, <3>2, <3>3, DetailsAre
    <3>5. handle'[b] = new
      BY <1>1, <2>2 DEF Announce, fresh
    <3> HIDE DEF new
    <3>6. Complete(all, new)
      <4>1. Complete(wins, handle[b])
        BY <2>1, <2>2 DEF BarAgrees
      <4>2. new[w].is # "none" /\ Announced(all, w)
        BY <1>3, <2>2, <3>2, <3>4
      <4>3. \A v \in Wins \ {w} : new[v].is = handle[b][v].is /\ Announced(all, v) = Announced(wins, v)
        BY <1>3, <3>2, <3>4
      <4> QED
        BY <4>1, <4>2, <4>3 DEF Complete
    <3> QED
      BY <1>1, <2>2, <3>4, <3>5, <3>6 DEF BarAgrees
  <2>3. CASE ~wins[w].tracked
    BY <1>1, <1>2, <1>3, <2>1, <2>3 DEF BarAgrees, Complete
  <2>4. CASE wins[w].tracked /\ binding[b] # "bound"
    <3>1. handle'[b] = handle[b]
      BY <1>1, <2>4 DEF Announce
    <3> QED
      BY <1>1, <2>1, <2>4, <3>1 DEF BarAgrees
  <2> QED
    BY <1>1, <1>2, <2>2, <2>3, <2>4 DEF WinLife
<1>5. handle' = [b \in Watchers |-> handle'[b]]
  BY <1>1 DEF Announce, BarInv
<1> QED
  BY <1>1, <1>2, <1>4, <1>5 DEF BarInv

\* w is withdrawn, and is not shown any more.
LEMMA WithdrawnAgree ==
    ASSUME BarInv, NEW w \in Wins, NEW all \in [Wins -> WinLife], NEW b \in Watchers,
           ~Announced(all, w),
           \A v \in Wins \ {w} : /\ all[v].life = wins[v].life /\ all[v].tracked = wins[v].tracked
                                 /\ all[v].look = wins[v].look
                                 /\ all[v].parent \in {wins[v].parent} \cup {NoWin}
                                 /\ wins[v].parent \notin {w} => all[v].parent = wins[v].parent
    PROVE  BarAgrees(binding[b], all, Closed(handle[b], w))
<1> DEFINE closed == Closed(handle[b], w)
<1>1. /\ BarAgrees(binding[b], wins, handle[b]) /\ handle[b] \in [Wins -> Handle]
      /\ \A v \in Wins : handle[b][v].parent # NoWin => handle[b][handle[b][v].parent].is = "live"
  BY DEF BarInv, BarAgrees, SaysOf
<1>2. /\ closed \in [Wins -> Handle] /\ closed[w] = NoHandle
      /\ \A v \in Wins \ {w} : /\ closed[v].is = handle[b][v].is /\ closed[v].look = handle[b][v].look
                               /\ closed[v].parent \in {handle[b][v].parent, NoWin} \ {w}
      /\ \A v \in Wins : closed[v].parent # NoWin => closed[closed[v].parent].is = "live"
  BY <1>1, ClosedIs
<1>3. binding[b] = "no" => closed = [v \in Wins |-> NoHandle]
  <2> SUFFICES ASSUME binding[b] = "no" PROVE closed = [v \in Wins |-> NoHandle]
    OBVIOUS
  <2>1. handle[b] = [v \in Wins |-> NoHandle]
    BY <1>1 DEF BarAgrees
  <2> QED
    BY <2>1, NoHandleIs, TaskbarAssumption DEF Closed
<1> HIDE DEF closed
<1>4. \A v \in Wins \ {w} : Announced(all, v) = Announced(wins, v)
  BY DEF Announced
<1>5. ASSUME NEW v \in Wins PROVE SaysOf(all, closed, v)
  <2>1. CASE v = w
    BY <1>2, <2>1, NoHandleIs DEF SaysOf
  <2>2. CASE v # w
    <3>1. SaysOf(wins, handle[b], v)
      BY <1>1 DEF BarAgrees
    <3>2. closed[v].is = "live" => Announced(all, v) /\ closed[v].look = all[v].look
      BY <1>2, <1>4, <2>2, <3>1 DEF SaysOf
    <3>3. closed[v].is = "live" => closed[v].parent \in {all[v].parent, NoWin}
      BY <1>2, <2>2, <3>1 DEF SaysOf
    <3> QED
      BY <1>2, <3>2, <3>3 DEF SaysOf
  <2> QED
    BY <2>1, <2>2
<1>6. binding[b] = "bound" => Complete(all, closed)
  BY <1>1, <1>2, <1>4, NoHandleIs DEF BarAgrees, Complete
<1> QED
  BY <1>2, <1>3, <1>5, <1>6 DEF BarAgrees, closed

LEMMA UnmapAgrees ==
    ASSUME BarInv, NEW w \in Wins, Unmap(w)
    PROVE  BarInv'
<1>1. /\ wins' = [wins EXCEPT ![w].life = "made"] /\ handle' = Withdraw(w)
      /\ UNCHANGED <<tracking, binding, asked>> /\ wins \in [Wins -> WinLife]
  BY DEF Unmap, BarInv
<1>2. /\ wins' \in [Wins -> WinLife] /\ ~Announced(wins', w)
      /\ \A v \in Wins \ {w} : wins'[v] = wins[v]
  BY <1>1 DEF WinLife, Announced
<1>3. ASSUME NEW b \in Watchers PROVE BarAgrees(binding'[b], wins', handle'[b])
  <2>1. PICK all \in [Wins -> WinLife] : all = wins'
    BY <1>2
  <2>2. BarAgrees(binding[b], all, Closed(handle[b], w))
    BY <1>2, <2>1, WithdrawnAgree
  <2>3. handle'[b] = Closed(handle[b], w) /\ binding'[b] = binding[b]
    BY <1>1 DEF Withdraw
  <2> QED
    BY <2>1, <2>2, <2>3
<1> QED
  BY <1>1, <1>2, <1>3 DEF BarInv, Withdraw

LEMMA DestroyAgrees ==
    ASSUME BarInv, NEW w \in Wins, Destroy(w)
    PROVE  BarInv'
<1>1. PICK all : all = [v \in Wins |-> IF v = w THEN [wins[w] EXCEPT !.life = "gone", !.parent = NoWin]
                                     ELSE IF wins[v].parent = w THEN [wins[v] EXCEPT !.parent = NoWin]
                                     ELSE wins[v]]
  OBVIOUS
<1>2. /\ wins' = all /\ UNCHANGED <<tracking, binding, asked>>
      /\ handle' = [b \in Watchers |-> [v \in Wins |->
               IF wins[v].parent = w /\ Announced(all, v) /\ Withdraw(w)[b][v].is = "live"
               THEN Details(all, Withdraw(w)[b], b, v)[v] ELSE Withdraw(w)[b][v]]]
      /\ wins \in [Wins -> WinLife]
  BY <1>1 DEF Destroy, BarInv
<1>3. /\ all \in [Wins -> WinLife] /\ ~Announced(all, w)
      /\ \A v \in Wins \ {w} : /\ all[v].life = wins[v].life /\ all[v].tracked = wins[v].tracked
                               /\ all[v].look = wins[v].look
                               /\ all[v].parent \in {wins[v].parent} \cup {NoWin}
                               /\ wins[v].parent = w => all[v].parent = NoWin
                               /\ wins[v].parent \notin {w} => all[v].parent = wins[v].parent
  <2>1. ASSUME NEW v \in Wins \ {w}
        PROVE  /\ all[v] \in WinLife
               /\ all[v].life = wins[v].life /\ all[v].tracked = wins[v].tracked
               /\ all[v].look = wins[v].look
               /\ all[v].parent \in {wins[v].parent} \cup {NoWin}
               /\ wins[v].parent = w => all[v].parent = NoWin
               /\ wins[v].parent \notin {w} => all[v].parent = wins[v].parent
    <3>1. wins[v] \in WinLife
      BY <1>2
    <3> QED
      BY <1>1, <3>1 DEF WinLife
  <2>2. all[w] \in WinLife /\ all[w].life = "gone"
    <3>1. wins[w] \in WinLife
      BY <1>2
    <3> QED
      BY <1>1, <3>1 DEF WinLife
  <2>3. \A v \in Wins : all[v] \in WinLife
    BY <2>1, <2>2
  <2> QED
    BY <1>1, <2>1, <2>2, <2>3 DEF Announced
<1>4. ASSUME NEW b \in Watchers PROVE BarAgrees(binding'[b], wins', handle'[b])
  <2>1. PICK closed : closed = Closed(handle[b], w)
    OBVIOUS
  <2>2. BarAgrees(binding[b], all, closed) /\ closed \in [Wins -> Handle]
    BY <1>3, <2>1, WithdrawnAgree DEF BarAgrees
  <2>3. closed = Withdraw(w)[b]
    BY <2>1 DEF Withdraw
  <2>4. ASSUME NEW v \in Wins PROVE handle'[b][v] = closed[v]
    <3>1. CASE wins[v].parent = w /\ Announced(all, v) /\ closed[v].is = "live"
      <4>1. v # w /\ all[v].parent = NoWin
        BY <1>3, <3>1
      <4>2. handle'[b][v] = Details(all, closed, b, v)[v]
        BY <1>2, <2>3, <3>1
      <4>3. closed[v] \in Handle /\ closed[v].parent = NoWin /\ closed[v].look = all[v].look
        BY <2>2, <3>1, <4>1 DEF BarAgrees, SaysOf
      <4>4. ParentSaid(all, closed, b, v) = NoWin
        BY <4>1 DEF ParentSaid
      <4> QED
        BY <2>2, <4>2, <4>3, <4>4 DEF Details, Handle
    <3>2. CASE ~(wins[v].parent = w /\ Announced(all, v) /\ closed[v].is = "live")
      BY <1>2, <2>3, <3>2
    <3> QED
      BY <3>1, <3>2
  <2>5. handle'[b] = closed
    BY <1>2, <2>2, <2>4
  <2> QED
    BY <1>2, <2>2, <2>5
<1> QED
  BY <1>2, <1>3, <1>4 DEF BarInv

LEMMA ChangesAgree ==
    ASSUME BarInv, NEW w \in Wins, NEW look \in Looks, Changes(w, look), asked' \in Wins \cup {NoWin}
    PROVE  BarInv'
<1>1. PICK all : all = [wins EXCEPT ![w].look = look]
  OBVIOUS
<1>2. all \in [Wins -> WinLife] /\ \A v \in Wins \ {w} : all[v] = wins[v]
  BY <1>1 DEF BarInv, WinLife
<1>3. all[w].life = wins[w].life /\ all[w].tracked = wins[w].tracked
  BY <1>1 DEF BarInv, WinLife
<1> QED
  BY <1>1, <1>2, <1>3, RefreshedAgree DEF Changes

LEMMA ParentAgrees ==
    ASSUME BarInv, NEW w \in Wins, NEW p \in Wins \cup {NoWin}, SetParent(w, p)
    PROVE  BarInv'
<1>1. PICK all : all = [wins EXCEPT ![w].parent = p]
  OBVIOUS
<1>2. all \in [Wins -> WinLife] /\ \A v \in Wins \ {w} : all[v] = wins[v]
  BY <1>1 DEF BarInv, WinLife
<1>3. all[w].life = wins[w].life /\ all[w].tracked = wins[w].tracked
  BY <1>1 DEF BarInv, WinLife
<1> QED
  BY <1>1, <1>2, <1>3, RefreshedAgree DEF SetParent, BarInv

\* Only the handles of b, and whether it listens, change.
LEMMA OneBarAgrees ==
    ASSUME BarInv, NEW b \in Watchers, NEW bnd \in {"no", "bound", "stopped"}, NEW hs,
           BarAgrees(bnd, wins, hs), binding' = [binding EXCEPT ![b] = bnd],
           handle' = [handle EXCEPT ![b] = hs], UNCHANGED <<wins, tracking, asked>>
    PROVE  BarInv'
<1>1. handle = [c \in Watchers |-> handle[c]] /\ binding \in [Watchers -> {"no", "bound", "stopped"}]
  BY DEF BarInv
<1>2. \A c \in Watchers : /\ handle'[c] = IF c = b THEN hs ELSE handle[c]
                          /\ binding'[c] = IF c = b THEN bnd ELSE binding[c]
  BY <1>1
<1>3. handle' = [c \in Watchers |-> handle'[c]] /\ binding' \in [Watchers -> {"no", "bound", "stopped"}]
  BY <1>1
<1>4. \A c \in Watchers : BarAgrees(binding'[c], wins', handle'[c])
  BY <1>2 DEF BarInv
<1> QED
  BY <1>3, <1>4 DEF BarInv

LEMMA BindAgrees ==
    ASSUME BarInv, NEW b \in Watchers, Bind(b)
    PROVE  BarInv'
<1>1. PICK elders \in SUBSET Listed :
        handle' = [handle EXCEPT ![b] = [w \in Wins |->
            IF w \notin Listed THEN @[w]
            ELSE IF b \in Bars /\ wins[w].parent \in elders
                 THEN [Fresh(wins, w) EXCEPT !.parent = wins[w].parent]
            ELSE Fresh(wins, w)]]
  BY DEF Bind
<1>2. PICK hs : hs = [w \in Wins |->
            IF w \notin Listed THEN handle[b][w]
            ELSE IF b \in Bars /\ wins[w].parent \in elders
                 THEN [Fresh(wins, w) EXCEPT !.parent = wins[w].parent]
            ELSE Fresh(wins, w)]
  OBVIOUS
<1>3. handle' = [handle EXCEPT ![b] = hs]
  BY <1>1, <1>2
<1>4. /\ binding[b] = "no" /\ binding' = [binding EXCEPT ![b] = "bound"]
      /\ UNCHANGED <<tracking, wins, asked>> /\ handle[b] = [w \in Wins |-> NoHandle]
      /\ wins \in [Wins -> WinLife] /\ Listed = {w \in Wins : Announced(wins, w)} /\ elders \subseteq Listed
  BY DEF Bind, BarInv, BarAgrees, Listed
<1>5. ASSUME NEW w \in Wins
      PROVE  /\ hs[w] \in Handle
             /\ w \notin Listed => hs[w] = NoHandle
             /\ w \in Listed => /\ hs[w].is = "live" /\ hs[w].look = wins[w].look
                                /\ hs[w].parent \in {wins[w].parent, NoWin}
                                /\ hs[w].parent # NoWin => hs[w].parent \in Listed
  <2>1. wins[w] \in WinLife
    BY <1>4
  <2>2. /\ Fresh(wins, w) \in Handle /\ Fresh(wins, w).is = "live" /\ Fresh(wins, w).parent = NoWin
        /\ Fresh(wins, w).look = wins[w].look
    BY <2>1, NoHandleIs DEF Fresh, Handle, WinLife, NoHandle
  <2>3. CASE w \notin Listed
    BY <1>2, <1>4, <2>3, NoHandleIs
  <2>4. CASE w \in Listed /\ ~(b \in Bars /\ wins[w].parent \in elders)
    BY <1>2, <2>2, <2>4
  <2>5. CASE w \in Listed /\ b \in Bars /\ wins[w].parent \in elders
    <3>1. hs[w] = [Fresh(wins, w) EXCEPT !.parent = wins[w].parent]
      BY <1>2, <2>5
    <3>2. wins[w].parent \in Wins /\ wins[w].parent \in Listed
      BY <1>4, <2>5
    <3> HIDE DEF Handle
    <3>3. hs[w].parent = wins[w].parent /\ hs[w].is = "live" /\ hs[w].look = wins[w].look /\ hs[w] \in Handle
      BY <2>2, <3>1, <3>2 DEF Handle
    <3> QED
      BY <2>5, <3>2, <3>3
  <2> QED
    BY <2>3, <2>4, <2>5
<1>6. BarAgrees("bound", wins, hs)
  <2>1. hs \in [Wins -> Handle]
    BY <1>2, <1>5
  <2>2. Complete(wins, hs)
    BY <1>4, <1>5, NoHandleIs DEF Complete
  <2>3. ASSUME NEW w \in Wins PROVE SaysOf(wins, hs, w)
    BY <1>4, <1>5, NoHandleIs DEF SaysOf
  <2> QED
    BY <2>1, <2>2, <2>3 DEF BarAgrees
<1> QED
  BY <1>3, <1>4, <1>6, OneBarAgrees

LEMMA StopAgrees ==
    ASSUME BarInv, NEW b \in Watchers, Stop(b)
    PROVE  BarInv'
<1>1. /\ UNCHANGED <<tracking, wins, asked>> /\ BarAgrees(binding[b], wins, handle[b])
      /\ handle = [c \in Watchers |-> handle[c]]
  BY DEF Stop, BarInv
<1>2. CASE b \in Bars
  <2>1. /\ binding' = [binding EXCEPT ![b] = "no"]
        /\ handle' = [handle EXCEPT ![b] = [w \in Wins |-> NoHandle]]
    BY <1>2 DEF Stop
  <2>2. BarAgrees("no", wins, [w \in Wins |-> NoHandle])
    BY NoHandleIs DEF BarAgrees
  <2> QED
    BY <1>1, <2>1, <2>2, OneBarAgrees
<1>3. CASE b \notin Bars
  <2>1. binding' = [binding EXCEPT ![b] = "stopped"] /\ handle' = handle
    BY <1>3 DEF Stop
  <2>2. handle' = [handle EXCEPT ![b] = handle[b]]
    BY <1>1, <2>1
  <2>3. BarAgrees("stopped", wins, handle[b])
    BY <1>1 DEF BarAgrees
  <2> QED
    BY <1>1, <2>1, <2>2, <2>3, OneBarAgrees
<1> QED
  BY <1>2, <1>3

LEMMA ForgetAgrees ==
    ASSUME BarInv, NEW b \in Watchers, NEW w \in Wins, Forget(b, w)
    PROVE  BarInv'
<1>1. PICK closed : closed = Closed(handle[b], w)
  OBVIOUS
<1>2. PICK hs : hs = [closed EXCEPT ![w].is = "dropped"]
  OBVIOUS
<1>3. /\ handle' = [handle EXCEPT ![b] = hs] /\ UNCHANGED <<tracking, wins, binding, asked>>
      /\ handle[b][w].is = "live" /\ BarAgrees(binding[b], wins, handle[b])
      /\ handle[b] \in [Wins -> Handle] /\ binding \in [Watchers -> {"no", "bound", "stopped"}]
      /\ \A v \in Wins : SaysOf(wins, handle[b], v)
  BY <1>1, <1>2 DEF Forget, BarInv, BarAgrees
<1>4. /\ closed \in [Wins -> Handle] /\ closed[w] = NoHandle
      /\ \A v \in Wins \ {w} : /\ closed[v].is = handle[b][v].is /\ closed[v].look = handle[b][v].look
                               /\ closed[v].parent \in {handle[b][v].parent, NoWin} \ {w}
      /\ \A v \in Wins : closed[v].parent # NoWin => closed[closed[v].parent].is = "live"
  BY <1>1, <1>3, ClosedIs DEF SaysOf
<1>5. /\ hs[w].is = "dropped" /\ hs[w].parent = NoWin /\ hs[w] \in Handle
      /\ \A v \in Wins \ {w} : hs[v] = closed[v]
      /\ hs \in [Wins -> Handle]
  BY <1>2, <1>4, NoHandleIs DEF Handle, NoHandle
<1>6. ASSUME NEW v \in Wins PROVE SaysOf(wins, hs, v)
  <2>1. CASE v = w
    BY <1>5, <2>1 DEF SaysOf
  <2>2. CASE v # w
    <3>1. hs[v] = closed[v] /\ SaysOf(wins, handle[b], v)
      BY <1>3, <1>5, <2>2
    <3>2. hs[v].parent # NoWin => hs[v].parent \in Wins \ {w} /\ closed[hs[v].parent].is = "live"
      BY <1>4, <2>2, <3>1 DEF Handle
    <3>3. hs[v].parent # NoWin => hs[hs[v].parent].is = "live"
      BY <1>5, <3>2
    <3> QED
      BY <1>4, <2>2, <3>1, <3>3 DEF SaysOf
  <2> QED
    BY <2>1, <2>2
<1>7. binding[b] # "no" /\ Announced(wins, w)
  BY <1>3, NoHandleIs DEF BarAgrees, SaysOf
<1>8. binding[b] = "bound" => Complete(wins, hs)
  BY <1>3, <1>4, <1>5, <1>7 DEF BarAgrees, Complete
<1>9. BarAgrees(binding[b], wins, hs) /\ binding' = [binding EXCEPT ![b] = binding[b]]
  BY <1>3, <1>5, <1>6, <1>7, <1>8 DEF BarAgrees
<1> QED
  BY <1>3, <1>9, OneBarAgrees

LEMMA BarsStep ==
    ASSUME BarInv, [BarsNext]_barVars
    PROVE  BarInv'
<1>1. ASSUME NEW w \in Wins, Create(w) PROVE BarInv'
  <2>1. /\ wins' = [wins EXCEPT ![w].life = "made", ![w].tracked = tracking]
        /\ wins[w].life = "never" /\ UNCHANGED <<tracking, binding, handle, asked>>
    BY <1>1 DEF Create
  <2>2. /\ wins' \in [Wins -> WinLife] /\ \A v \in Wins \ {w} : wins'[v] = wins[v]
        /\ ~Announced(wins', w) /\ ~Announced(wins, w)
    BY ZenonT(40), <2>1 DEF BarInv, WinLife, Announced
  <2>3. \A v \in Wins : Announced(wins', v) = Announced(wins, v)
    BY <2>2 DEF Announced
  <2>4. ASSUME NEW b \in Watchers PROVE BarAgrees(binding'[b], wins', handle'[b])
    <3>1. BarAgrees(binding[b], wins, handle[b])
      BY DEF BarInv
    <3>2. \A v \in Wins : SaysOf(wins', handle[b], v)
      BY <2>2, <2>3, <3>1 DEF BarAgrees, SaysOf
    <3> QED
      BY <2>1, <2>3, <3>1, <3>2 DEF BarAgrees, Complete
  <2> QED
    BY <2>1, <2>2, <2>4 DEF BarInv
<1>2. ASSUME NEW w \in Wins, Map(w) \/ Unmap(w) \/ Destroy(w) PROVE BarInv'
  BY <1>2, MapAgrees, UnmapAgrees, DestroyAgrees
<1>3. ASSUME NEW w \in Wins, NEW look \in Looks, Change(w, look) PROVE BarInv'
  BY <1>3, ChangesAgree DEF Change, BarInv
<1>4. ASSUME NEW w \in Wins, NEW p \in Wins \cup {NoWin}, SetParent(w, p) PROVE BarInv'
  BY <1>4, ParentAgrees
<1>5. CASE Track
  BY <1>5 DEF Track, BarInv
<1>6. CASE Serve
  <2>1. asked \in Wins /\ asked' = NoWin
    BY <1>6 DEF Serve, BarInv
  <2>2. ASSUME NEW look \in Looks, Changes(asked, look) PROVE BarInv'
    <3>1. PICK w \in Wins : w = asked
      BY <2>1
    <3> QED
      BY <2>1, <2>2, <3>1, ChangesAgree
  <2>3. CASE UNCHANGED <<tracking, wins, binding, handle>>
    BY <2>1, <2>3 DEF BarInv
  <2> QED
    BY <1>6, <2>2, <2>3 DEF Serve
<1>7. ASSUME NEW b \in Watchers, Bind(b) \/ Stop(b) PROVE BarInv'
  BY <1>7, BindAgrees, StopAgrees
<1>8. ASSUME NEW b \in Watchers, NEW w \in Wins, Forget(b, w) PROVE BarInv'
  BY <1>8, ForgetAgrees
<1>9. ASSUME NEW b \in Bars, NEW w \in Wins, Request(b, w) PROVE BarInv'
  BY <1>9 DEF Request, BarInv
<1>10. CASE UNCHANGED barVars
  BY <1>10 DEF barVars, BarInv
<1> QED
  BY <1>1, <1>2, <1>3, <1>4, <1>5, <1>6, <1>7, <1>8, <1>9, <1>10 DEF BarsNext

\* Every taskbar that listens has a handle for exactly the windows there are
\* (but those it dropped), each says what its window is, and the parent a
\* handle names is the window's and has a handle (desktop.rs).
THEOREM TaskbarsAreTrue == BarsSpec => []TaskbarsAgree
<1>1. BarInv => TaskbarsAgree
  BY DEF BarInv, BarAgrees, SaysOf, Complete, TaskbarsAgree
<1>2. BarInv /\ [BarsNext]_barVars => BarInv'
  BY BarsStep
<1> QED
  BY <1>1, <1>2, BarsBegin, PTL DEF BarsSpec

-----------------------------------------------------------------------------
(* Workspaces.  A pager that is bound was sent all there is, at any time;   *)
(* what it shows is what it was sent, unless the compositor owes a done.    *)

SpacesSeen == [s \in Spaces |-> IF Here(s) THEN [spaces[s] EXCEPT !.is = "live"] ELSE Unseen]
GroupsSeen == [g \in Groups |-> IF GroupHere(g) THEN "live" ELSE "none"]
EnteredBy(p) == [g \in Groups |-> GroupHere(g) /\ groups[g].output /\ pager[p].output]

Viewed(s, g, e) == [space |-> s, group |-> g, entered |-> e]

SentTo(p) == pager[p].bound => /\ sent[p] = Viewed(SpacesSeen, GroupsSeen, EnteredBy(p))
                               /\ ~dirty => shown[p] = sent[p]

SpacesTyped ==
    /\ spaces \in [Spaces -> [is : Presence, group : Groups \cup {NoGroup}, bits : Bits]]
    /\ groups \in [Groups -> [is : Presence, output : BOOLEAN, callback : BOOLEAN]]
    /\ pager \in [Pagers -> [bound : BOOLEAN, output : BOOLEAN]]
    /\ \A g \in Groups : groups[g].output => GroupHere(g) /\ groups[g].callback
    /\ \A s \in Spaces : Here(s) => spaces[s].group \in Groups
    /\ sent = [p \in Pagers |-> sent[p]] /\ shown = [p \in Pagers |-> shown[p]]
    /\ dirty \in BOOLEAN

PagerInv == SpacesTyped /\ \A p \in Pagers : SentTo(p)

LEMMA PresentIs ==
    ASSUME NEW p \in Pagers
    PROVE  Present(p) = Viewed(SpacesSeen, GroupsSeen, EnteredBy(p))
  BY DEF Present, Viewed, SpacesSeen, GroupsSeen, EnteredBy

LEMMA PagersBegin == SpacesInit => PagerInv
<1> SUFFICES ASSUME SpacesInit PROVE PagerInv
  OBVIOUS
<1>1. SpacesTyped
  BY DEF SpacesInit, SpacesTyped, Presence, Bits, GroupHere, Here
<1> QED
  BY <1>1 DEF SpacesInit, PagerInv, SentTo

\* Everybody who is bound is told what changed, and shows it at the next done.
LEMMA ToldAll ==
    ASSUME PagerInv, SpacesTyped', dirty' = TRUE, pager' = pager,
           \A p \in Pagers : pager[p].bound /\ sent[p] = Viewed(SpacesSeen, GroupsSeen, EnteredBy(p)) =>
               sent'[p] = Viewed(SpacesSeen', GroupsSeen', EnteredBy(p)')
    PROVE  PagerInv'
<1>1. ASSUME NEW p \in Pagers PROVE SentTo(p)'
  BY DEF PagerInv, SentTo
<1> QED
  BY <1>1 DEF PagerInv

LEMMA CreateGroupTold ==
    ASSUME PagerInv, NEW g \in Groups, CreateGroup(g)
    PROVE  PagerInv'
<1>1. /\ groups[g].is = "never" /\ groups' = [groups EXCEPT ![g].is = "here"]
      /\ UNCHANGED <<spaces, pager, shown>> /\ dirty' = TRUE /\ SpacesTyped
      /\ sent' = [p \in Pagers |-> IF pager[p].bound THEN [sent[p] EXCEPT !.group[g] = "live"] ELSE sent[p]]
  BY DEF CreateGroup, Changed, PagerInv, Tell
<1>2. SpacesTyped'
  <2>1. groups' \in [Groups -> [is : Presence, output : BOOLEAN, callback : BOOLEAN]]
    BY <1>1 DEF SpacesTyped, Presence
  <2>2. \A h \in Groups : groups'[h].output => GroupHere(h)' /\ groups'[h].callback
    <3>1. ASSUME NEW h \in Groups, h # g PROVE groups'[h] = groups[h]
      BY <1>1, <3>1 DEF SpacesTyped
    <3>2. ~groups'[g].output
      BY <1>1 DEF SpacesTyped, GroupHere
    <3> QED
      BY <1>1, <3>1, <3>2 DEF SpacesTyped, GroupHere
  <2>3. sent' = [p \in Pagers |-> sent'[p]] /\ shown' = [p \in Pagers |-> shown'[p]]
    BY <1>1 DEF SpacesTyped
  <2> QED
    BY <1>1, <2>1, <2>2, <2>3 DEF SpacesTyped, Here
<1>3. GroupsSeen' = [GroupsSeen EXCEPT ![g] = "live"] /\ SpacesSeen' = SpacesSeen
  BY <1>1 DEF SpacesTyped, GroupsSeen, GroupHere, SpacesSeen, Here
<1>4. ASSUME NEW p \in Pagers PROVE EnteredBy(p)' = EnteredBy(p)
  BY <1>1 DEF SpacesTyped, GroupHere, EnteredBy
<1>5. ASSUME NEW p \in Pagers, pager[p].bound, sent[p] = Viewed(SpacesSeen, GroupsSeen, EnteredBy(p))
      PROVE  sent'[p] = Viewed(SpacesSeen', GroupsSeen', EnteredBy(p)')
  <2>1. sent'[p] = [Viewed(SpacesSeen, GroupsSeen, EnteredBy(p)) EXCEPT !.group[g] = "live"]
    BY <1>1, <1>5
  <2>2. sent'[p] = Viewed(SpacesSeen, [GroupsSeen EXCEPT ![g] = "live"], EnteredBy(p))
    BY <2>1 DEF Viewed
  <2> QED
    BY <1>3, <1>4, <2>2
<1> QED
  BY <1>1, <1>2, <1>5, ToldAll

LEMMA RemoveGroupTold ==
    ASSUME PagerInv, NEW g \in Groups, RemoveGroup(g)
    PROVE  PagerInv'
<1>1. /\ GroupHere(g) /\ groups' = [groups EXCEPT ![g].is = "removed", ![g].output = FALSE]
      /\ UNCHANGED <<spaces, pager, shown>> /\ dirty' = TRUE /\ SpacesTyped
      /\ sent' = [p \in Pagers |-> IF pager[p].bound
                     THEN [sent[p] EXCEPT !.group[g] = "none", !.entered[g] = FALSE] ELSE sent[p]]
  BY DEF RemoveGroup, Changed, PagerInv, Tell
<1>2. SpacesTyped'
  <2>1. groups' \in [Groups -> [is : Presence, output : BOOLEAN, callback : BOOLEAN]]
    <3>1. PICK r : r = [groups[g] EXCEPT !.is = "removed", !.output = FALSE]
      OBVIOUS
    <3>2. groups[g] \in [is : Presence, output : BOOLEAN, callback : BOOLEAN]
      BY <1>1 DEF SpacesTyped
    <3>3. r \in [is : Presence, output : BOOLEAN, callback : BOOLEAN]
      BY <3>1, <3>2 DEF Presence
    <3>4. groups' = [groups EXCEPT ![g] = r]
      BY <1>1, <3>1
    <3> QED
      BY <1>1, <3>3, <3>4 DEF SpacesTyped
  <2>2. \A h \in Groups : groups'[h].output => GroupHere(h)' /\ groups'[h].callback
    <3>1. ASSUME NEW h \in Groups, h # g PROVE groups'[h] = groups[h]
      BY <1>1, <3>1 DEF SpacesTyped
    <3>2. ~groups'[g].output
      BY <1>1 DEF SpacesTyped, GroupHere
    <3> QED
      BY <1>1, <3>1, <3>2 DEF SpacesTyped, GroupHere
  <2>3. sent' = [p \in Pagers |-> sent'[p]] /\ shown' = [p \in Pagers |-> shown'[p]]
    <3>1. sent' = [p \in Pagers |-> sent'[p]]
      BY Zenon, <1>1
    <3> QED
      BY <1>1, <3>1 DEF SpacesTyped
  <2> QED
    BY <1>1, <2>1, <2>2, <2>3 DEF SpacesTyped, Here
<1>3. GroupsSeen' = [GroupsSeen EXCEPT ![g] = "none"] /\ SpacesSeen' = SpacesSeen
  <2>1. groups[g] \in [is : Presence, output : BOOLEAN, callback : BOOLEAN]
    BY <1>1 DEF SpacesTyped
  <2>2. groups'[g].is = "removed" /\ \A h \in Groups \ {g} : groups'[h] = groups[h]
    <3>1. PICK r : r = [groups[g] EXCEPT !.is = "removed", !.output = FALSE]
      OBVIOUS
    <3>2. r.is = "removed"
      BY <2>1, <3>1
    <3>3. groups' = [groups EXCEPT ![g] = r]
      BY <1>1, <3>1
    <3> QED
      BY <1>1, <3>2, <3>3 DEF SpacesTyped
  <2>3. GroupsSeen' = [GroupsSeen EXCEPT ![g] = "none"]
    BY <2>2 DEF GroupsSeen, GroupHere
  <2>4. SpacesSeen' = SpacesSeen
    BY <1>1 DEF SpacesSeen, Here
  <2> QED
    BY <2>3, <2>4
<1>4. ASSUME NEW p \in Pagers PROVE EnteredBy(p)' = [EnteredBy(p) EXCEPT ![g] = FALSE]
  BY <1>1 DEF SpacesTyped, GroupHere, EnteredBy
<1>5. ASSUME NEW p \in Pagers, pager[p].bound, sent[p] = Viewed(SpacesSeen, GroupsSeen, EnteredBy(p))
      PROVE  sent'[p] = Viewed(SpacesSeen', GroupsSeen', EnteredBy(p)')
  <2>1. sent'[p] = [Viewed(SpacesSeen, GroupsSeen, EnteredBy(p)) EXCEPT !.group[g] = "none", !.entered[g] = FALSE]
    BY <1>1, <1>5
  <2>2. sent'[p] = Viewed(SpacesSeen, [GroupsSeen EXCEPT ![g] = "none"], [EnteredBy(p) EXCEPT ![g] = FALSE])
    BY <2>1 DEF Viewed
  <2> QED
    BY <1>3, <1>4, <2>2
<1> QED
  BY <1>1, <1>2, <1>5, ToldAll

LEMMA AddWorkspaceTold ==
    ASSUME PagerInv, NEW s \in Spaces, NEW g \in Groups, AddWorkspace(s, g)
    PROVE  PagerInv'
<1> DEFINE it == [is |-> "live", group |-> g, bits |-> {}]
<1>1. /\ GroupHere(g) /\ spaces' = [spaces EXCEPT ![s] = [is |-> "here", group |-> g, bits |-> {}]]
      /\ UNCHANGED <<groups, pager, shown>> /\ dirty' = TRUE /\ SpacesTyped
      /\ sent' = [p \in Pagers |-> IF pager[p].bound
                     THEN [sent[p] EXCEPT !.space[s] =
                             [is |-> "live", bits |-> {},
                              group |-> IF sent[p].group[g] = "live" THEN g ELSE NoGroup]]
                     ELSE sent[p]]
  BY DEF AddWorkspace, Changed, PagerInv, Tell
<1>2. SpacesTyped'
  BY <1>1 DEF SpacesTyped, Presence, GroupHere, Here, Bits
<1>3. GroupsSeen' = GroupsSeen /\ SpacesSeen' = [SpacesSeen EXCEPT ![s] = it]
  <2>1. spaces'[s] = [is |-> "here", group |-> g, bits |-> {}] /\ \A t \in Spaces \ {s} : spaces'[t] = spaces[t]
    BY <1>1 DEF SpacesTyped
  <2>2. Here(s)' /\ [spaces'[s] EXCEPT !.is = "live"] = it
    BY <2>1 DEF Here
  <2> HIDE DEF it
  <2>3. SpacesSeen' = [SpacesSeen EXCEPT ![s] = it]
    BY <2>1, <2>2 DEF SpacesSeen, Here
  <2>4. GroupsSeen' = GroupsSeen
    BY <1>1 DEF GroupsSeen, GroupHere
  <2> QED
    BY <2>3, <2>4
<1>4. \A p \in Pagers : EnteredBy(p)' = EnteredBy(p)
  BY <1>1 DEF GroupHere, EnteredBy
<1>5. ASSUME NEW p \in Pagers, pager[p].bound, sent[p] = Viewed(SpacesSeen, GroupsSeen, EnteredBy(p))
      PROVE  sent'[p] = Viewed(SpacesSeen', GroupsSeen', EnteredBy(p)')
  <2>1. sent[p].group[g] = "live"
    BY <1>1, <1>5 DEF Viewed, GroupsSeen
  <2>2. sent'[p] = [Viewed(SpacesSeen, GroupsSeen, EnteredBy(p)) EXCEPT !.space[s] = it]
    BY <1>1, <1>5, <2>1
  <2>3. sent'[p] = Viewed([SpacesSeen EXCEPT ![s] = it], GroupsSeen, EnteredBy(p))
    BY <2>2 DEF Viewed
  <2> QED
    BY <1>3, <1>4, <2>3
<1> QED
  BY <1>1, <1>2, <1>5, ToldAll

LEMMA RemoveWorkspaceTold ==
    ASSUME PagerInv, NEW s \in Spaces, RemoveWorkspace(s)
    PROVE  PagerInv'
<1>1. /\ spaces' = [spaces EXCEPT ![s] = [is |-> "removed", group |-> NoGroup, bits |-> {}]]
      /\ UNCHANGED <<groups, pager, shown>> /\ dirty' = TRUE /\ SpacesTyped
      /\ sent' = [p \in Pagers |-> IF pager[p].bound THEN [sent[p] EXCEPT !.space[s] = Unseen] ELSE sent[p]]
  BY DEF RemoveWorkspace, Changed, PagerInv, Tell
<1>2. SpacesTyped'
  BY <1>1 DEF SpacesTyped, Presence, GroupHere, Here, Bits
<1>3. GroupsSeen' = GroupsSeen /\ SpacesSeen' = [SpacesSeen EXCEPT ![s] = Unseen]
  BY <1>1 DEF SpacesTyped, GroupsSeen, GroupHere, SpacesSeen, Here
<1>4. \A p \in Pagers : EnteredBy(p)' = EnteredBy(p)
  BY <1>1 DEF GroupHere, EnteredBy
<1>5. ASSUME NEW p \in Pagers, pager[p].bound, sent[p] = Viewed(SpacesSeen, GroupsSeen, EnteredBy(p))
      PROVE  sent'[p] = Viewed(SpacesSeen', GroupsSeen', EnteredBy(p)')
  <2>1. sent'[p] = [Viewed(SpacesSeen, GroupsSeen, EnteredBy(p)) EXCEPT !.space[s] = Unseen]
    BY <1>1, <1>5
  <2>2. sent'[p] = Viewed([SpacesSeen EXCEPT ![s] = Unseen], GroupsSeen, EnteredBy(p))
    BY <2>1 DEF Viewed
  <2> QED
    BY <1>3, <1>4, <2>2
<1> QED
  BY <1>1, <1>2, <1>5, ToldAll

LEMMA SetBitsTold ==
    ASSUME PagerInv, NEW bits, \A s \in Spaces : bits[s] \in Bits, SetBits(bits)
    PROVE  PagerInv'
<1>1. PICK new \in SUBSET Spaces : new = {s \in Spaces : Here(s) /\ spaces[s].bits # bits[s]}
  OBVIOUS
<1> DEFINE of(v) == [s \in Spaces |-> IF s \in new THEN [v[s] EXCEPT !.bits = bits[s]] ELSE v[s]]
<1>2. /\ spaces' = [s \in Spaces |-> IF s \in new THEN [spaces[s] EXCEPT !.bits = bits[s]] ELSE spaces[s]]
      /\ UNCHANGED <<groups, pager, shown>> /\ dirty' = TRUE /\ SpacesTyped
      /\ sent' = [p \in Pagers |-> IF pager[p].bound
                     THEN [sent[p] EXCEPT !.space = of(sent[p].space)] ELSE sent[p]]
  BY <1>1 DEF SetBits, Changed, PagerInv, Tell
<1>3. \A s \in Spaces : /\ spaces'[s].is = spaces[s].is /\ spaces'[s].group = spaces[s].group
                        /\ spaces'[s] \in [is : Presence, group : Groups \cup {NoGroup}, bits : Bits]
                        /\ spaces'[s] = IF s \in new THEN [spaces[s] EXCEPT !.bits = bits[s]] ELSE spaces[s]
  BY <1>2 DEF SpacesTyped
<1>4. SpacesTyped'
  <2>1. spaces' \in [Spaces -> [is : Presence, group : Groups \cup {NoGroup}, bits : Bits]]
    BY <1>2, <1>3
  <2> QED
    BY <1>2, <1>3, <2>1 DEF SpacesTyped, GroupHere, Here
<1>5. GroupsSeen' = GroupsSeen /\ \A p \in Pagers : EnteredBy(p)' = EnteredBy(p)
  BY <1>2 DEF GroupsSeen, GroupHere, EnteredBy
<1>6. SpacesSeen' = of(SpacesSeen)
  <2>1. SpacesSeen' = [s \in Spaces |-> IF spaces'[s].is = "here" THEN [spaces'[s] EXCEPT !.is = "live"] ELSE Unseen]
    BY DEF SpacesSeen, Here
  <2>2. ASSUME NEW s \in Spaces PROVE SpacesSeen'[s] = of(SpacesSeen)[s]
    <3>1. spaces[s] \in [is : Presence, group : Groups \cup {NoGroup}, bits : Bits]
      BY <1>2 DEF SpacesTyped
    <3>2. CASE s \in new
      <4>1. SpacesSeen[s] = [spaces[s] EXCEPT !.is = "live"] /\ spaces[s].is = "here"
        BY <1>1, <3>2 DEF SpacesSeen, Here
      <4>2. SpacesSeen'[s] = [spaces'[s] EXCEPT !.is = "live"]
        BY <1>3, <2>1, <4>1
      <4>3. spaces'[s] = [spaces[s] EXCEPT !.bits = bits[s]] /\ of(SpacesSeen)[s] = [SpacesSeen[s] EXCEPT !.bits = bits[s]]
        BY <1>3, <3>2
      <4>4. [[spaces[s] EXCEPT !.bits = bits[s]] EXCEPT !.is = "live"] = [[spaces[s] EXCEPT !.is = "live"] EXCEPT !.bits = bits[s]]
        BY <3>1
      <4> QED
        BY <4>1, <4>2, <4>3, <4>4
    <3>3. CASE s \notin new
      BY <1>3, <2>1, <3>3 DEF SpacesSeen, Here
    <3> QED
      BY <3>2, <3>3
  <2> QED
    BY <2>1, <2>2
<1>7. ASSUME NEW p \in Pagers, pager[p].bound, sent[p] = Viewed(SpacesSeen, GroupsSeen, EnteredBy(p))
      PROVE  sent'[p] = Viewed(SpacesSeen', GroupsSeen', EnteredBy(p)')
  <2> HIDE DEF of
  <2>1. sent'[p] = [Viewed(SpacesSeen, GroupsSeen, EnteredBy(p)) EXCEPT !.space = of(SpacesSeen)]
    BY <1>2, <1>7 DEF Viewed
  <2>2. sent'[p] = Viewed(of(SpacesSeen), GroupsSeen, EnteredBy(p))
    BY <2>1 DEF Viewed
  <2> QED
    BY <1>5, <1>6, <2>2
<1> QED
  BY <1>2, <1>4, <1>7, ToldAll

LEMMA OnlyActiveIsBits ==
    ASSUME SpacesTyped, NEW t
    PROVE  \A s \in Spaces : OnlyActive(t)[s] \in Bits
  BY DEF SpacesTyped, OnlyActive, Bits

LEMMA CommitTold ==
    ASSUME PagerInv, CommitWorkspaces
    PROVE  PagerInv'
<1>1. /\ UNCHANGED <<sent, spaces, groups, pager>> /\ dirty' = FALSE /\ SpacesTyped
      /\ shown' = [p \in Pagers |-> IF p \in {q \in Pagers : pager[q].bound} THEN sent[p] ELSE shown[p]]
  BY DEF CommitWorkspaces, Done, PagerInv
<1>2. SpacesTyped'
  BY <1>1 DEF SpacesTyped, GroupHere, Here
<1>3. ASSUME NEW p \in Pagers PROVE SentTo(p)'
  BY <1>1 DEF PagerInv, SentTo, SpacesSeen, GroupsSeen, EnteredBy, Here, GroupHere
<1> QED
  BY <1>2, <1>3 DEF PagerInv

LEMMA AddOutputTold ==
    ASSUME PagerInv, NEW g \in Groups, GroupAddOutput(g)
    PROVE  PagerInv'
<1>1. /\ GroupHere(g) /\ groups' = [groups EXCEPT ![g].output = TRUE, ![g].callback = TRUE]
      /\ UNCHANGED <<spaces, pager>> /\ dirty' = TRUE /\ SpacesTyped
      /\ sent' = [p \in Pagers |-> IF pager[p].bound /\ pager[p].output
           THEN [sent[p] EXCEPT !.entered = [h \in Groups |->
                    sent[p].entered[h] \/ (h \in {g} /\ sent[p].group[h] = "live")]]
           ELSE sent[p]]
      /\ shown' = [p \in Pagers |-> shown'[p]]
  BY DEF GroupAddOutput, Entered, Done, PagerInv
<1>2. SpacesTyped'
  <2>1. groups' \in [Groups -> [is : Presence, output : BOOLEAN, callback : BOOLEAN]]
    <3>1. PICK r : r = [groups[g] EXCEPT !.output = TRUE, !.callback = TRUE]
      OBVIOUS
    <3>2. groups[g] \in [is : Presence, output : BOOLEAN, callback : BOOLEAN]
      BY <1>1 DEF SpacesTyped
    <3>3. r \in [is : Presence, output : BOOLEAN, callback : BOOLEAN]
      BY <3>1, <3>2 DEF Presence
    <3>4. groups' = [groups EXCEPT ![g] = r]
      BY <1>1, <3>1
    <3> QED
      BY <1>1, <3>3, <3>4 DEF SpacesTyped
  <2>2. \A h \in Groups : groups'[h].output => GroupHere(h)' /\ groups'[h].callback
    <3>1. ASSUME NEW h \in Groups, h # g PROVE groups'[h] = groups[h]
      BY <1>1, <3>1 DEF SpacesTyped
    <3>2. groups'[g].is = "here" /\ groups'[g].callback
      BY <1>1 DEF SpacesTyped, GroupHere
    <3> QED
      BY <1>1, <3>1, <3>2 DEF SpacesTyped, GroupHere
  <2>3. sent' = [p \in Pagers |-> sent'[p]] /\ shown' = [p \in Pagers |-> shown'[p]]
    BY <1>1 DEF SpacesTyped
  <2> QED
    BY <1>1, <2>1, <2>2, <2>3 DEF SpacesTyped, Here
<1>3. GroupsSeen' = GroupsSeen /\ SpacesSeen' = SpacesSeen
  BY <1>1 DEF SpacesTyped, GroupsSeen, GroupHere, SpacesSeen, Here
<1>4. ASSUME NEW p \in Pagers
      PROVE  EnteredBy(p)' = IF pager[p].output THEN [h \in Groups |-> EnteredBy(p)[h] \/ (h \in {g} /\ GroupsSeen[h] = "live")]
                             ELSE EnteredBy(p)
  <2>1. \A h \in Groups : /\ groups'[h].is = groups[h].is /\ groups[h].output \in BOOLEAN
                           /\ groups'[h].output = (h = g \/ groups[h].output)
    BY <1>1 DEF SpacesTyped
  <2>2. \A h \in Groups : GroupHere(h)' = GroupHere(h) /\ GroupHere(h) \in BOOLEAN
    BY <2>1 DEF GroupHere
  <2>3. pager' = pager
    BY <1>1
  <2>4. \A h \in Groups : (h \in {g} /\ GroupsSeen[h] = "live") = (h = g /\ GroupHere(h))
    BY DEF GroupsSeen
  <2>5. CASE pager[p].output
    <3>1. EnteredBy(p)' = [h \in Groups |-> GroupHere(h)' /\ groups'[h].output]
      BY <2>1, <2>3, <2>5 DEF EnteredBy
    <3>2. EnteredBy(p) = [h \in Groups |-> GroupHere(h) /\ groups[h].output]
      BY <2>1, <2>2, <2>5 DEF EnteredBy
    <3>3. ASSUME NEW h \in Groups
          PROVE  (GroupHere(h)' /\ groups'[h].output)
                   = (EnteredBy(p)[h] \/ (h \in {g} /\ GroupsSeen[h] = "live"))
      <4>1. EnteredBy(p)[h] = (GroupHere(h) /\ groups[h].output)
        BY <3>2
      <4> QED
        BY <2>1, <2>2, <2>4, <4>1, <1>1
    <3> QED
      BY <2>5, <3>1, <3>3
  <2>6. CASE ~pager[p].output
    BY <2>1, <2>2, <2>3, <2>6 DEF EnteredBy
  <2> QED
    BY <2>5, <2>6
<1>5. ASSUME NEW p \in Pagers, pager[p].bound, sent[p] = Viewed(SpacesSeen, GroupsSeen, EnteredBy(p))
      PROVE  sent'[p] = Viewed(SpacesSeen', GroupsSeen', EnteredBy(p)')
  <2>1. CASE pager[p].output
    <3>1. EnteredBy(p)' = [h \in Groups |-> sent[p].entered[h] \/ (h \in {g} /\ sent[p].group[h] = "live")]
      BY <1>4, <1>5, <2>1 DEF Viewed
    <3> QED
      BY <1>1, <1>3, <1>5, <2>1, <3>1 DEF Viewed
  <2>2. CASE ~pager[p].output
    BY <1>1, <1>3, <1>4, <1>5, <2>2
  <2> QED
    BY <2>1, <2>2
<1> QED
  BY <1>1, <1>2, <1>5, ToldAll

LEMMA RemoveOutputTold ==
    ASSUME PagerInv, NEW g \in Groups, GroupRemoveOutput(g)
    PROVE  PagerInv'
<1>1. /\ GroupHere(g) /\ groups' = [groups EXCEPT ![g].output = FALSE]
      /\ UNCHANGED <<spaces, pager, shown>> /\ dirty' = TRUE /\ SpacesTyped
      /\ sent' = [p \in Pagers |-> IF pager[p].bound THEN [sent[p] EXCEPT !.entered[g] = FALSE] ELSE sent[p]]
  BY DEF GroupRemoveOutput, Changed, PagerInv, Tell
<1>2. SpacesTyped'
  <2>1. groups' \in [Groups -> [is : Presence, output : BOOLEAN, callback : BOOLEAN]]
    BY ZenonT(40), <1>1 DEF SpacesTyped, Presence
  <2>2. \A h \in Groups : groups'[h].output => GroupHere(h)' /\ groups'[h].callback
    <3>1. ASSUME NEW h \in Groups, h # g PROVE groups'[h] = groups[h]
      BY <1>1, <3>1 DEF SpacesTyped
    <3>2. ~groups'[g].output
      BY <1>1 DEF SpacesTyped, GroupHere
    <3> QED
      BY <1>1, <3>1, <3>2 DEF SpacesTyped, GroupHere
  <2>3. sent' = [p \in Pagers |-> sent'[p]] /\ shown' = [p \in Pagers |-> shown'[p]]
    BY <1>1 DEF SpacesTyped
  <2> QED
    BY <1>1, <2>1, <2>2, <2>3 DEF SpacesTyped, Here
<1>3. GroupsSeen' = GroupsSeen /\ SpacesSeen' = SpacesSeen
  BY <1>1 DEF SpacesTyped, GroupsSeen, GroupHere, SpacesSeen, Here
<1>4. ASSUME NEW p \in Pagers PROVE EnteredBy(p)' = [EnteredBy(p) EXCEPT ![g] = FALSE]
  BY <1>1 DEF SpacesTyped, GroupHere, EnteredBy
<1>5. ASSUME NEW p \in Pagers, pager[p].bound, sent[p] = Viewed(SpacesSeen, GroupsSeen, EnteredBy(p))
      PROVE  sent'[p] = Viewed(SpacesSeen', GroupsSeen', EnteredBy(p)')
  <2>1. sent'[p] = [Viewed(SpacesSeen, GroupsSeen, EnteredBy(p)) EXCEPT !.entered[g] = FALSE]
    BY <1>1, <1>5
  <2>2. sent'[p] = Viewed(SpacesSeen, GroupsSeen, [EnteredBy(p) EXCEPT ![g] = FALSE])
    BY <2>1 DEF Viewed
  <2> QED
    BY <1>3, <1>4, <2>2
<1> QED
  BY <1>1, <1>2, <1>5, ToldAll

LEMMA BindOutputTold ==
    ASSUME PagerInv, NEW p \in Pagers, BindOutput(p)
    PROVE  PagerInv'
<1>1. PICK gs : gs = {g \in Groups : groups[g].callback /\ GroupHere(g) /\ groups[g].output}
  OBVIOUS
<1>2. PICK told : told = {q \in {p} : pager[q].bound /\ pager'[q].output}
  OBVIOUS
<1>3. /\ pager' = [pager EXCEPT ![p].output = TRUE] /\ ~pager[p].output
      /\ UNCHANGED <<spaces, groups, dirty>> /\ SpacesTyped
      /\ sent' = [q \in Pagers |-> IF q \in told
           THEN [sent[q] EXCEPT !.entered = [g \in Groups |->
                    sent[q].entered[g] \/ (g \in gs /\ sent[q].group[g] = "live")]]
           ELSE sent[q]]
      /\ shown' = [q \in Pagers |-> IF q \in (IF gs = {} THEN {} ELSE told) THEN sent'[q] ELSE shown[q]]
  BY <1>1, <1>2 DEF BindOutput, Entered, Done, PagerInv
<1>4. /\ SpacesTyped' /\ SpacesSeen' = SpacesSeen /\ GroupsSeen' = GroupsSeen
      /\ pager'[p].output /\ pager'[p].bound = pager[p].bound
      /\ \A q \in Pagers \ {p} : pager'[q] = pager[q]
  <2>1. pager' \in [Pagers -> [bound : BOOLEAN, output : BOOLEAN]] /\ pager'[p].output /\ pager'[p].bound = pager[p].bound
    BY <1>3 DEF SpacesTyped
  <2> QED
    BY <1>3, <2>1 DEF SpacesTyped, GroupHere, Here, SpacesSeen, GroupsSeen
<1>5. ASSUME NEW q \in Pagers, q # p PROVE SentTo(q)'
  <2>1. sent'[q] = sent[q] /\ shown'[q] = shown[q]
    BY <1>2, <1>3, <1>5
  <2> QED
    BY <1>3, <1>4, <1>5, <2>1 DEF PagerInv, SentTo, EnteredBy, GroupHere
<1>6. SentTo(p)'
  <2> SUFFICES ASSUME pager[p].bound
               PROVE  /\ sent'[p] = Viewed(SpacesSeen, GroupsSeen, EnteredBy(p)')
                      /\ ~dirty => shown'[p] = sent'[p]
    BY <1>3, <1>4 DEF SentTo
  <2>1. p \in told /\ sent[p] = Viewed(SpacesSeen, GroupsSeen, EnteredBy(p)) /\ (~dirty => shown[p] = sent[p])
    BY <1>2, <1>4 DEF PagerInv, SentTo
  <2>2. EnteredBy(p)' = [g \in Groups |-> EnteredBy(p)[g] \/ (g \in gs /\ GroupsSeen[g] = "live")]
    BY <1>1, <1>3, <1>4 DEF SpacesTyped, EnteredBy, GroupsSeen, GroupHere
  <2>3. sent'[p] = [sent[p] EXCEPT !.entered = EnteredBy(p)']
    BY <1>3, <2>1, <2>2 DEF Viewed
  <2>4. sent'[p] = Viewed(SpacesSeen, GroupsSeen, EnteredBy(p)')
    BY <2>1, <2>3 DEF Viewed
  <2>5. ~dirty => shown'[p] = sent'[p]
    <3>1. CASE gs = {}
      <4>1. EnteredBy(p)' = EnteredBy(p)
        BY <1>1, <1>3, <2>2, <3>1 DEF EnteredBy
      <4> QED
        BY <1>3, <2>1, <2>4, <3>1, <4>1
    <3>2. CASE gs # {}
      BY <1>3, <2>1, <3>2
    <3> QED
      BY <3>1, <3>2
  <2> QED
    BY <2>4, <2>5
<1> QED
  BY <1>4, <1>5, <1>6 DEF PagerInv

LEMMA PagerComesAndGoes ==
    ASSUME PagerInv, NEW p \in Pagers, PagerBinds(p) \/ PagerStops(p)
    PROVE  PagerInv'
<1>1. /\ UNCHANGED <<spaces, groups, dirty>> /\ SpacesTyped
      /\ pager' \in {[pager EXCEPT ![p].bound = TRUE], [pager EXCEPT ![p].bound = FALSE]}
      /\ sent' \in {[sent EXCEPT ![p] = Bound(p)], [sent EXCEPT ![p] = Blank]}
      /\ shown' = [q \in Pagers |-> shown'[q]]
      /\ \A q \in Pagers \ {p} : shown'[q] = shown[q]
  BY DEF PagerBinds, PagerStops, Done, PagerInv, SpacesTyped
<1>2. /\ pager' \in [Pagers -> [bound : BOOLEAN, output : BOOLEAN]]
      /\ \A q \in Pagers : pager'[q].output = pager[q].output
      /\ \A q \in Pagers \ {p} : pager'[q].bound = pager[q].bound /\ sent'[q] = sent[q]
      /\ sent' = [q \in Pagers |-> sent'[q]]
  <2>1. \A q \in Pagers : pager[q] \in [bound : BOOLEAN, output : BOOLEAN]
    BY <1>1 DEF SpacesTyped
  <2>2. PICK b \in BOOLEAN : pager' = [pager EXCEPT ![p].bound = b]
    BY <1>1
  <2>3. /\ pager' \in [Pagers -> [bound : BOOLEAN, output : BOOLEAN]]
        /\ \A q \in Pagers : pager'[q].output = pager[q].output
        /\ \A q \in Pagers \ {p} : pager'[q].bound = pager[q].bound
    BY <1>1, <2>1, <2>2 DEF SpacesTyped
  <2>4. sent' = [q \in Pagers |-> sent'[q]] /\ \A q \in Pagers \ {p} : sent'[q] = sent[q]
    BY <1>1 DEF SpacesTyped
  <2> QED
    BY <2>3, <2>4
<1>3. /\ SpacesTyped' /\ SpacesSeen' = SpacesSeen /\ GroupsSeen' = GroupsSeen
      /\ \A q \in Pagers : EnteredBy(q)' = EnteredBy(q)
  BY <1>1, <1>2 DEF SpacesTyped, GroupHere, Here, SpacesSeen, GroupsSeen, EnteredBy
<1>4. ASSUME NEW q \in Pagers, q # p PROVE SentTo(q)'
  BY <1>1, <1>2, <1>3, <1>4 DEF PagerInv, SentTo
<1>5. SentTo(p)'
  <2>1. CASE PagerBinds(p)
    <3>1. sent'[p] = Bound(p) /\ shown'[p] = sent'[p]
      BY <1>1, <2>1 DEF PagerBinds, Done, SpacesTyped
    <3> QED
      BY <1>3, <3>1, PresentIs DEF SentTo, Bound
  <2>2. CASE PagerStops(p)
    <3>1. ~pager'[p].bound
      BY <1>1, <2>2 DEF PagerStops, SpacesTyped
    <3> QED
      BY <3>1 DEF SentTo
  <2> QED
    BY <2>1, <2>2
<1> QED
  BY <1>3, <1>4, <1>5 DEF PagerInv

LEMMA PagersStill ==
    ASSUME PagerInv, UNCHANGED <<spaces, groups, pager, sent, shown, dirty>>
    PROVE  PagerInv'
<1>1. SpacesTyped'
  BY DEF PagerInv, SpacesTyped, GroupHere, Here
<1>2. ASSUME NEW p \in Pagers PROVE SentTo(p)'
  BY DEF PagerInv, SentTo, SpacesSeen, GroupsSeen, EnteredBy, Here, GroupHere
<1> QED
  BY <1>1, <1>2 DEF PagerInv

LEMMA SpacesStep ==
    ASSUME PagerInv, [SpacesNext]_spaceVars
    PROVE  PagerInv'
<1>1. SpacesTyped
  BY DEF PagerInv
<1>2. ASSUME NEW g \in Groups,
             CreateGroup(g) \/ RemoveGroup(g) \/ GroupAddOutput(g) \/ GroupRemoveOutput(g)
      PROVE  PagerInv'
  BY <1>2, CreateGroupTold, RemoveGroupTold, AddOutputTold, RemoveOutputTold
<1>3. ASSUME NEW s \in Spaces, NEW g \in Groups, AddWorkspace(s, g) PROVE PagerInv'
  BY <1>3, AddWorkspaceTold
<1>4. ASSUME NEW s \in Spaces, RemoveWorkspace(s) PROVE PagerInv'
  BY <1>4, RemoveWorkspaceTold
<1>5. ASSUME NEW s \in Spaces, ActivateWorkspace(s) PROVE PagerInv'
  BY <1>1, <1>5, OnlyActiveIsBits, SetBitsTold DEF ActivateWorkspace
<1>6. ASSUME NEW s \in Spaces, NEW b \in Bits, SetState(s, b) PROVE PagerInv'
  <2>1. PICK bits : bits = [t \in Spaces |-> IF t = s THEN b ELSE spaces[t].bits]
    OBVIOUS
  <2>2. SetBits(bits) /\ \A t \in Spaces : bits[t] \in Bits
    BY <1>1, <1>6, <2>1 DEF SetState, SpacesTyped
  <2> QED
    BY <2>2, SetBitsTold
<1>7. CASE CommitWorkspaces
  BY <1>7, CommitTold
<1>8. CASE ServePager
  <2>1. PICK s : s = Head(requests)
    OBVIOUS
  <2>2. CASE SetBits(OnlyActive(s))
    BY <1>1, <2>2, OnlyActiveIsBits, SetBitsTold
  <2>3. CASE UNCHANGED <<spaces, groups, pager, sent, shown, queued, dirty>>
    BY <2>3, PagersStill
  <2> QED
    BY <1>8, <2>1, <2>2, <2>3 DEF ServePager
<1>9. ASSUME NEW p \in Pagers, BindOutput(p) \/ PagerBinds(p) \/ PagerStops(p) PROVE PagerInv'
  BY <1>9, BindOutputTold, PagerComesAndGoes
<1>10. ASSUME NEW p \in Pagers, PagerCommit(p) \/ \E s \in Spaces : Ask(p, s) PROVE PagerInv'
  BY <1>10, PagersStill DEF PagerCommit, Ask
<1>11. CASE UNCHANGED spaceVars
  BY <1>11, PagersStill DEF spaceVars
<1> QED
  BY <1>2, <1>3, <1>4, <1>5, <1>6, <1>7, <1>8, <1>9, <1>10, <1>11 DEF SpacesNext

\* Once the compositor has committed what it changed, every pager that is bound
\* shows what there is (desktop.rs, WorkspaceManager).
THEOREM PagersAreTrue == SpacesSpec => []PagersAgree
<1>1. ASSUME PagerInv PROVE PagersAgree
  BY <1>1, PresentIs DEF PagerInv, SentTo, PagersAgree
<1>2. PagerInv => PagersAgree
  BY <1>1
<1>3. PagerInv /\ [SpacesNext]_spaceVars => PagerInv'
  BY SpacesStep
<1> QED
  BY <1>2, <1>3, PagersBegin, PTL DEF SpacesSpec

-----------------------------------------------------------------------------
(* The clipboard.  A change of owner is told to everybody in one step, so   *)
(* what is told last is true; an offer that is still valid is of the owner. *)

\* The last that the compositor heard, or will.
HeardLast == IF unread = <<>> THEN known ELSE unread[Len(unread)]

ValidOffers == \A m \in Managers : \A o \in views[m] : o.valid => o.of = selection

ClipInv ==
    /\ SelectTypeOK
    /\ OwnerKnows /\ FocusPastes /\ ValidOffers /\ ManagersAgree
    /\ HeardLast = Visible(selection)

LEMMA ClipTypes ==
    ASSUME SelectTypeOK
    PROVE  /\ Nobody \notin Sources /\ Nobody \notin devices
           /\ \A s \in OwnerOrNot : Visible(s) \in OwnerOrNot
           /\ \A s \in OwnerOrNot : Given(s) \subseteq [of : Sources, valid : BOOLEAN]
           /\ \A s \in OwnerOrNot : \A gone : OfferFocused(Inert(gone), s) \in [Pasters -> OwnerOrNot]
<1>1. Nobody \notin Sources /\ Nobody \notin devices
  BY SelectionAssumption DEF SelectTypeOK
<1>2. formats \subseteq Sources
  BY DEF SelectTypeOK
<1>3. \A s \in OwnerOrNot : Visible(s) \in OwnerOrNot
  BY DEF Visible, OwnerOrNot
<1>4. ASSUME NEW s \in OwnerOrNot PROVE Given(s) \subseteq [of : Sources, valid : BOOLEAN]
  <2>1. CASE Visible(s) = Nobody
    BY <2>1 DEF Given
  <2>2. CASE Visible(s) # Nobody
    <3>1. s \in Sources
      BY <1>2, <2>2 DEF Visible
    <3>2. [of |-> s, valid |-> TRUE] \in [of : Sources, valid : BOOLEAN]
      BY <3>1
    <3> QED
      BY <2>2, <3>2 DEF Given
  <2> QED
    BY <2>1, <2>2
<1>5. ASSUME NEW s \in OwnerOrNot, NEW gone
      PROVE  OfferFocused(Inert(gone), s) \in [Pasters -> OwnerOrNot]
  BY <1>5 DEF OfferFocused, Inert, OwnerOrNot, SelectTypeOK
<1> QED
  BY <1>1, <1>3, <1>4, <1>5

LEMMA GivenIs ==
    ASSUME NEW s
    PROVE  /\ \A o \in Given(s) : o.of = s
           /\ Visible(s) # Nobody => \E o \in Given(s) : o.valid /\ o.of = s
<1> DEFINE it == [of |-> s, valid |-> TRUE]
<1>1. it.of = s /\ it.valid
  OBVIOUS
<1>2. CASE Visible(s) = Nobody
  BY <1>2 DEF Given
<1>3. CASE Visible(s) # Nobody
  <2>1. Given(s) = {it}
    BY <1>3 DEF Given
  <2> HIDE DEF it
  <2> QED
    BY <1>1, <2>1
<1> QED
  BY <1>2, <1>3

\* After a change everybody was told the new owner.
LEMMA ChangeIsTold ==
    ASSUME SelectTypeOK, NEW s \in OwnerOrNot, NEW watching \in SUBSET devices,
           SelectionChanged(s, watching)
    PROVE  /\ unread' \in Seq(OwnerOrNot) /\ unread' # <<>> /\ unread'[Len(unread')] = Visible(s)
           /\ views' \in [Managers -> SUBSET [of : Sources, valid : BOOLEAN]]
           /\ mirrored' \in [Managers -> OwnerOrNot]
           /\ \A m \in Managers : \A o \in views'[m] : o.valid => o.of = s
           /\ \A m \in Managers \cap watching :
                 /\ mirrored'[m] = Visible(s)
                 /\ Visible(s) # Nobody => \E o \in views'[m] : o.valid /\ o.of = s
<1>1. Visible(s) \in OwnerOrNot /\ Given(s) \subseteq [of : Sources, valid : BOOLEAN]
  BY ClipTypes
<1>2. unread \in Seq(OwnerOrNot) /\ unread' = Append(unread, Visible(s))
  BY DEF SelectTypeOK, SelectionChanged
<1>3. /\ unread' \in Seq(OwnerOrNot) /\ Len(unread') = Len(unread) + 1
      /\ unread'[Len(unread) + 1] = Visible(s)
  BY <1>1, <1>2, AppendProperties
<1>4. unread' # <<>> /\ unread'[Len(unread')] = Visible(s)
  BY <1>2, <1>3
<1>5. /\ views' = [m \in Managers |-> Invalidated(m) \cup IF m \in watching THEN Given(s) ELSE {}]
      /\ mirrored' = [m \in Managers |-> IF m \in watching THEN Visible(s) ELSE mirrored[m]]
  BY DEF SelectionChanged, Mirrored
<1>6. ASSUME NEW m \in Managers
      PROVE  /\ Invalidated(m) \subseteq [of : Sources, valid : BOOLEAN]
             /\ \A o \in Invalidated(m) : ~o.valid
             /\ \A o \in Given(s) : o.of = s
             /\ Visible(s) # Nobody => \E o \in Given(s) : o.valid /\ o.of = s
  <2>1. views[m] \subseteq [of : Sources, valid : BOOLEAN]
    BY DEF SelectTypeOK
  <2>2. /\ Invalidated(m) \subseteq [of : Sources, valid : BOOLEAN]
        /\ \A o \in Invalidated(m) : ~o.valid
    <3>1. ASSUME NEW o \in Invalidated(m)
          PROVE  o \in [of : Sources, valid : BOOLEAN] /\ ~o.valid
      <4>1. PICK v \in views[m] : o = [of |-> v.of, valid |-> FALSE]
        BY DEF Invalidated
      <4>2. v.of \in Sources
        BY <2>1
      <4> QED
        BY <4>1, <4>2
    <3> QED
      BY <3>1
  <2>3. /\ \A o \in Given(s) : o.of = s
        /\ Visible(s) # Nobody => \E o \in Given(s) : o.valid /\ o.of = s
    BY GivenIs
  <2> QED
    BY <2>2, <2>3
<1>7. views' \in [Managers -> SUBSET [of : Sources, valid : BOOLEAN]]
  BY <1>1, <1>5, <1>6
<1>8. mirrored' \in [Managers -> OwnerOrNot]
  BY <1>1, <1>5 DEF SelectTypeOK
<1>9. \A m \in Managers : \A o \in views'[m] : o.valid => o.of = s
  BY <1>5, <1>6
<1>10. \A m \in Managers \cap watching :
         /\ mirrored'[m] = Visible(s)
         /\ Visible(s) # Nobody => \E o \in views'[m] : o.valid /\ o.of = s
  BY <1>5, <1>6
<1> QED
  BY <1>3, <1>4, <1>7, <1>8, <1>9, <1>10

LEMMA ClipBegins == SelectInit => ClipInv
<1> SUFFICES ASSUME SelectInit PROVE ClipInv
  OBVIOUS
<1>1. SelectTypeOK
  BY SelectionAssumption DEF SelectInit, OwnersInit, PastersInit, ManagersInit, SelectTypeOK, OwnerOrNot
<1>2. OwnerKnows /\ FocusPastes /\ ValidOffers /\ ManagersAgree /\ HeardLast = Visible(selection)
  BY DEF SelectInit, OwnersInit, PastersInit, ManagersInit, OwnerKnows, FocusPastes, ValidOffers,
         ManagersAgree, HeardLast, Visible
<1> QED
  BY <1>1, <1>2 DEF ClipInv

LEMMA SetKeepsClip ==
    ASSUME ClipInv, NEW c \in Clients, NEW s \in OwnerOrNot, SetSelection(c, s)
    PROVE  ClipInv'
<1>1. /\ SelectTypeOK /\ s \in sources \cup {Nobody} /\ s # selection /\ sources \subseteq Sources
      /\ SelectionChanged(s, devices) /\ OwnerKnows
      /\ selection' = s /\ owners' = (owners \ {selection}) \cup ({s} \ {Nobody})
      /\ pasted' = OfferFocused(Inert({selection} \cap Wrapped), s)
      /\ spent' = spent \cup ({s} \cap Wrapped)
      /\ UNCHANGED <<sources, formats, focused, devices, known>>
  BY DEF ClipInv, SetSelection, ApplySelection, SelectTypeOK
<1>2. SelectTypeOK'
  <2>1. selection' \in sources' \cup {Nobody} /\ spent' \subseteq Wrapped /\ owners' \subseteq sources'
    BY <1>1 DEF SelectTypeOK
  <2>2. pasted' \in [Pasters -> OwnerOrNot]
    BY <1>1, ClipTypes
  <2> QED
    BY <1>1, <2>1, <2>2, ChangeIsTold DEF SelectTypeOK
<1>3. OwnerKnows'
  BY <1>1 DEF OwnerKnows
<1>4. FocusPastes'
  BY <1>1, SelectionAssumption DEF FocusPastes, OfferFocused, SelectionReceive, Inert, SelectTypeOK, Clients
<1>5. Visible(selection)' = Visible(s)
  BY <1>1 DEF Visible
<1>6. ValidOffers' /\ ManagersAgree' /\ HeardLast' = Visible(selection)'
  BY <1>1, <1>5, ChangeIsTold DEF ValidOffers, ManagersAgree, HeardLast
<1> QED
  BY <1>2, <1>3, <1>4, <1>6 DEF ClipInv

\* Sources go, of somebody who is not watching any more.
LEMMA GoneKeepsClip ==
    ASSUME ClipInv, NEW gone, NEW watching \in SUBSET devices, Destroyed(gone, watching),
           devices' = watching, watching \cap Pasters = devices \cap Pasters,
           UNCHANGED <<spent, focused, known>>
    PROVE  ClipInv'
<1>1. SelectTypeOK /\ selection \in OwnerOrNot /\ Nobody \in OwnerOrNot /\ Nobody \notin Sources
  BY ClipTypes DEF ClipInv, SelectTypeOK, OwnerOrNot
<1>2. sources' = sources \ gone /\ formats' = formats \ gone /\ owners' = owners \ gone
  BY DEF Destroyed
<1>3. OwnerKnows /\ ValidOffers /\ ManagersAgree /\ HeardLast = Visible(selection)
  BY DEF ClipInv
<1>4. focused \in watching <=> focused \in devices
  BY <1>1, ClipTypes DEF SelectTypeOK
<1>5. CASE selection \in gone
  <2>1. /\ selection' = Nobody /\ pasted' = OfferFocused(Inert(gone), Nobody)
        /\ SelectionChanged(Nobody, watching)
    BY <1>5 DEF Destroyed
  <2>2. pasted' \in [Pasters -> OwnerOrNot]
    BY <1>1, <2>1, ClipTypes
  <2>3. SelectTypeOK'
    BY <1>1, <1>2, <2>1, <2>2, ChangeIsTold DEF SelectTypeOK
  <2>4. OwnerKnows'
    BY <1>2, <1>3, <1>5, <2>1 DEF OwnerKnows
  <2>5. FocusPastes'
    BY <1>1, <1>4, <2>1, SelectionAssumption
       DEF FocusPastes, OfferFocused, SelectionReceive, Inert, SelectTypeOK, Clients
  <2>6. Visible(selection)' = Visible(Nobody) /\ Visible(Nobody) = Nobody
    BY <2>1 DEF Visible
  <2>7. ValidOffers' /\ ManagersAgree' /\ HeardLast' = Visible(selection)'
    BY <1>1, <2>1, <2>6, ChangeIsTold DEF ValidOffers, ManagersAgree, HeardLast
  <2> QED
    BY <2>3, <2>4, <2>5, <2>7 DEF ClipInv
<1>6. CASE selection \notin gone
  <2>1. pasted' = Inert(gone) /\ UNCHANGED <<selection, views, mirrored, unread>>
    BY <1>6 DEF Destroyed
  <2>2. SelectTypeOK'
    BY <1>1, <1>2, <1>6, <2>1 DEF SelectTypeOK, Inert, OwnerOrNot
  <2>3. OwnerKnows'
    BY <1>2, <1>3, <1>6, <2>1 DEF OwnerKnows
  <2>4. FocusPastes'
    BY <1>1, <1>4, <1>6, <2>1, ClipTypes, SelectionAssumption
       DEF ClipInv, FocusPastes, SelectionReceive, Inert, SelectTypeOK, Clients
  <2>5. Visible(selection)' = Visible(selection)
    BY <1>2, <1>6, <2>1 DEF Visible
  <2>6. ValidOffers' /\ ManagersAgree' /\ HeardLast' = Visible(selection)'
    BY <1>3, <2>1, <2>5 DEF ValidOffers, ManagersAgree, HeardLast
  <2> QED
    BY <2>2, <2>3, <2>4, <2>6 DEF ClipInv
<1> QED
  BY <1>5, <1>6

LEMMA GetKeepsClip ==
    ASSUME ClipInv, NEW c \in Clients, GetDevice(c)
    PROVE  ClipInv'
<1>1. /\ SelectTypeOK /\ selection \in OwnerOrNot /\ Nobody \notin Sources
      /\ UNCHANGED <<selection, sources, formats, spent, owners, focused, unread, known>>
      /\ devices' = devices \cup {c} /\ c \notin devices
  BY ClipTypes DEF ClipInv, SelectTypeOK, OwnerOrNot, GetDevice
<1>2. Visible(selection)' = Visible(selection) /\ HeardLast' = Visible(selection)' /\ OwnerKnows'
  BY <1>1 DEF ClipInv, Visible, HeardLast, OwnerKnows
<1>3. CASE c \in Managers
  <2>1. /\ views' = [views EXCEPT ![c] = @ \cup Given(selection)]
        /\ mirrored' = [mirrored EXCEPT ![c] = Visible(selection)] /\ pasted' = pasted
    BY <1>3 DEF GetDevice
  <2>2. SelectTypeOK'
    BY <1>1, <2>1, ClipTypes DEF SelectTypeOK
  <2>3. FocusPastes'
    BY <1>1, <1>3, <2>1, SelectionAssumption DEF ClipInv, FocusPastes, SelectionReceive, SelectTypeOK, Clients
  <2>4. ValidOffers'
    BY <1>1, <2>1 DEF ClipInv, ValidOffers, Given, SelectTypeOK
  <2>5. ManagersAgree'
    <3>1. ASSUME NEW m \in Managers, m \in devices'
          PROVE  /\ mirrored'[m] = Visible(selection)
                 /\ mirrored'[m] # Nobody => \E o \in views'[m] : o.valid /\ o.of = selection
      <4>1. CASE m = c
        <5>1. mirrored'[m] = Visible(selection) /\ views'[m] = views[m] \cup Given(selection)
          BY <1>3, <2>1, <4>1 DEF SelectTypeOK, ClipInv
        <5> QED
          BY <5>1, GivenIs
      <4>2. CASE m # c
        BY <1>1, <2>1, <3>1, <4>2 DEF SelectTypeOK, ClipInv, ManagersAgree
      <4> QED
        BY <4>1, <4>2
    <3> QED
      BY <1>1, <1>2, <3>1 DEF ManagersAgree
  <2> QED
    BY <1>2, <2>2, <2>3, <2>4, <2>5 DEF ClipInv
<1>4. CASE c \notin Managers
  <2>1. /\ pasted' = (IF c = focused THEN [pasted EXCEPT ![c] = selection] ELSE pasted)
        /\ UNCHANGED <<views, mirrored>>
    BY <1>4 DEF GetDevice
  <2>2. SelectTypeOK'
    BY <1>1, <2>1 DEF SelectTypeOK
  <2>3. FocusPastes'
    BY <1>1, <1>4, <2>1 DEF ClipInv, FocusPastes, SelectionReceive, SelectTypeOK, Clients
  <2>4. ValidOffers' /\ ManagersAgree'
    BY <1>1, <1>2, <1>4, <2>1 DEF ClipInv, ValidOffers, ManagersAgree
  <2> QED
    BY <1>2, <2>2, <2>3, <2>4 DEF ClipInv
<1> QED
  BY <1>3, <1>4

LEMMA ClipStep ==
    ASSUME ~LateOffers, ClipInv, [SelectNext]_selectVars
    PROVE  ClipInv'
<1>0. SelectTypeOK /\ Nobody \notin Sources /\ Nobody \notin devices
  BY ClipTypes DEF ClipInv
<1>1. ASSUME NEW c \in Clients, NEW s \in OwnerOrNot, SetSelection(c, s) PROVE ClipInv'
  BY <1>1, SetKeepsClip
<1>2. ASSUME NEW s \in Sources, OfferFormat(s) PROVE ClipInv'
  <2>1. s # selection /\ s \in sources /\ formats' = formats \cup {s}
        /\ UNCHANGED <<selection, sources, spent, owners, focused, devices, pasted, views, mirrored, unread, known>>
    BY <1>2 DEF OfferFormat
  <2>2. Visible(selection)' = Visible(selection)
    BY <2>1 DEF Visible
  <2> QED
    BY <2>1, <2>2 DEF ClipInv, SelectTypeOK, OwnerKnows, FocusPastes, SelectionReceive, ValidOffers,
       ManagersAgree, HeardLast
<1>3. ASSUME NEW s \in Sources, DropSource(s) PROVE ClipInv'
  BY <1>3, GoneKeepsClip DEF DropSource
<1>4. ASSUME NEW m \in Managers, NEW s \in Wrapped, ReuseSource(m, s) PROVE ClipInv'
  <2>1. (devices \ {m}) \cap Pasters = devices \cap Pasters
    BY SelectionAssumption
  <2>2. Destroyed(Offered[m], devices \ {m}) /\ devices' = devices \ {m} /\ UNCHANGED <<spent, focused, known>>
    BY <1>4 DEF ReuseSource
  <2> QED
    BY <2>1, <2>2, GoneKeepsClip
<1>5. ASSUME NEW c \in Clients, GetDevice(c) PROVE ClipInv'
  BY <1>5, GetKeepsClip
<1>6. ASSUME NEW c \in Clients, ReleaseDevice(c) PROVE ClipInv'
  BY <1>6 DEF ReleaseDevice, ClipInv, SelectTypeOK, OwnerKnows, FocusPastes, SelectionReceive, ValidOffers,
     ManagersAgree, HeardLast, Visible
<1>7. ASSUME NEW c \in Pasters \cup {Nobody}, Focus(c) PROVE ClipInv'
  <2>1. SelectTypeOK'
    BY <1>0, <1>7 DEF Focus, SelectTypeOK, OwnerOrNot
  <2>2. FocusPastes'
    BY <1>0, <1>7 DEF Focus, FocusPastes, SelectionReceive, SelectTypeOK
  <2> QED
    BY <1>7, <2>1, <2>2 DEF Focus, ClipInv, OwnerKnows, ValidOffers, ManagersAgree, HeardLast, Visible
<1>8. CASE HandleSelection
  <2>1. /\ unread # <<>> /\ unread' = Tail(unread) /\ known' = unread[1] /\ unread \in Seq(OwnerOrNot)
        /\ UNCHANGED <<selection, sources, formats, spent, owners, focused, devices, pasted, views, mirrored>>
    BY <1>0, <1>8 DEF HandleSelection, SelectTypeOK
  <2>2. unread[1] \in OwnerOrNot /\ unread' \in Seq(OwnerOrNot) /\ Len(unread') = Len(unread) - 1
        /\ Len(unread) \in Nat \ {0} /\ \A i \in 1..Len(unread') : unread'[i] = unread[i + 1]
    BY <2>1, HeadTailProperties
  <2>4. HeardLast' = HeardLast
    <3>1. CASE Len(unread) = 1
      <4>1. unread' = <<>>
        BY <2>2, <3>1, EmptySeq
      <4> QED
        BY <2>1, <3>1, <4>1 DEF HeardLast
    <3>2. CASE Len(unread) # 1
      <4>1. unread' # <<>> /\ Len(unread') \in 1..Len(unread') /\ Len(unread') + 1 = Len(unread)
        BY <2>2, <3>2
      <4>2. unread'[Len(unread')] = unread[Len(unread)]
        BY <2>2, <4>1
      <4> QED
        BY <2>1, <4>1, <4>2 DEF HeardLast
    <3> QED
      BY <3>1, <3>2
  <2>3. SelectTypeOK'
    BY <1>0, <2>1, <2>2 DEF SelectTypeOK
  <2> QED
    BY <2>1, <2>3, <2>4 DEF ClipInv, OwnerKnows, FocusPastes, SelectionReceive, ValidOffers, ManagersAgree, Visible
<1>9. CASE UNCHANGED selectVars
  BY <1>9 DEF selectVars, ClipInv, SelectTypeOK, OwnerKnows, FocusPastes, SelectionReceive, ValidOffers,
     ManagersAgree, HeardLast, Visible
<1>10. ASSUME NEW m \in Managers, NEW s \in Wrapped PROVE ReuseSource(m, s) => ClipInv'
  BY <1>4
<1> QED
  BY <1>1, <1>2, <1>3, <1>4, <1>5, <1>6, <1>7, <1>8, <1>9 DEF SelectNext

\* Whoever owns the clipboard knows it; the focused client, the clipboard
\* managers and the compositor read from the owner or not at all, however
\* sources, devices and the focus come and go (selection.rs, desktop.rs).
THEOREM ClipboardIsTrue ==
    ASSUME ~LateOffers
    PROVE  SelectSpec => []ClipboardAgrees
<1>1. ASSUME ClipInv PROVE ClipboardAgrees
  <2>1. OffersHonest
    BY <1>1 DEF ClipInv, ValidOffers, OffersHonest, OfferReceive, SelectionReceive
  <2>2. CompositorAgrees
    BY <1>1 DEF ClipInv, HeardLast, CompositorAgrees
  <2> QED
    BY <1>1, <2>1, <2>2 DEF ClipInv, ClipboardAgrees
<1>2. ClipInv /\ [SelectNext]_selectVars => ClipInv'
  BY ClipStep
<1>3. ClipInv => ClipboardAgrees
  BY <1>1
<1> QED
  BY <1>2, <1>3, ClipBegins, PTL DEF SelectSpec

-----------------------------------------------------------------------------
\* What clients are told of the desktop is how the desktop is, for each of the
\* five that tell them: for clients that know the last version of xdg-output and
\* ask of the output they mean, and where no offer is made late.
THEOREM MirrorsAreTrue ==
    ASSUME OldXdg = {}, ~OneManager, ~LateOffers
    PROVE  PanelsSpec /\ BarsSpec /\ SpacesSpec /\ ScreensSpec /\ SelectSpec => []MirrorsAgree
<1>1. PanelsSpec => []PanelsLaidOut
  BY PanelsAreLaidOut
<1>2. BarsSpec => []TaskbarsAgree
  BY TaskbarsAreTrue
<1>3. SpacesSpec => []PagersAgree
  BY PagersAreTrue
<1>4. ScreensSpec => []ScreensTold
  BY ScreensAreTold
<1>5. SelectSpec => []ClipboardAgrees
  BY ClipboardIsTrue
<1> QED
  BY <1>1, <1>2, <1>3, <1>4, <1>5, PTL DEF MirrorsAgree
=============================================================================
