----------------------- MODULE PiRuntimeUpdaterProofs -----------------------
(***************************************************************************)
(* Proofs about PiRuntimeUpdater, for any number of agents, installs,      *)
(* versions and restarts: the types, the way back to the bundled runtime,  *)
(* and that a restart keeps the selection.                                 *)
(***************************************************************************)
EXTENDS PiRuntimeUpdater, FiniteSetTheorems, SequenceTheorems, TLAPS

(* A runtime with its way back: a stack whose only bundled entry is its    *)
(* bottom.                                                                 *)
Stacked(rt, h) ==
    /\ EndsBundled(rt, h)
    /\ \A i \in 2..Len(h) : h[i] # Bundled

(* The older the entry, the lower its version.                             *)
Climbs(rt, h) ==
    /\ \A i \in 1..Len(h) : h[i].version < rt.version
    /\ \A i, j \in 1..Len(h) : i < j => h[i].version < h[j].version

(* A call that is about to make its runtime and history the selected ones. *)
Carries(c) == call[c].pc \in {"write", "finish", "record", "recorded"}

(* The installs that a record may mention.                                 *)
Recordable == IF At(User, "staged") THEN installs - 1 ELSE installs

(* The bounds of the types.                                                *)
Bounded ==
    /\ At(User, "staged") => installs > 0
    /\ Len(history) <= Recordable /\ Len(active.history) <= Recordable
    /\ \A c \in Callers : Len(call[c].history) <= Recordable

(* What is selected, recorded or carried has its way back.                 *)
AllStacked ==
    /\ Stacked(selected, history)
    /\ Stacked(active.runtime, active.history)
    /\ \A c \in Callers : Carries(c) => Stacked(call[c].runtime, call[c].history)

(* Only the user installs; starts carry history only to go back.           *)
Installing == {"request", "stage", "staged", "record", "recorded"}
Roles == \A a \in Starters : call[a].pc \notin Installing

(* As long as no two changes met: one is under way at most; the versions   *)
(* climb; and memory and record differ only where that change is between   *)
(* the two.                                                                *)
OneChange == \A c, d \in Callers : Changing(c) /\ Changing(d) => c = d

AllClimb ==
    /\ Climbs(selected, history) /\ Climbs(active.runtime, active.history)
    /\ \A c \in Callers : Carries(c) => Climbs(call[c].runtime, call[c].history)

StagedIsNewer ==
    call[User].pc \in {"stage", "staged"} => call[User].runtime.version > selected.version

Agrees == active.runtime = selected \/ active.runtime.id \notin installed

RecordInStep ==
    /\ \A c \in Callers :
           /\ call[c].pc \in {"finish", "recorded"} => active.runtime = call[c].runtime
           /\ call[c].pc \in {"cleared", "wiped"} => active = NoRecord
           /\ call[c].pc \in {"clear", "cleared"} => selected = Bundled
    /\ (\A c \in Callers : call[c].pc \notin {"finish", "recorded", "wiped"}) => Agrees

Apart == OneChange /\ AllClimb /\ StagedIsNewer /\ RecordInStep

(* The types, without the bound on the length of a history.                *)
Shape ==
    /\ installed \subseteq 1..installs /\ installs \in 0..MaxInstalls
    /\ active \in [runtime : Runtimes, history : Seq(Runtimes)]
    /\ selected \in Runtimes /\ launched \in Runtimes /\ history \in Seq(Runtimes)
    /\ warning \in BOOLEAN /\ installing \in BOOLEAN
    /\ restarts \in 0..MaxRestarts /\ crossed \in BOOLEAN
    /\ call \in [Callers -> [pc : Calls, runtime : Runtimes, history : Seq(Runtimes)]]

(* A directory has its number before the record mentions it.               *)
Counted ==
    /\ active.runtime.id <= installs
    /\ call[User].pc \in {"staged", "record"} => call[User].runtime.id <= installs

WaysBack == Shape /\ Bounded /\ AllStacked /\ Roles
UpdaterInv == WaysBack /\ Counted /\ (~crossed => Apart)

-----------------------------------------------------------------------------
(* A set of numbers has a least one: the intervals below its members are   *)
(* finite sets, which inclusion orders well.                               *)
LEMMA LeastNumber ==
    ASSUME NEW S, S \subseteq Nat, S # {}
    PROVE  \E m \in S : \A n \in S : m <= n
<1> DEFINE Below == {0..n : n \in S}
<1>1. Below \subseteq FiniteSubsetsOf(Nat)
  <2>1. \A n \in S : IsFiniteSet(0..n)
    BY FS_Interval
  <2> QED
    BY <2>1 DEF FiniteSubsetsOf
<1>2. PICK b \in Below : \A c \in Below : <<c, b>> \notin StrictSubsetOrdering(Nat)
  <2>1. Below # {}
    OBVIOUS
  <2> HIDE DEF Below
  <2>2. IsWellFoundedOn(StrictSubsetOrdering(Nat), FiniteSubsetsOf(Nat))
    BY FS_StrictSubsetOrderingWellFounded
  <2> QED
    BY <1>1, <2>1, <2>2, WFMin
<1>3. PICK m \in S : b = 0..m
  OBVIOUS
<1>4. ASSUME NEW n \in S, n < m PROVE FALSE
  <2>1. 0..n \subseteq 0..m /\ m \in 0..m /\ m \notin 0..n
    BY <1>4
  <2>2. <<0..n, b>> \in StrictSubsetOrdering(Nat)
    BY <2>1, <1>3 DEF StrictSubsetOrdering
  <2> QED
    BY <1>2, <2>2
<1> QED
  BY <1>4

(* Induction, for a set of numbers in the place of a predicate.            *)
LEMMA AllNumbers ==
    ASSUME NEW S, 0 \in S, \A n \in Nat : n \in S => n + 1 \in S
    PROVE  \A n \in Nat : n \in S
<1> SUFFICES ASSUME NEW n \in Nat, n \notin S PROVE FALSE
  OBVIOUS
<1> DEFINE Missing == {k \in Nat : k \notin S}
<1>1. PICK m \in Missing : \A k \in Missing : m <= k
  <2>1. Missing \subseteq Nat /\ Missing # {}
    OBVIOUS
  <2> HIDE DEF Missing
  <2> QED
    BY <2>1, LeastNumber
<1>2. m # 0 /\ m - 1 \in Nat
  BY <1>1
<1>3. m - 1 \in S
  BY <1>1, <1>2
<1> QED
  BY <1>1, <1>2, <1>3

-----------------------------------------------------------------------------
(* What loadHistory() has after i entries.                                 *)
IsLoading(f, h, rt, n) ==
    f = [i \in 0..n |-> IF i = 0 THEN <<>> ELSE LoadEntry(f[i - 1], h[i], rt)]

(* The loop has a result for every number of entries.                      *)
LEMMA LoadingExists ==
    ASSUME NEW h, NEW rt
    PROVE  \A n \in Nat : \E f : IsLoading(f, h, rt, n)
<1> DEFINE S == {n \in Nat : \E f : IsLoading(f, h, rt, n)}
<1>1. 0 \in S
  <2> DEFINE f == [i \in 0..0 |-> <<>>]
  <2>1. f = [i \in 0..0 |-> IF i = 0 THEN <<>> ELSE LoadEntry(f[i - 1], h[i], rt)]
    OBVIOUS
  <2> QED
    BY <2>1 DEF IsLoading
<1>2. ASSUME NEW n \in Nat, n \in S PROVE n + 1 \in S
  <2>1. PICK f : IsLoading(f, h, rt, n)
    BY <1>2
  <2> DEFINE g == [i \in 0..(n + 1) |-> IF i = n + 1 THEN LoadEntry(f[n], h[n + 1], rt) ELSE f[i]]
  <2>2. \A i \in 0..n : f[i] = IF i = 0 THEN <<>> ELSE LoadEntry(f[i - 1], h[i], rt)
    BY <2>1 DEF IsLoading
  <2>3. \A i \in 0..n : g[i] = f[i]
    OBVIOUS
  <2>4. g[n + 1] = LoadEntry(g[n], h[n + 1], rt)
    BY <2>3
  <2>5. \A i \in 0..(n + 1) : g[i] = IF i = 0 THEN <<>> ELSE LoadEntry(g[i - 1], h[i], rt)
    <3> SUFFICES ASSUME NEW i \in 0..(n + 1)
                 PROVE  g[i] = IF i = 0 THEN <<>> ELSE LoadEntry(g[i - 1], h[i], rt)
      OBVIOUS
    <3>1. CASE i = n + 1
      <4>1. i # 0 /\ i - 1 = n
        BY <3>1
      <4> QED
        BY <3>1, <4>1, <2>4
    <3>2. CASE i \in 0..n
      <4>1. g[i] = f[i]
        BY <3>2, <2>3
      <4>2. i # 0 => i - 1 \in 0..n /\ g[i - 1] = f[i - 1]
        BY <3>2, <2>3
      <4> HIDE DEF g
      <4> QED
        BY <3>2, <2>2, <4>1, <4>2
    <3> QED
      BY <3>1, <3>2
  <2>6. IsLoading(g, h, rt, n + 1)
    <3>1. g = [i \in 0..(n + 1) |-> g[i]]
      OBVIOUS
    <3> HIDE DEF g
    <3> QED
      BY <3>1, <2>5 DEF IsLoading
  <2> QED
    BY <2>6
<1>3. \A n \in Nat : n \in S
  <2> HIDE DEF S
  <2> QED
    BY <1>1, <1>2, AllNumbers
<1> QED
  BY <1>3

(* loadHistory() returns what it has after the last entry.                 *)
LEMMA LoadIsLoaded ==
    ASSUME NEW h, NEW rt, Len(h) \in Nat
    PROVE  \E f : /\ IsLoading(f, h, rt, Len(h))
                  /\ Load(h, rt) = IF h = <<>> \/ Len(h) > MaxHistory \/ f[Len(h)] = <<>>
                                   THEN <<Bundled>> ELSE f[Len(h)]
<1> DEFINE f == CHOOSE g : g = [i \in 0..Len(h) |-> IF i = 0 THEN <<>>
                                                    ELSE LoadEntry(g[i - 1], h[i], rt)]
<1>1. \E g : g = [i \in 0..Len(h) |-> IF i = 0 THEN <<>> ELSE LoadEntry(g[i - 1], h[i], rt)]
  <2>1. \E g : IsLoading(g, h, rt, Len(h))
    BY LoadingExists, Zenon
  <2> QED
    BY <2>1, Zenon DEF IsLoading
<1>2. f = [i \in 0..Len(h) |-> IF i = 0 THEN <<>> ELSE LoadEntry(f[i - 1], h[i], rt)]
  BY <1>1, Zenon
<1>3. Load(h, rt) = IF h = <<>> \/ Len(h) > MaxHistory \/ f[Len(h)] = <<>>
                    THEN <<Bundled>> ELSE f[Len(h)]
  BY Zenon DEF Load
<1> QED
  BY <1>2, <1>3, Zenon DEF IsLoading

(* A runtime has its number and its version; the bundled one is one.       *)
LEMMA RuntimeTypes ==
    /\ \A r \in Runtimes : r.version \in Nat /\ r.id \in Nat
    /\ Bundled \in Runtimes /\ Bundled.version = 0 /\ Bundled.id = 0
<1>1. \A v \in Versions \cup {0} : v \in Nat
  BY UpdaterAssumption
<1>2. \A i \in 0..MaxInstalls : i \in Nat
  BY UpdaterAssumption
<1>3. 0 \in 0..MaxInstalls
  BY UpdaterAssumption
<1> QED
  BY <1>1, <1>2, <1>3 DEF Runtimes, Bundled

(* loadHistory(), on a history with the bundled runtime at its bottom,     *)
(* keeps that entry, and of the others only older versions, in order.      *)
LEMMA LoadedHistory ==
    ASSUME NEW h \in Seq(Runtimes), NEW rt \in Runtimes, h # <<>>, h[1] = Bundled,
           \A i \in 2..Len(h) : h[i] # Bundled, NEW f, IsLoading(f, h, rt, Len(h))
    PROVE  \A n \in 1..Len(h) :
               /\ f[n] \in Seq(Runtimes) /\ Len(f[n]) \in 1..n
               /\ f[n][1] = Bundled
               /\ \A i \in 2..Len(f[n]) :
                      f[n][i] # Bundled /\ f[n][i].version < rt.version
               /\ \A i \in 1..Len(f[n]) : \E k \in 1..n : f[n][i] = h[k]
               /\ (\A k, l \in 1..Len(h) : k < l => h[k].version < h[l].version) =>
                      \A i, j \in 1..Len(f[n]) : i < j => f[n][i].version < f[n][j].version
<1> DEFINE P(n) ==
               /\ f[n] \in Seq(Runtimes) /\ Len(f[n]) \in 1..n
               /\ f[n][1] = Bundled
               /\ \A i \in 2..Len(f[n]) :
                      f[n][i] # Bundled /\ f[n][i].version < rt.version
               /\ \A i \in 1..Len(f[n]) : \E k \in 1..n : f[n][i] = h[k]
               /\ (\A k, l \in 1..Len(h) : k < l => h[k].version < h[l].version) =>
                      \A i, j \in 1..Len(f[n]) : i < j => f[n][i].version < f[n][j].version
           S == {n \in Nat : n \in 1..Len(h) => P(n)}
<1>1. \A n \in 1..Len(h) : f[n] = LoadEntry(f[n - 1], h[n], rt)
  BY DEF IsLoading
<1>2. f[0] = <<>>
  BY DEF IsLoading
<1>3. 0 \in S
  OBVIOUS
<1>4. ASSUME NEW n \in Nat, n \in S PROVE n + 1 \in S
  <2> HIDE DEF P
  <2> SUFFICES ASSUME n + 1 \in 1..Len(h) PROVE P(n + 1)
    OBVIOUS
  <2> USE DEF P
  <2>1. f[n + 1] = LoadEntry(f[n], h[n + 1], rt)
    BY <1>1
  <2>2. h[n + 1] \in Runtimes /\ h[n + 1].version \in Int
    <3>1. h[n + 1] \in Runtimes
      OBVIOUS
    <3> QED
      BY <3>1, RuntimeTypes
  <2>3. CASE n = 0
    <3>1. f[n + 1] = <<Bundled>>
      BY <2>1, <2>3, <1>2 DEF LoadEntry
    <3>2. Bundled \in Runtimes
      BY UpdaterAssumption DEF Runtimes, Bundled
    <3> QED
      BY <3>1, <3>2, <2>3
  <2>4. CASE n # 0
    <3>1. n \in 1..Len(h) /\ P(n)
      BY <1>4, <2>4
    <3>2. h[n + 1] # Bundled
      BY <2>4
    <3>3. CASE f[n + 1] = f[n]
      BY <3>1, <3>3
    <3>4. CASE f[n + 1] = Append(f[n], h[n + 1]) /\ h[n + 1].version < rt.version
      <4>1. Len(f[n + 1]) = Len(f[n]) + 1 /\ f[n + 1] \in Seq(Runtimes)
        BY <3>1, <3>4, <2>2
      <4>2. \A i \in 1..Len(f[n]) : f[n + 1][i] = f[n][i]
        BY <3>1, <3>4, <2>2
      <4>3. f[n + 1][Len(f[n + 1])] = h[n + 1]
        BY <3>1, <3>4, <2>2
      <4>4. \A i \in 1..Len(f[n + 1]) : i \in 1..Len(f[n]) \/ i = Len(f[n + 1])
        BY <4>1, <3>1
      <4>5. f[n + 1][1] = Bundled
        BY <3>1, <4>2
      <4>6. \A i \in 2..Len(f[n + 1]) :
                f[n + 1][i] # Bundled /\ f[n + 1][i].version < rt.version
        BY <3>1, <3>2, <3>4, <4>1, <4>2, <4>3, <4>4
      <4>7. \A i \in 1..Len(f[n + 1]) : \E k \in 1..(n + 1) : f[n + 1][i] = h[k]
        <5> SUFFICES ASSUME NEW i \in 1..Len(f[n + 1])
                     PROVE  \E k \in 1..(n + 1) : f[n + 1][i] = h[k]
          OBVIOUS
        <5>1. CASE i \in 1..Len(f[n])
          <6>1. PICK k \in 1..n : f[n][i] = h[k]
            BY <3>1, <5>1
          <6> QED
            BY <5>1, <6>1, <4>2
        <5>2. CASE i = Len(f[n + 1])
          BY <5>2, <4>3
        <5> QED
          BY <5>1, <5>2, <4>4
      <4>8. ASSUME \A k, l \in 1..Len(h) : k < l => h[k].version < h[l].version,
                   NEW i \in 1..Len(f[n + 1]), NEW j \in 1..Len(f[n + 1]), i < j
            PROVE  f[n + 1][i].version < f[n + 1][j].version
        <5>1. i \in 1..Len(f[n])
          BY <4>1, <4>4, <4>8, <3>1
        <5>2. PICK k \in 1..n : f[n][i] = h[k]
          BY <5>1, <3>1
        <5>3. CASE j \in 1..Len(f[n])
          BY <5>1, <5>3, <4>2, <4>8, <3>1
        <5>4. CASE j = Len(f[n + 1])
          <6>1. k < n + 1 /\ k \in 1..Len(h)
            BY <3>1
          <6> QED
            BY <5>1, <5>2, <5>4, <6>1, <4>2, <4>3, <4>8
        <5> QED
          BY <5>3, <5>4, <4>4
      <4> QED
        BY <4>1, <4>5, <4>6, <4>7, <4>8, <3>1
    <3> QED
      BY <2>1, <3>2, <3>3, <3>4 DEF LoadEntry
  <2> QED
    BY <2>3, <2>4
<1>5. \A n \in Nat : n \in S
  <2> HIDE DEF S
  <2> QED
    BY <1>3, <1>4, AllNumbers
<1> QED
  BY <1>5

-----------------------------------------------------------------------------
(* Going back one runtime leaves the rest of the way back.                 *)
LEMMA TopOfStack ==
    ASSUME NEW rt \in Runtimes, NEW h \in Seq(Runtimes), Stacked(rt, h), h # <<>>
    PROVE  /\ h[Len(h)] \in Runtimes
           /\ SubSeq(h, 1, Len(h) - 1) \in Seq(Runtimes)
           /\ Len(SubSeq(h, 1, Len(h) - 1)) = Len(h) - 1
           /\ Stacked(h[Len(h)], SubSeq(h, 1, Len(h) - 1))
           /\ Climbs(rt, h) => Climbs(h[Len(h)], SubSeq(h, 1, Len(h) - 1))
<1> DEFINE top == h[Len(h)]
           rest == SubSeq(h, 1, Len(h) - 1)
<1>1. Len(h) \in Nat /\ Len(h) >= 1 /\ top \in Runtimes
  <2>1. Len(h) \in Nat /\ Len(h) # 0
    BY EmptySeq, LenProperties
  <2>2. Len(h) >= 1
    BY <2>1
  <2>3. Len(h) \in 1..Len(h)
    BY <2>1, <2>2
  <2> QED
    BY <2>1, <2>2, <2>3, ElementOfSeq
<1>2. /\ rest \in Seq(Runtimes) /\ Len(rest) = Len(h) - 1
      /\ \A i \in 1..(Len(h) - 1) : rest[i] = h[i]
  <2>1. \A i \in 1..(Len(h) - 1) : h[i] \in Runtimes
    BY <1>1
  <2>2. PICK n \in Nat : n = Len(h)
    BY <1>1
  <2>3. /\ rest \in Seq(Runtimes)
        /\ Len(rest) = IF 1 <= n - 1 THEN (n - 1) - 1 + 1 ELSE 0
        /\ \A i \in 1..((n - 1) - 1 + 1) : rest[i] = h[1 + i - 1]
    BY <2>1, <2>2, SubSeqProperties
  <2>4. n >= 1
    BY <1>1, <2>2
  <2>5. Len(rest) = n - 1 /\ \A i \in 1..(n - 1) : rest[i] = h[i]
    BY <2>3, <2>4
  <2> QED
    BY <2>2, <2>3, <2>5
<1>3. h[1] = Bundled /\ top = h[Len(h)]
  BY DEF Stacked, EndsBundled
<1> HIDE DEF top, rest
<1>4. Stacked(top, rest)
  <2>1. CASE ~(Len(h) > 1)
    <3>1. Len(h) <= 1 /\ Len(rest) = 0
      BY <1>1, <1>2, <2>1
    <3>2. top = Bundled /\ rest = <<>>
      BY <1>1, <1>2, <1>3, <3>1, EmptySeq
    <3> QED
      BY <3>2 DEF Stacked, EndsBundled
  <2>2. CASE Len(h) > 1
    <3>1. top # Bundled
      BY <1>1, <1>3, <2>2 DEF Stacked
    <3>2. rest # <<>> /\ rest[1] = Bundled
      BY <1>2, <1>3, <2>2
    <3>3. \A i \in 2..Len(rest) : rest[i] # Bundled
      BY <1>1, <1>2 DEF Stacked
    <3> QED
      BY <3>1, <3>2, <3>3 DEF Stacked, EndsBundled
  <2> QED
    BY <2>1, <2>2
<1>5. Climbs(rt, h) => Climbs(top, rest)
  BY <1>1, <1>2, <1>3 DEF Climbs
<1> QED
  BY <1>1, <1>2, <1>4, <1>5 DEF top, rest

(* A new runtime on top of the one it replaces.                            *)
LEMMA PushOnStack ==
    ASSUME NEW rt \in Runtimes, NEW h \in Seq(Runtimes), Stacked(rt, h),
           NEW new \in Runtimes, new # Bundled
    PROVE  /\ Append(h, rt) \in Seq(Runtimes) /\ Len(Append(h, rt)) = Len(h) + 1
           /\ Stacked(new, Append(h, rt))
           /\ Climbs(rt, h) /\ new.version > rt.version => Climbs(new, Append(h, rt))
<1>1. /\ Append(h, rt) \in Seq(Runtimes) /\ Len(Append(h, rt)) = Len(h) + 1
      /\ \A i \in 1..Len(h) : Append(h, rt)[i] = h[i]
      /\ Append(h, rt)[Len(h) + 1] = rt /\ Len(h) \in Nat
  OBVIOUS
<1>2. Stacked(new, Append(h, rt))
  <2>1. CASE rt = Bundled
    <3>1. h = <<>> /\ Append(h, rt) = <<Bundled>>
      BY <2>1 DEF Stacked, EndsBundled
    <3> QED
      BY <3>1 DEF Stacked, EndsBundled
  <2>2. CASE rt # Bundled
    <3>1. h # <<>> /\ h[1] = Bundled /\ Len(h) >= 1
      BY <2>2 DEF Stacked, EndsBundled
    <3>2. Append(h, rt) # <<>> /\ Append(h, rt)[1] = Bundled
      BY <1>1, <3>1
    <3>3. \A i \in 2..(Len(h) + 1) : Append(h, rt)[i] # Bundled
      BY <1>1, <2>2, <3>1 DEF Stacked
    <3> QED
      BY <1>1, <3>2, <3>3 DEF Stacked, EndsBundled
  <2> QED
    BY <2>1, <2>2
<1>3. Climbs(rt, h) /\ new.version > rt.version => Climbs(new, Append(h, rt))
  <2> SUFFICES ASSUME Climbs(rt, h), new.version > rt.version
               PROVE  Climbs(new, Append(h, rt))
    OBVIOUS
  <2> DEFINE s == Append(h, rt)
  <2>1. \A i \in 1..Len(h) : h[i] \in Runtimes /\ h[i].version < rt.version
    BY DEF Climbs
  <2>2. \A i \in 1..Len(h) : h[i].version < new.version
    BY <2>1, RuntimeTypes
  <2>3. \A i \in 1..Len(s) : i \in 1..Len(h) \/ (i = Len(h) + 1)
    BY <1>1
  <2>4. \A i \in 1..Len(s) : s[i].version < new.version
    BY <1>1, <2>2, <2>3
  <2>5. \A i, j \in 1..Len(s) : i < j => s[i].version < s[j].version
    <3> SUFFICES ASSUME NEW i \in 1..Len(s), NEW j \in 1..Len(s), i < j
                 PROVE  s[i].version < s[j].version
      OBVIOUS
    <3>1. i \in 1..Len(h) /\ s[i] = h[i]
      BY <1>1
    <3>2. CASE j \in 1..Len(h)
      BY <1>1, <3>1, <3>2 DEF Climbs
    <3>3. CASE j = Len(h) + 1
      BY <1>1, <2>1, <3>1, <3>3
    <3> QED
      BY <3>2, <3>3, <2>3
  <2> QED
    BY <2>4, <2>5 DEF Climbs
<1> QED
  BY <1>1, <1>2, <1>3

(* What a restart loads of the way back is a way back.                     *)
LEMMA LoadedStack ==
    ASSUME NEW rt \in Runtimes, NEW h \in Seq(Runtimes), Stacked(rt, h), rt # Bundled
    PROVE  /\ Load(h, rt) \in Seq(Runtimes) /\ Len(Load(h, rt)) <= Len(h)
           /\ Stacked(rt, Load(h, rt))
           /\ Climbs(rt, h) => Climbs(rt, Load(h, rt))
<1>1. h # <<>> /\ h[1] = Bundled /\ Len(h) \in Nat \ {0}
      /\ \A i \in 2..Len(h) : h[i] # Bundled
  BY DEF Stacked, EndsBundled
<1>2. PICK f : /\ IsLoading(f, h, rt, Len(h))
               /\ Load(h, rt) = IF h = <<>> \/ Len(h) > MaxHistory \/ f[Len(h)] = <<>>
                                THEN <<Bundled>> ELSE f[Len(h)]
  BY <1>1, LoadIsLoaded
<1> DEFINE s == f[Len(h)]
<1>3. /\ s \in Seq(Runtimes) /\ Len(s) \in 1..Len(h) /\ s[1] = Bundled
      /\ \A i \in 2..Len(s) : s[i] # Bundled /\ s[i].version < rt.version
      /\ (\A k, l \in 1..Len(h) : k < l => h[k].version < h[l].version) =>
             \A i, j \in 1..Len(s) : i < j => s[i].version < s[j].version
  <2>1. Len(h) \in 1..Len(h)
    BY <1>1
  <2> QED
    BY <1>1, <1>2, <2>1, LoadedHistory
<1>4. Climbs(rt, h) => 0 < rt.version
  BY <1>1, RuntimeTypes DEF Climbs
<1>5. CASE Load(h, rt) = <<Bundled>>
  BY <1>1, <1>4, <1>5, RuntimeTypes DEF Stacked, EndsBundled, Climbs
<1>6. CASE Load(h, rt) = s
  <2>1. Stacked(rt, s)
    BY <1>3 DEF Stacked, EndsBundled
  <2>2. Climbs(rt, h) => Climbs(rt, s)
    <3> SUFFICES ASSUME Climbs(rt, h) PROVE Climbs(rt, s)
      OBVIOUS
    <3>1. \A i \in 1..Len(s) : i = 1 \/ i \in 2..Len(s)
      BY <1>3
    <3>2. \A i \in 1..Len(s) : s[i].version < rt.version
      BY <1>3, <1>4, <3>1, RuntimeTypes
    <3> QED
      BY <1>3, <3>2 DEF Climbs
  <2> QED
    BY <1>3, <1>6, <2>1, <2>2
<1> QED
  BY <1>2, <1>5, <1>6

-----------------------------------------------------------------------------
(* The call of c, and no other, is now at pc with this runtime and history.*)
Moved(c, pc, rt, h) ==
    call' = [call EXCEPT ![c] = [pc |-> pc, runtime |-> rt, history |-> h]]

LEMMA Moves ==
    ASSUME Shape, NEW c \in Callers, NEW pc \in Calls
    PROVE  /\ Goto(c, pc) => Moved(c, pc, call[c].runtime, call[c].history)
           /\ \A rt, h : Become(c, pc, rt, h) => Moved(c, pc, rt, h)
           /\ call' = [call EXCEPT ![c] = Idle] => Moved(c, "idle", Bundled, <<>>)
<1>1. Goto(c, pc) => Moved(c, pc, call[c].runtime, call[c].history)
  BY DEF Goto, Moved, Shape
<1> QED
  BY <1>1 DEF Become, Moved, Idle

LEMMA MovedCalls ==
    ASSUME Shape, NEW c \in Callers, NEW pc \in Calls, NEW rt \in Runtimes,
           NEW h \in Seq(Runtimes), Moved(c, pc, rt, h)
    PROVE  /\ call' \in [Callers -> [pc : Calls, runtime : Runtimes, history : Seq(Runtimes)]]
           /\ call'[c].pc = pc /\ call'[c].runtime = rt /\ call'[c].history = h
           /\ \A d \in Callers \ {c} : call'[d] = call[d]
BY DEF Shape, Moved

(* A step of one call keeps the types and the ways back, when what it puts *)
(* in place does.                                                          *)
LEMMA KeepsWaysBack ==
    ASSUME WaysBack, NEW c \in Callers, NEW pc \in Calls, NEW rt \in Runtimes,
           NEW h \in Seq(Runtimes), Moved(c, pc, rt, h),
           installed' \subseteq 1..installs', installs' \in 0..MaxInstalls,
           active' \in [runtime : Runtimes, history : Seq(Runtimes)],
           selected' \in Runtimes, launched' \in Runtimes, history' \in Seq(Runtimes),
           warning' \in BOOLEAN, installing' \in BOOLEAN, crossed' \in BOOLEAN,
           restarts' \in 0..MaxRestarts,
           pc \in Installing => c = User,
           Recordable <= Recordable', (pc = "staged" => installs' > 0),
           installs <= installs',
           Len(h) <= Recordable', Len(history') <= Recordable',
           Len(active'.history) <= Recordable',
           Stacked(selected', history'), Stacked(active'.runtime, active'.history),
           pc \in {"write", "finish", "record", "recorded"} => Stacked(rt, h)
    PROVE  WaysBack'
<1> USE DEF WaysBack
<1>0. /\ call' \in [Callers -> [pc : Calls, runtime : Runtimes, history : Seq(Runtimes)]]
      /\ call'[c].pc = pc /\ call'[c].runtime = rt /\ call'[c].history = h
      /\ \A d \in Callers : d # c => call'[d] = call[d]
  BY MovedCalls
<1>1. Shape'
  BY <1>0 DEF Shape
<1>2. Bounded'
  <2>1. At(User, "staged")' => installs' > 0
    <3>1. CASE c = User
      BY <1>0, <3>1 DEF At
    <3>2. CASE c # User
      <4>1. User \in Callers
        BY DEF Callers
      <4>2. call'[User] = call[User]
        BY <1>0, <3>2, <4>1
      <4>3. installs \in Int /\ installs' \in Int
        BY UpdaterAssumption DEF Shape
      <4> QED
        BY <4>2, <4>3 DEF At, Bounded
    <3> QED
      BY <3>1, <3>2
  <2>2. \A d \in Callers : Len(call'[d].history) <= Recordable'
    <3>1. Recordable \in Int /\ Recordable' \in Int
      BY <1>1 DEF Recordable, Shape
    <3>2. \A d \in Callers : Len(call[d].history) \in Int /\ Len(call[d].history) <= Recordable
      BY DEF Bounded, Shape
    <3>3. \A d \in Callers : d # c => Len(call'[d].history) <= Recordable'
      <4> SUFFICES ASSUME NEW d \in Callers, d # c
                   PROVE  Len(call'[d].history) <= Recordable'
        OBVIOUS
      <4>1. call'[d] = call[d]
        BY <1>0
      <4>2. Len(call[d].history) <= Recordable'
        BY <3>1, <3>2
      <4> QED
        BY <4>1, <4>2
    <3> QED
      BY <1>0, <3>3
  <2> QED
    BY <2>1, <2>2 DEF Bounded
<1>3. AllStacked'
  <2>1. \A d \in Callers : d # c /\ Carries(d)' => Stacked(call'[d].runtime, call'[d].history)
    BY <1>0, Zenon DEF AllStacked, Carries
  <2>2. Carries(c)' => Stacked(call'[c].runtime, call'[c].history)
    BY <1>0 DEF Carries
  <2>3. AllStacked' <=> /\ Stacked(selected', history')
                        /\ Stacked(active'.runtime, active'.history)
                        /\ \A d \in Callers : Carries(d)' => Stacked(call'[d].runtime, call'[d].history)
    BY Zenon DEF AllStacked, Carries, Stacked, EndsBundled
  <2> QED
    BY <2>1, <2>2, <2>3
<1>4. Roles'
  BY <1>0, UpdaterAssumption DEF Roles, Callers
<1> QED
  BY <1>1, <1>2, <1>3, <1>4

(* Only the staged directory is not yet recordable.                        *)
LEMMA RecordableGrows ==
    ASSUME WaysBack, NEW c \in Callers, NEW pc \in Calls \ {"staged"}, NEW rt \in Runtimes,
           NEW h \in Seq(Runtimes), Moved(c, pc, rt, h), installs' \in Int, installs <= installs'
    PROVE  Recordable \in Int /\ Recordable' \in Int /\ Recordable <= Recordable'
<1>1. installs \in Int
  BY DEF WaysBack, Shape
<1>2. call'[User].pc = "staged" => call[User].pc = "staged"
  BY MovedCalls DEF WaysBack, Callers
<1>3. /\ Recordable = IF call[User].pc = "staged" THEN installs - 1 ELSE installs
      /\ Recordable' = IF call'[User].pc = "staged" THEN installs' - 1 ELSE installs'
  BY DEF Recordable, At
<1>4. CASE call'[User].pc = "staged"
  <2>1. call[User].pc = "staged"
    BY <1>2, <1>4
  <2>2. Recordable = installs - 1 /\ Recordable' = installs' - 1
    BY <1>3, <1>4, <2>1
  <2>3. PICK m \in Int, n \in Int : m = installs /\ n = installs'
    BY <1>1
  <2>4. m <= n
    BY <2>3
  <2>5. m - 1 \in Int /\ n - 1 \in Int /\ m - 1 <= n - 1
    BY <2>4
  <2>6. Recordable = m - 1 /\ Recordable' = n - 1
    BY <2>2, <2>3
  <2> QED
    BY <2>5, <2>6
<1>5. CASE call'[User].pc # "staged" /\ call[User].pc = "staged"
  BY <1>1, <1>3, <1>5
<1>6. CASE call'[User].pc # "staged" /\ call[User].pc # "staged"
  BY <1>1, <1>3, <1>6
<1> QED
  BY <1>4, <1>5, <1>6

LEMMA OrdinaryStep ==
    ASSUME WaysBack, NEW c \in Callers, NEW pc \in Calls \ {"staged"}, NEW rt \in Runtimes,
           NEW h \in Seq(Runtimes), Moved(c, pc, rt, h),
           UNCHANGED <<installed, installs, restarts>>,
           active' \in [runtime : Runtimes, history : Seq(Runtimes)],
           selected' \in Runtimes, launched' \in Runtimes, history' \in Seq(Runtimes),
           warning' \in BOOLEAN, installing' \in BOOLEAN, crossed' \in BOOLEAN,
           pc \in Installing => c = User,
           Len(h) <= Recordable, Len(history') <= Recordable,
           Len(active'.history) <= Recordable,
           Stacked(selected', history'), Stacked(active'.runtime, active'.history),
           pc \in {"write", "finish", "record", "recorded"} => Stacked(rt, h)
    PROVE  WaysBack'
<1>1. installs \in Int /\ installs <= installs' /\ installs' \in Int
  BY DEF WaysBack, Shape
<1>2. Recordable \in Int /\ Recordable' \in Int /\ Recordable <= Recordable'
  BY <1>1, RecordableGrows
<1>3. Len(h) \in Int /\ Len(history') \in Int /\ Len(active'.history) \in Int
  OBVIOUS
<1>4. Len(h) <= Recordable' /\ Len(history') <= Recordable' /\ Len(active'.history) <= Recordable'
  BY <1>2, <1>3
<1>5. /\ installed' \subseteq 1..installs' /\ installs' \in 0..MaxInstalls
      /\ restarts' \in 0..MaxRestarts
  BY DEF WaysBack, Shape
<1> QED
  BY <1>1, <1>2, <1>4, <1>5, KeepsWaysBack

(* What a state with ways back offers to the next step.                    *)
LEMMA WaysBackFacts ==
    ASSUME WaysBack
    PROVE  /\ active \in [runtime : Runtimes, history : Seq(Runtimes)]
           /\ selected \in Runtimes /\ launched \in Runtimes /\ history \in Seq(Runtimes)
           /\ warning \in BOOLEAN /\ installing \in BOOLEAN /\ crossed \in BOOLEAN
           /\ \A c \in Callers : /\ call[c].pc \in Calls /\ call[c].runtime \in Runtimes
                                 /\ call[c].history \in Seq(Runtimes)
                                 /\ Len(call[c].history) <= Recordable
                                 /\ Carries(c) => Stacked(call[c].runtime, call[c].history)
           /\ Len(history) <= Recordable /\ Len(active.history) <= Recordable
           /\ Stacked(selected, history) /\ Stacked(active.runtime, active.history)
           /\ Recordable \in Nat
<1>1. Recordable \in Nat
  BY DEF WaysBack, Shape, Bounded, Recordable
<1> QED
  BY <1>1 DEF WaysBack, Shape, Bounded, AllStacked

(* The bundled runtime is its own way back.                                *)
LEMMA BundledStack ==
    /\ Stacked(Bundled, <<>>) /\ <<>> \in Seq(Runtimes) /\ Len(<<>>) = 0
    /\ Bundled \in Runtimes
    /\ NoRecord \in [runtime : Runtimes, history : Seq(Runtimes)]
    /\ NoRecord.runtime = Bundled /\ NoRecord.history = <<>>
BY RuntimeTypes DEF Stacked, EndsBundled, NoRecord

-----------------------------------------------------------------------------
LEMMA RollbackKeepsWays ==
    ASSUME WaysBack, NEW c \in Callers, NEW pc \in {"reset", "idle"}, Rollback(c, pc),
           UNCHANGED <<disk, memory, restarts>>, crossed' \in BOOLEAN
    PROVE  WaysBack'
<1> USE DEF disk, memory
<1>1. ASSUME NEW to \in {"reset", "idle", "clear"}, Goto(c, to) PROVE WaysBack'
  <2>1. to \in Calls \ {"staged"} /\ to \notin Installing
        /\ to \notin {"write", "finish", "record", "recorded"}
    BY DEF Calls, Installing
  <2>2. Moved(c, to, call[c].runtime, call[c].history)
    BY <1>1, <2>1, Moves DEF WaysBack
  <2> QED
    BY <2>1, <2>2, OrdinaryStep, WaysBackFacts
<1>2. ASSUME history # <<>>, Become(c, "write", Target, Shorter) PROVE WaysBack'
  <2>1. "write" \in Calls \ {"staged"} /\ "write" \notin Installing
    BY DEF Calls, Installing
  <2>2. Moved(c, "write", Target, Shorter)
    BY <1>2, <2>1, Moves DEF WaysBack
  <2>3. /\ Target \in Runtimes /\ Shorter \in Seq(Runtimes) /\ Len(Shorter) = Len(history) - 1
        /\ Stacked(Target, Shorter)
    <3>1. selected \in Runtimes /\ history \in Seq(Runtimes) /\ Stacked(selected, history)
      BY WaysBackFacts
    <3>2. Target = history[Len(history)] /\ Shorter = SubSeq(history, 1, Len(history) - 1)
      BY DEF Target, Shorter
    <3> QED
      BY <1>2, <3>1, <3>2, TopOfStack
  <2>4. Len(Shorter) <= Recordable
    BY <2>3, WaysBackFacts
  <2> QED
    BY <2>1, <2>2, <2>3, <2>4, OrdinaryStep, WaysBackFacts
<1> QED
  BY <1>1, <1>2, WaysBackFacts DEF Rollback

(* The steps that write the record on disk.                                *)
LEMMA WritesKeepWays ==
    ASSUME WaysBack, NEW c \in Callers,
           RollbackWrites(c) \/ ClearRecord(c) \/ ResetRecord(c)
    PROVE  WaysBack'
<1> USE DEF disk, memory
<1> DEFINE rt == call[c].runtime
           h == call[c].history
<1>1. ASSUME NEW to \in {"finish", "cleared", "wiped"}, Goto(c, to), active' = NoRecord,
             to = "finish" => Stacked(rt, h), UNCHANGED <<installed, installs, memory, restarts, crossed>>
      PROVE  WaysBack'
  <2>1. to \in Calls \ {"staged"} /\ to \notin Installing
        /\ (to \in {"write", "finish", "record", "recorded"} => to = "finish")
    BY DEF Calls, Installing
  <2>2. Moved(c, to, rt, h)
    BY <1>1, <2>1, Moves DEF WaysBack
  <2> QED
    BY <1>1, <2>1, <2>2, OrdinaryStep, WaysBackFacts, BundledStack
<1>2. CASE RollbackWrites(c)
  <2>1. Stacked(rt, h)
    BY <1>2, WaysBackFacts DEF RollbackWrites, At, Carries
  <2>2. CASE rt = Bundled /\ active' = NoRecord /\ Goto(c, "finish")
    BY <1>1, <1>2, <2>1, <2>2 DEF RollbackWrites
  <2>3. CASE active' = [runtime |-> rt, history |-> h] /\ Goto(c, "finish")
    <3>1. "finish" \in Calls \ {"staged"} /\ "finish" \notin Installing
      BY DEF Calls, Installing
    <3>2. Moved(c, "finish", rt, h)
      BY <2>3, <3>1, Moves DEF WaysBack
    <3> QED
      BY <1>2, <2>1, <2>3, <3>1, <3>2, OrdinaryStep, WaysBackFacts DEF RollbackWrites
  <2>4. ASSUME NEW to \in {"idle", "reset"}, UNCHANGED active, Goto(c, to) PROVE WaysBack'
    <3>1. to \in Calls \ {"staged"} /\ to \notin Installing
          /\ to \notin {"write", "finish", "record", "recorded"}
      BY DEF Calls, Installing
    <3>2. Moved(c, to, rt, h)
      BY <2>4, <3>1, Moves DEF WaysBack
    <3> QED
      BY <1>2, <2>4, <3>1, <3>2, OrdinaryStep, WaysBackFacts DEF RollbackWrites
  <2> QED
    BY <1>2, <2>2, <2>3, <2>4 DEF RollbackWrites
<1>3. CASE ClearRecord(c)
  BY <1>1, <1>3 DEF ClearRecord
<1>4. CASE ResetRecord(c)
  BY <1>1, <1>4 DEF ResetRecord
<1> QED
  BY <1>2, <1>3, <1>4

(* The steps that put a runtime into memory.                               *)
LEMMA EndsKeepWays ==
    ASSUME WaysBack, NEW c \in Callers, RollbackEnds(c) \/ ClearEnds(c) \/ ResetEnds(c)
    PROVE  WaysBack'
<1> USE DEF disk, memory
<1>1. ASSUME NEW rt \in Runtimes, Return(c, rt), UNCHANGED <<disk, installing, restarts, crossed>>,
             selected' \in Runtimes, history' \in Seq(Runtimes), Stacked(selected', history'),
             Len(history') <= Recordable
      PROVE  WaysBack'
  <2>1. ASSUME NEW to \in {"idle", "start"}, NEW to_rt \in Runtimes, Moved(c, to, to_rt, <<>>),
               launched' \in Runtimes, warning' \in BOOLEAN
        PROVE  WaysBack'
    <3>1. to \in Calls \ {"staged"} /\ to \notin Installing
          /\ to \notin {"write", "finish", "record", "recorded"}
      BY DEF Calls, Installing
    <3>2. /\ <<>> \in Seq(Runtimes) /\ Len(<<>>) <= Recordable
          /\ UNCHANGED <<installed, installs, restarts, active>>
          /\ installing' \in BOOLEAN /\ crossed' \in BOOLEAN
      BY <1>1, WaysBackFacts, BundledStack
    <3> QED
      BY <1>1, <2>1, <3>1, <3>2, OrdinaryStep, WaysBackFacts
  <2>2. CASE c = User
    <3>1. Moved(c, "idle", Bundled, <<>>)
      BY <1>1, <2>2, Moves DEF Return, Moved, Idle
    <3> QED
      BY <1>1, <2>1, <2>2, <3>1, WaysBackFacts, BundledStack DEF Return
  <2>3. CASE c # User
    <3>1. Moved(c, "start", rt, <<>>)
      BY <1>1, <2>3 DEF Return, Moved, Become
    <3> QED
      BY <1>1, <2>1, <2>3, <3>1 DEF Return
  <2> QED
    BY <2>2, <2>3
<1>2. CASE RollbackEnds(c)
  <2>1. /\ call[c].runtime \in Runtimes /\ call[c].history \in Seq(Runtimes)
        /\ Stacked(call[c].runtime, call[c].history) /\ Len(call[c].history) <= Recordable
    BY <1>2, WaysBackFacts DEF RollbackEnds, At, Carries
  <2> QED
    BY <1>1, <1>2, <2>1 DEF RollbackEnds
<1>3. CASE ClearEnds(c)
  BY <1>1, <1>3, WaysBackFacts DEF ClearEnds
<1>4. CASE ResetEnds(c)
  <2>1. Len(<<>>) <= Recordable
    BY WaysBackFacts, BundledStack
  <2> QED
    BY <1>1, <1>4, <2>1, BundledStack DEF ResetEnds
<1> QED
  BY <1>2, <1>3, <1>4

(* The starts of children.                                                 *)
LEMMA StartsKeepWays ==
    ASSUME WaysBack, NEW a \in Starters,
           StartBegins(a) \/ StartSucceeds(a) \/ StartFails(a) \/ FallbackBegins(a)
    PROVE  WaysBack'
<1> USE DEF disk, memory
<1>0. a \in Callers
  BY DEF Callers
<1>1. ASSUME NEW to \in {"idle", "start", "stop", "failed"}, NEW rt \in Runtimes,
             NEW h \in Seq(Runtimes), Len(h) <= Recordable, Moved(a, to, rt, h),
             UNCHANGED <<disk, memory, restarts>>, crossed' \in BOOLEAN
      PROVE  WaysBack'
  <2>1. to \in Calls \ {"staged"} /\ to \notin Installing
        /\ to \notin {"write", "finish", "record", "recorded"}
    BY DEF Calls, Installing
  <2> QED
    BY <1>0, <1>1, <2>1, OrdinaryStep, WaysBackFacts
<1>2. Len(<<>>) <= Recordable /\ <<>> \in Seq(Runtimes) /\ Bundled \in Runtimes
  BY WaysBackFacts, BundledStack
<1>3. {"idle", "start", "stop", "failed"} \subseteq Calls
  BY DEF Calls
<1>4. CASE StartBegins(a)
  <2>1. Moved(a, "start", launched, <<>>)
    BY <1>4 DEF StartBegins, Become, Moved
  <2> QED
    BY <1>1, <1>2, <1>4, <2>1, WaysBackFacts DEF StartBegins
<1>5. CASE StartSucceeds(a)
  <2>1. Moved(a, "idle", Bundled, <<>>)
    BY <1>5 DEF StartSucceeds, Idle, Moved
  <2> QED
    BY <1>1, <1>2, <1>5, <2>1, WaysBackFacts DEF StartSucceeds
<1>6. ASSUME NEW to \in {"stop", "failed"}, Goto(a, to), UNCHANGED <<disk, memory, restarts>>,
             crossed' \in BOOLEAN
      PROVE  WaysBack'
  <2>1. Moved(a, to, call[a].runtime, call[a].history)
    BY <1>0, <1>3, <1>6, Moves DEF WaysBack
  <2> QED
    BY <1>0, <1>1, <1>6, <2>1, WaysBackFacts
<1>7. CASE StartFails(a)
  BY <1>6, <1>7, WaysBackFacts DEF StartFails
<1>8. CASE FallbackBegins(a)
  <2>1. crossed' \in BOOLEAN
    BY <1>8, WaysBackFacts DEF FallbackBegins, Meets
  <2> QED
    BY <1>0, <1>6, <1>8, <2>1, RollbackKeepsWays DEF FallbackBegins
<1> QED
  BY <1>4, <1>5, <1>7, <1>8

-----------------------------------------------------------------------------
(* installLatest().                                                        *)
LEMMA InstallKeepsWays ==
    ASSUME WaysBack,
           \/ InstallBegins \/ InstallFails \/ InstallRecords \/ InstallEnds
           \/ \E v \in Versions : InstallChecks(v)
    PROVE  WaysBack'
<1> USE DEF disk, memory
<1>0. User \in Callers
  BY DEF Callers
<1> DEFINE rt == call[User].runtime
           h == call[User].history
<1>1. ASSUME NEW to \in {"request", "recorded"}, Goto(User, to), WaysBack,
             UNCHANGED <<installed, installs, selected, history, launched, warning, restarts>>,
             active' \in [runtime : Runtimes, history : Seq(Runtimes)],
             Len(active'.history) <= Recordable, Stacked(active'.runtime, active'.history),
             to = "recorded" => Stacked(rt, h),
             installing' \in BOOLEAN, crossed' \in BOOLEAN
      PROVE  WaysBack'
  <2>1. to \in Calls \ {"staged"} /\ (to \in {"write", "finish", "record", "recorded"} => to = "recorded")
    BY DEF Calls
  <2>2. Moved(User, to, rt, h)
    BY <1>0, <1>1, <2>1, Moves DEF WaysBack
  <2> QED
    BY <1>0, <1>1, <2>1, <2>2, OrdinaryStep, WaysBackFacts
<1>2. CASE InstallBegins
  <2>1. crossed' \in BOOLEAN
    BY <1>2, WaysBackFacts DEF InstallBegins, Meets
  <2> QED
    BY <1>1, <1>2, <2>1, WaysBackFacts DEF InstallBegins
<1>3. ASSUME NEW v \in Versions, InstallChecks(v) PROVE WaysBack'
  <2>1. Moved(User, "stage", [id |-> 0, version |-> v], <<>>)
    BY <1>3 DEF InstallChecks, Become, Moved
  <2>2. [id |-> 0, version |-> v] \in Runtimes /\ "stage" \in Calls \ {"staged"}
        /\ "stage" \notin {"write", "finish", "record", "recorded"}
    BY UpdaterAssumption DEF Runtimes, Calls
  <2>3. Len(<<>>) <= Recordable /\ <<>> \in Seq(Runtimes)
    BY WaysBackFacts, BundledStack
  <2> QED
    BY <1>0, <1>3, <2>1, <2>2, <2>3, OrdinaryStep, WaysBackFacts DEF InstallChecks
<1>4. ASSUME Moved(User, "idle", Bundled, <<>>), UNCHANGED <<disk, launched, restarts, crossed>>,
             selected' \in Runtimes, history' \in Seq(Runtimes), Stacked(selected', history'),
             Len(history') <= Recordable, warning' \in BOOLEAN, installing' \in BOOLEAN
      PROVE  WaysBack'
  <2>1. "idle" \in Calls \ {"staged"} /\ "idle" \notin {"write", "finish", "record", "recorded"}
    BY DEF Calls
  <2>2. Len(<<>>) <= Recordable /\ <<>> \in Seq(Runtimes) /\ Bundled \in Runtimes
    BY WaysBackFacts, BundledStack
  <2> QED
    BY <1>0, <1>4, <2>1, <2>2, OrdinaryStep, WaysBackFacts
<1>5. CASE InstallFails
  <2>1. Moved(User, "idle", Bundled, <<>>)
    BY <1>5 DEF InstallFails, Moved, Idle
  <2> QED
    BY <1>4, <1>5, <2>1, WaysBackFacts DEF InstallFails
<1>6. CASE InstallRecords
  <2>1. rt \in Runtimes /\ h \in Seq(Runtimes) /\ Stacked(rt, h) /\ Len(h) <= Recordable
    BY <1>0, <1>6, WaysBackFacts DEF InstallRecords, At, Carries
  <2> QED
    BY <1>1, <1>6, <2>1, WaysBackFacts DEF InstallRecords
<1>7. CASE InstallEnds
  <2>1. rt \in Runtimes /\ h \in Seq(Runtimes) /\ Stacked(rt, h) /\ Len(h) <= Recordable
    BY <1>0, <1>7, WaysBackFacts DEF InstallEnds, At, Carries
  <2>2. Moved(User, "idle", Bundled, <<>>)
    BY <1>7 DEF InstallEnds, Moved, Idle
  <2> QED
    BY <1>4, <1>7, <2>1, <2>2, WaysBackFacts DEF InstallEnds
<1> QED
  BY <1>2, <1>3, <1>5, <1>6, <1>7

(* The new directory is counted before a record mentions it.               *)
LEMMA RenameKeepsWays == ASSUME WaysBack, InstallRenames PROVE WaysBack'
<1> USE DEF disk, memory
<1> DEFINE rt == [call[User].runtime EXCEPT !.id = installs + 1]
<1>0. User \in Callers /\ "staged" \in Calls
  BY DEF Callers, Calls
<1>1. installs \in Nat /\ installs + 1 \in 0..MaxInstalls /\ installed \subseteq 1..installs
  BY UpdaterAssumption DEF WaysBack, Shape, InstallRenames
<1>2. call[User].runtime \in Runtimes /\ <<>> \in Seq(Runtimes) /\ Len(<<>>) = 0
  BY <1>0, WaysBackFacts, BundledStack
<1>3. rt \in Runtimes
  BY <1>1, <1>2 DEF Runtimes
<1>4. Moved(User, "staged", rt, <<>>)
  BY DEF InstallRenames, Moved, Become
<1>5. call[User].pc = "stage" /\ call'[User].pc = "staged" /\ installs' = installs + 1
      /\ installed' = installed \cup {installs + 1}
  BY <1>0, <1>2, <1>3, <1>4, MovedCalls DEF InstallRenames, At, WaysBack
<1>6. Recordable = installs /\ Recordable' = installs
  <2>1. Recordable = installs
    BY <1>5 DEF Recordable, At
  <2>2. Recordable' = installs' - 1
    BY <1>5 DEF Recordable, At
  <2>3. PICK n \in Nat : n = installs
    BY <1>1
  <2>4. Recordable' = (n + 1) - 1
    BY <1>5, <2>2, <2>3
  <2> QED
    BY <2>1, <2>3, <2>4
<1>7. installs' > 0 /\ installs <= installs' /\ installed' \subseteq 1..installs'
  BY <1>1, <1>5
<1>8. UNCHANGED <<active, selected, history, launched, warning, installing, restarts, crossed>>
  BY DEF InstallRenames
<1>9. Recordable <= Recordable'
  BY <1>1, <1>6
<1>10. Len(<<>>) <= Recordable' /\ Len(history') <= Recordable' /\ Len(active'.history) <= Recordable'
  BY <1>1, <1>2, <1>6, <1>8, WaysBackFacts
<1>11. restarts' \in 0..MaxRestarts
  BY <1>8 DEF WaysBack, Shape
<1>12. "staged" \notin {"write", "finish", "record", "recorded"}
  OBVIOUS
<1> HIDE DEF rt
<1> QED
  BY <1>0, <1>1, <1>2, <1>3, <1>4, <1>5, <1>7, <1>8, <1>9, <1>10, <1>11, <1>12,
     KeepsWaysBack, WaysBackFacts

(* The record remembers the runtime that the new one replaces.             *)
LEMMA ComposeKeepsWays == ASSUME WaysBack, InstallComposes PROVE WaysBack'
<1> USE DEF disk, memory
<1> DEFINE rt == call[User].runtime
           h == Append(history, selected)
<1>0. User \in Callers /\ "record" \in Calls
  BY DEF Callers, Calls
<1>1. installs \in Nat /\ installs \in 0..MaxInstalls /\ installed \subseteq 1..installs
      /\ restarts \in 0..MaxRestarts
  BY UpdaterAssumption DEF WaysBack, Shape
<1>2. rt \in Runtimes /\ rt # Bundled
  <2>1. rt.id \in 1..installs
    BY <1>1 DEF InstallComposes
  <2> QED
    BY <1>0, <2>1, WaysBackFacts, RuntimeTypes
<1>3. h \in Seq(Runtimes) /\ Len(h) = Len(history) + 1 /\ Stacked(rt, h)
  BY <1>2, PushOnStack, WaysBackFacts
<1>4. Moved(User, "record", rt, h)
  BY DEF InstallComposes, Moved, Become
<1>5. call[User].pc = "staged" /\ call'[User].pc = "record" /\ UNCHANGED <<disk, memory, restarts, crossed>>
  BY <1>0, <1>2, <1>3, <1>4, MovedCalls DEF InstallComposes, At, WaysBack
<1>6. Recordable = installs - 1 /\ Recordable' = installs
  BY <1>5 DEF Recordable, At
<1>7. Len(history) \in Nat /\ Len(active.history) \in Nat
  BY WaysBackFacts
<1>8. Len(h) <= Recordable' /\ Len(history') <= Recordable' /\ Len(active'.history) <= Recordable'
  <2>1. Len(history) <= installs - 1 /\ Len(active.history) <= installs - 1
    BY <1>6, WaysBackFacts
  <2>2. Len(history) + 1 <= installs /\ Len(history) <= installs /\ Len(active.history) <= installs
    BY <1>1, <1>7, <2>1
  <2> QED
    BY <1>3, <1>5, <1>6, <2>2
<1>9. Recordable <= Recordable' /\ installs <= installs' /\ "record" # "staged"
  BY <1>1, <1>5, <1>6
<1> HIDE DEF rt, h
<1> QED
  BY <1>0, <1>1, <1>2, <1>3, <1>4, <1>5, <1>8, <1>9, KeepsWaysBack, WaysBackFacts

(* A restart takes what the record says, as far as it is there.            *)
LEMMA RestartKeepsWays == ASSUME WaysBack, Restart PROVE WaysBack'
<1> USE DEF disk, memory
<1> DEFINE rt == active.runtime
           kept == Load(active.history, rt)
<1>1. rt \in Runtimes /\ active.history \in Seq(Runtimes) /\ Stacked(rt, active.history)
      /\ Len(active.history) <= Recordable /\ Recordable \in Nat
  BY WaysBackFacts
<1>2. installs \in Nat /\ installs \in 0..MaxInstalls /\ installed \subseteq 1..installs
      /\ restarts \in 0..MaxRestarts
  BY UpdaterAssumption DEF WaysBack, Shape
<1>3. Recordable <= installs
  BY <1>2 DEF Recordable
<1>4. /\ selected' \in Runtimes /\ history' \in Seq(Runtimes) /\ Stacked(selected', history')
      /\ Len(history') <= installs
  <2>1. CASE rt.id \in installed
    <3>1. rt # Bundled
      BY <1>2, <2>1, RuntimeTypes
    <3>2. kept \in Seq(Runtimes) /\ Len(kept) <= Len(active.history) /\ Stacked(rt, kept)
      BY <1>1, <3>1, LoadedStack
    <3>3. Len(kept) \in Nat /\ Len(active.history) \in Nat
      BY <1>1, <3>2
    <3>4. Len(kept) <= installs
      BY <1>1, <1>2, <1>3, <3>2, <3>3
    <3>5. selected' = rt /\ history' = kept
      BY <2>1 DEF Restart
    <3> QED
      BY <1>1, <3>2, <3>4, <3>5
  <2>2. CASE rt.id \notin installed
    <3>1. selected' = Bundled /\ history' = <<>>
      BY <2>2 DEF Restart
    <3> QED
      BY <1>2, <3>1, BundledStack
  <2> QED
    BY <2>1, <2>2
<1>5. /\ launched' = selected' /\ warning' \in BOOLEAN /\ installing' \in BOOLEAN
      /\ restarts' \in 0..MaxRestarts /\ UNCHANGED <<disk, crossed>>
      /\ call' = [c \in Callers |-> Idle]
  <2>1. restarts' \in 0..MaxRestarts
    BY <1>2, UpdaterAssumption DEF Restart
  <2>2. warning' \in BOOLEAN
    BY DEF Restart
  <2> QED
    BY <2>1, <2>2 DEF Restart
<1>6. Idle \in [pc : Calls, runtime : Runtimes, history : Seq(Runtimes)] /\ Idle.pc = "idle"
      /\ Idle.history = <<>>
  BY BundledStack DEF Idle, Calls
<1>7. Shape'
  <2>1. call' \in [Callers -> [pc : Calls, runtime : Runtimes, history : Seq(Runtimes)]]
    BY <1>5, <1>6
  <2> QED
    BY <1>2, <1>4, <1>5, <2>1, WaysBackFacts DEF Shape
<1>8. \A c \in Callers : call'[c].pc = "idle" /\ call'[c].history = <<>>
  BY <1>5, <1>6
<1>9. Bounded'
  <2>1. call'[User].pc # "staged"
    BY <1>8 DEF Callers
  <2>2. Recordable' = installs
    BY <1>5, <2>1 DEF Recordable, At
  <2>3. Len(active.history) <= installs
    <3>1. Len(active.history) \in Nat
      BY <1>1
    <3> QED
      BY <1>1, <1>2, <1>3, <3>1
  <2>4. \A c \in Callers : Len(call'[c].history) <= installs
    BY <1>2, <1>8, BundledStack
  <2> QED
    BY <1>4, <1>5, <2>1, <2>2, <2>3, <2>4 DEF Bounded, At
<1>10. AllStacked'
  <2>1. \A c \in Callers : ~Carries(c)'
    BY <1>8 DEF Carries
  <2>2. Stacked(active'.runtime, active'.history)
    BY <1>1, <1>5
  <2> QED
    BY <1>4, <2>1, <2>2, Zenon DEF AllStacked, Stacked, EndsBundled, Carries
<1>11. Roles'
  BY <1>8 DEF Roles, Callers, Installing
<1> QED
  BY <1>7, <1>9, <1>10, <1>11 DEF WaysBack

-----------------------------------------------------------------------------
LEMMA VanishKeepsWays == ASSUME WaysBack, NEW i \in Vanishing, Vanish(i) PROVE WaysBack'
<1>1. /\ UNCHANGED <<installs, active, selected, history, launched, warning, installing, call,
                      restarts, crossed>>
      /\ installed' \subseteq installed
  BY DEF Vanish, memory
<1>2. Shape'
  BY <1>1 DEF WaysBack, Shape
<1>3. Recordable' = Recordable
  BY <1>1 DEF Recordable, At
<1>4. Bounded'
  BY <1>1, <1>3 DEF WaysBack, Bounded, At
<1>5. AllStacked'
  BY <1>1 DEF WaysBack, AllStacked, Carries, Stacked, EndsBundled
<1>6. Roles'
  BY <1>1 DEF WaysBack, Roles
<1> QED
  BY <1>2, <1>4, <1>5, <1>6 DEF WaysBack

LEMMA WaysBackStep == WaysBack /\ [Next]_vars => WaysBack'
<1> SUFFICES ASSUME WaysBack, [Next]_vars PROVE WaysBack'
  OBVIOUS
<1>1. ASSUME NEW c \in Callers,
             \/ RollbackWrites(c) \/ RollbackEnds(c) \/ ClearRecord(c) \/ ClearEnds(c)
             \/ ResetRecord(c) \/ ResetEnds(c)
      PROVE  WaysBack'
  BY <1>1, WritesKeepWays, EndsKeepWays
<1>2. ASSUME NEW a \in Starters,
             StartBegins(a) \/ StartSucceeds(a) \/ StartFails(a) \/ StartStep(a)
      PROVE  WaysBack'
  BY <1>1, <1>2, StartsKeepWays DEF StartStep, Callers
<1>3. CASE RollbackBegins
  <2>1. crossed' \in BOOLEAN
    BY <1>3, WaysBackFacts DEF RollbackBegins, Meets
  <2> QED
    BY <1>3, <2>1, RollbackKeepsWays DEF RollbackBegins, Callers
<1>4. CASE InstallBegins
  BY <1>4, InstallKeepsWays
<1>5. CASE UserStep
  BY <1>1, <1>5, InstallKeepsWays, RenameKeepsWays, ComposeKeepsWays DEF UserStep, Callers
<1>6. CASE Restart
  BY <1>6, RestartKeepsWays
<1>7. CASE \E i \in Vanishing : Vanish(i)
  BY <1>7, VanishKeepsWays
<1>8. CASE UNCHANGED vars
  BY <1>8 DEF vars, disk, memory, WaysBack, Shape, Bounded, Recordable, AllStacked, Carries,
              Stacked, EndsBundled, Roles, At
<1> QED
  BY <1>2, <1>3, <1>4, <1>5, <1>6, <1>7, <1>8 DEF Next

LEMMA InitWaysBack == Init => WaysBack
<1> SUFFICES ASSUME Init PROVE WaysBack
  OBVIOUS
<1>1. Idle \in [pc : Calls, runtime : Runtimes, history : Seq(Runtimes)] /\ Idle.pc = "idle"
      /\ Idle.history = <<>>
  BY BundledStack DEF Idle, Calls
<1>2. \A c \in Callers : call[c].pc = "idle" /\ call[c].history = <<>>
  BY <1>1 DEF Init
<1>3. Shape
  <2>1. call \in [Callers -> [pc : Calls, runtime : Runtimes, history : Seq(Runtimes)]]
    BY <1>1 DEF Init
  <2>2. installed \subseteq 1..installs /\ installs \in 0..MaxInstalls /\ restarts \in 0..MaxRestarts
    BY UpdaterAssumption DEF Init
  <2>3. active \in [runtime : Runtimes, history : Seq(Runtimes)]
    BY BundledStack DEF Init
  <2>4. /\ selected \in Runtimes /\ launched \in Runtimes /\ history \in Seq(Runtimes)
        /\ warning \in BOOLEAN /\ installing \in BOOLEAN /\ crossed \in BOOLEAN
    BY BundledStack DEF Init
  <2> QED
    BY <2>1, <2>2, <2>3, <2>4 DEF Shape
<1>4. ~At(User, "staged") /\ Recordable = 0
  BY <1>2 DEF At, Recordable, Init, Callers
<1>5. Bounded
  BY <1>2, <1>4, BundledStack DEF Bounded, Init
<1>6. AllStacked
  BY <1>2, BundledStack DEF AllStacked, Carries, Init
<1>7. Roles
  BY <1>2 DEF Roles, Installing, Callers
<1> QED
  BY <1>3, <1>5, <1>6, <1>7 DEF WaysBack

(* The types: no history outgrows the installs.                            *)
LEMMA WaysBackTypes == WaysBack => TypeOK
<1> SUFFICES ASSUME WaysBack PROVE TypeOK
  OBVIOUS
<1>1. Recordable \in Nat /\ Recordable <= MaxInstalls /\ MaxInstalls \in Nat
  <2>1. installs \in Nat /\ installs <= MaxInstalls /\ MaxInstalls \in Nat
    BY UpdaterAssumption DEF WaysBack, Shape
  <2> QED
    BY <2>1, WaysBackFacts DEF Recordable
<1>2. \A h \in Seq(Runtimes) : Len(h) <= Recordable => h \in Histories
  BY <1>1 DEF Histories
<1>3. active \in [runtime : Runtimes, history : Histories] /\ history \in Histories
  BY <1>2, WaysBackFacts
<1>4. call \in [Callers -> [pc : Calls, runtime : Runtimes, history : Histories]]
  BY <1>2 DEF WaysBack, Shape, Bounded
<1> QED
  BY <1>3, <1>4 DEF WaysBack, Shape, TypeOK

(* TypeOK: every value that the updater keeps has its type, and a history  *)
(* never outgrows the installs.                                            *)
THEOREM UpdaterTypes == Spec => []TypeOK
<1>1. WaysBack /\ [Next]_vars => WaysBack'
  BY WaysBackStep
<1> QED
  BY InitWaysBack, WaysBackTypes, <1>1, PTL DEF Spec

-----------------------------------------------------------------------------
(* Two calls that are not changes move freely.                             *)
LEMMA StartsKeepApart ==
    ASSUME WaysBack, Apart, NEW c \in Callers, NEW pc \in {"idle", "start", "stop", "failed"},
           NEW rt \in Runtimes, NEW h \in Seq(Runtimes), Moved(c, pc, rt, h),
           ~Changing(c), UNCHANGED <<disk, memory>>
    PROVE  Apart'
<1> USE DEF disk, memory
<1>0. pc \in Calls
  BY DEF Calls
<1>1. /\ call'[c].pc = pc /\ \A d \in Callers : d # c => call'[d] = call[d]
  BY <1>0, MovedCalls DEF WaysBack
<1>2. call[c].pc \in {"idle", "failed", "start", "stop"}
  BY DEF Changing
<1>3. OneChange'
  <2>1. \A d \in Callers : Changing(d)' => Changing(d)
    BY <1>1 DEF Changing
  <2> QED
    BY <2>1 DEF Apart, OneChange, Changing
<1>4. AllClimb'
  <2>1. \A d \in Callers : Carries(d)' => d # c
    BY <1>1 DEF Carries
  <2>2. \A d \in Callers : Carries(d)' => Climbs(call'[d].runtime, call'[d].history)
    BY <1>1, <2>1 DEF Apart, AllClimb, Carries
  <2>3. Climbs(selected, history)' /\ Climbs(active.runtime, active.history)'
    BY DEF Apart, AllClimb, Climbs
  <2> QED
    BY <2>2, <2>3, Zenon DEF AllClimb, Climbs, Carries
<1>5. StagedIsNewer'
  BY <1>1 DEF Apart, StagedIsNewer, Callers
<1>6. RecordInStep'
  <2>1. \A d \in Callers :
           /\ call'[d].pc \in {"finish", "recorded"} => active.runtime = call'[d].runtime
           /\ call'[d].pc \in {"cleared", "wiped"} => active = NoRecord
           /\ call'[d].pc \in {"clear", "cleared"} => selected = Bundled
    BY <1>1 DEF Apart, RecordInStep
  <2>2. (\A d \in Callers : call'[d].pc \notin {"finish", "recorded", "wiped"}) => Agrees
    BY <1>1, <1>2 DEF Apart, RecordInStep
  <2> QED
    BY <2>1, <2>2 DEF RecordInStep, Agrees, NoRecord, Bundled
<1> QED
  BY <1>3, <1>4, <1>5, <1>6 DEF Apart

(* A change that is alone keeps all in step, when what it puts in place    *)
(* does.                                                                   *)
LEMMA ChangeKeepsApart ==
    ASSUME WaysBack, Apart, NEW c \in Callers, NEW pc \in Calls, NEW rt \in Runtimes,
           NEW h \in Seq(Runtimes), Moved(c, pc, rt, h),
           \A d \in Callers : d # c => ~Changing(d),
           Climbs(selected', history'), Climbs(active'.runtime, active'.history),
           pc \in {"write", "finish", "record", "recorded"} => Climbs(rt, h),
           pc \in {"stage", "staged"} => rt.version > selected'.version,
           pc \in {"finish", "recorded"} => active'.runtime = rt,
           pc \in {"cleared", "wiped"} => active' = NoRecord,
           pc \in {"clear", "cleared"} => selected' = Bundled,
           pc \notin {"finish", "recorded", "wiped"} =>
               active'.runtime = selected' \/ active'.runtime.id \notin installed'
    PROVE  Apart'
<1>1. /\ call'[c].pc = pc /\ call'[c].runtime = rt /\ call'[c].history = h
      /\ \A d \in Callers : d # c => call'[d] = call[d]
  BY MovedCalls DEF WaysBack
<1>2. \A d \in Callers : d # c => call'[d].pc \in {"idle", "failed", "start", "stop"}
  BY <1>1 DEF Changing
<1>3. OneChange'
  BY <1>2 DEF OneChange, Changing
<1>4. AllClimb'
  <2>1. \A d \in Callers : Carries(d)' => d = c
    BY <1>2 DEF Carries
  <2>2. \A d \in Callers : Carries(d)' => Climbs(call'[d].runtime, call'[d].history)
    BY <1>1, <2>1 DEF Carries
  <2> QED
    BY <2>2, Zenon DEF AllClimb, Climbs, Carries
<1>5. StagedIsNewer'
  BY <1>1, <1>2 DEF StagedIsNewer, Callers
<1>6. RecordInStep'
  <2>1. \A d \in Callers :
           /\ call'[d].pc \in {"finish", "recorded"} => active'.runtime = call'[d].runtime
           /\ call'[d].pc \in {"cleared", "wiped"} => active' = NoRecord
           /\ call'[d].pc \in {"clear", "cleared"} => selected' = Bundled
    <3> SUFFICES ASSUME NEW d \in Callers
                 PROVE  /\ call'[d].pc \in {"finish", "recorded"} => active'.runtime = call'[d].runtime
                        /\ call'[d].pc \in {"cleared", "wiped"} => active' = NoRecord
                        /\ call'[d].pc \in {"clear", "cleared"} => selected' = Bundled
      OBVIOUS
    <3>1. CASE d = c
      BY <1>1, <3>1
    <3>2. CASE d # c
      BY <1>2, <3>2
    <3> QED
      BY <3>1, <3>2
  <2>2. (\A d \in Callers : call'[d].pc \notin {"finish", "recorded", "wiped"}) => Agrees'
    BY <1>1 DEF Agrees
  <2> QED
    BY <2>1, <2>2 DEF RecordInStep, NoRecord, Bundled
<1> QED
  BY <1>3, <1>4, <1>5, <1>6 DEF Apart

(* A change that goes on is alone.                                         *)
LEMMA ChangeIsAlone ==
    ASSUME Apart, NEW c \in Callers, Changing(c)
    PROVE  \A d \in Callers : d # c => ~Changing(d)
BY DEF Apart, OneChange

(* What a state before the step offers.                                    *)
LEMMA ApartFacts ==
    ASSUME Apart, NEW c \in Callers
    PROVE  /\ Climbs(selected, history) /\ Climbs(active.runtime, active.history)
           /\ Carries(c) => Climbs(call[c].runtime, call[c].history)
           /\ call[c].pc \in {"finish", "recorded"} => active.runtime = call[c].runtime
           /\ call[c].pc \in {"cleared", "wiped"} => active = NoRecord
           /\ call[c].pc \in {"clear", "cleared"} => selected = Bundled
           /\ (\A d \in Callers : d # c => ~Changing(d))
                 /\ call[c].pc \notin {"finish", "recorded", "wiped"} => Agrees
<1>1. (\A d \in Callers : d # c => ~Changing(d)) /\ call[c].pc \notin {"finish", "recorded", "wiped"}
          => Agrees
  <2> SUFFICES ASSUME \A d \in Callers : d # c => ~Changing(d),
                      call[c].pc \notin {"finish", "recorded", "wiped"}
               PROVE  Agrees
    OBVIOUS
  <2>1. \A d \in Callers : call[d].pc \notin {"finish", "recorded", "wiped"}
    BY DEF Changing
  <2> QED
    BY <2>1 DEF Apart, RecordInStep
<1> QED
  BY <1>1 DEF Apart, AllClimb, RecordInStep

(* The empty way back climbs, and does below the bundled runtime.          *)
LEMMA EmptyClimbs ==
    /\ \A rt : Climbs(rt, <<>>)
    /\ Climbs(NoRecord.runtime, NoRecord.history)
BY DEF Climbs, NoRecord

LEMMA RollbackKeepsApart ==
    ASSUME WaysBack, Apart, NEW c \in Callers, NEW pc \in {"reset", "idle"}, Rollback(c, pc),
           call[c].pc \in {"idle", "stop"}, \A d \in Callers : d # c => ~Changing(d),
           UNCHANGED <<disk, memory>>
    PROVE  Apart'
<1> USE DEF disk, memory
<1>0. /\ Climbs(selected, history) /\ Climbs(active.runtime, active.history)
      /\ Climbs(selected', history') /\ Climbs(active'.runtime, active'.history)
      /\ active'.runtime = selected' \/ active'.runtime.id \notin installed'
  <2>1. Agrees /\ Climbs(selected, history) /\ Climbs(active.runtime, active.history)
    BY ApartFacts
  <2>2. UNCHANGED <<selected, history, active, installed>>
    OBVIOUS
  <2> QED
    BY <2>1, <2>2 DEF Agrees
<1>1. ASSUME NEW to \in {"reset", "idle", "clear"}, Goto(c, to), to = "clear" => selected = Bundled
      PROVE  Apart'
  <2>1. to \in Calls /\ to \notin {"write", "finish", "record", "recorded"}
        /\ to \notin {"stage", "staged"} /\ to \notin {"cleared", "wiped"}
    BY DEF Calls
  <2>2. Moved(c, to, call[c].runtime, call[c].history)
    BY <1>1, <2>1, Moves DEF WaysBack
  <2> QED
    BY <1>0, <1>1, <2>1, <2>2, ChangeKeepsApart, WaysBackFacts
<1>2. ASSUME history # <<>>, Become(c, "write", Target, Shorter) PROVE Apart'
  <2>1. "write" \in Calls
    BY DEF Calls
  <2>2. Moved(c, "write", Target, Shorter)
    BY <1>2, <2>1, Moves DEF WaysBack
  <2>3. Target \in Runtimes /\ Shorter \in Seq(Runtimes) /\ Climbs(Target, Shorter)
    <3>1. selected \in Runtimes /\ history \in Seq(Runtimes) /\ Stacked(selected, history)
      BY WaysBackFacts
    <3>2. Target = history[Len(history)] /\ Shorter = SubSeq(history, 1, Len(history) - 1)
      BY DEF Target, Shorter
    <3> QED
      BY <1>0, <1>2, <3>1, <3>2, TopOfStack
  <2> QED
    BY <1>0, <2>1, <2>2, <2>3, ChangeKeepsApart
<1>3. warning /\ selected = Bundled => selected = Bundled
  OBVIOUS
<1> QED
  BY <1>1, <1>2, WaysBackFacts DEF Rollback

(* The steps that write the record on disk.                                *)
LEMMA WritesKeepApart ==
    ASSUME WaysBack, Apart, NEW c \in Callers,
           RollbackWrites(c) \/ ClearRecord(c) \/ ResetRecord(c)
    PROVE  Apart'
<1> USE DEF disk, memory
<1> DEFINE rt == call[c].runtime
           h == call[c].history
<1>0. /\ UNCHANGED <<installed, selected, history>> /\ Climbs(selected', history')
      /\ rt \in Runtimes /\ h \in Seq(Runtimes)
      /\ \A d \in Callers : d # c => ~Changing(d)
  <2>1. UNCHANGED <<installed, selected, history>>
    BY DEF RollbackWrites, ClearRecord, ResetRecord
  <2>2. Changing(c)
    BY DEF RollbackWrites, ClearRecord, ResetRecord, At, Changing
  <2> QED
    BY <2>1, <2>2, ApartFacts, WaysBackFacts, ChangeIsAlone
<1>1. ASSUME NEW to \in {"finish", "cleared", "wiped"}, Goto(c, to), active' = NoRecord,
             to = "finish" => rt = Bundled /\ Climbs(rt, h), to = "cleared" => selected = Bundled
      PROVE  Apart'
  <2>1. to \in Calls /\ (to \in {"write", "finish", "record", "recorded"} => to = "finish")
        /\ to \notin {"stage", "staged"}
    BY DEF Calls
  <2>2. Moved(c, to, rt, h)
    BY <1>1, <2>1, Moves DEF WaysBack
  <2>3. Climbs(active'.runtime, active'.history) /\ active'.runtime = Bundled
    BY <1>1, EmptyClimbs, BundledStack
  <2> QED
    BY <1>0, <1>1, <2>1, <2>2, <2>3, ChangeKeepsApart
<1>2. CASE RollbackWrites(c)
  <2>1. Climbs(rt, h) /\ Agrees /\ Climbs(active.runtime, active.history)
    BY <1>0, <1>2, ApartFacts DEF RollbackWrites, At, Carries
  <2>2. CASE rt = Bundled /\ active' = NoRecord /\ Goto(c, "finish")
    BY <1>1, <2>1, <2>2
  <2>3. CASE active' = [runtime |-> rt, history |-> h] /\ Goto(c, "finish")
    <3>1. "finish" \in Calls
      BY DEF Calls
    <3>2. Moved(c, "finish", rt, h)
      BY <2>3, <3>1, Moves DEF WaysBack
    <3>3. active'.runtime = rt /\ active'.history = h
      BY <2>3
    <3> HIDE DEF rt, h
    <3> QED
      BY <1>0, <2>1, <3>1, <3>2, <3>3, ChangeKeepsApart
  <2>4. ASSUME NEW to \in {"idle", "reset"}, UNCHANGED active, Goto(c, to) PROVE Apart'
    <3>1. to \in Calls /\ to \notin {"write", "finish", "record", "recorded"}
          /\ to \notin {"stage", "staged"} /\ to \notin {"clear", "cleared", "wiped"}
      BY DEF Calls
    <3>2. Moved(c, to, rt, h)
      BY <2>4, <3>1, Moves DEF WaysBack
    <3>3. /\ active'.runtime = selected' \/ active'.runtime.id \notin installed'
          /\ Climbs(active'.runtime, active'.history)
      BY <1>0, <2>1, <2>4 DEF Agrees
    <3> HIDE DEF rt, h
    <3> QED
      BY <1>0, <3>1, <3>2, <3>3, ChangeKeepsApart
  <2> QED
    BY <1>2, <2>2, <2>3, <2>4 DEF RollbackWrites
<1>3. CASE ClearRecord(c)
  <2>1. selected = Bundled
    BY <1>3, ApartFacts DEF ClearRecord, At
  <2> QED
    BY <1>1, <1>3, <2>1 DEF ClearRecord
<1>4. CASE ResetRecord(c)
  BY <1>1, <1>4 DEF ResetRecord
<1> QED
  BY <1>2, <1>3, <1>4

(* The steps that put a runtime into memory.                               *)
LEMMA EndsKeepApart ==
    ASSUME WaysBack, Apart, NEW c \in Callers, RollbackEnds(c) \/ ClearEnds(c) \/ ResetEnds(c)
    PROVE  Apart'
<1> USE DEF disk, memory
<1>0. \A d \in Callers : d # c => ~Changing(d)
  <2>1. Changing(c)
    BY DEF RollbackEnds, ClearEnds, ResetEnds, At, Changing
  <2> QED
    BY <2>1, ChangeIsAlone
<1>1. ASSUME NEW rt \in Runtimes, Return(c, rt), UNCHANGED <<disk>>,
             Climbs(selected', history'), active'.runtime = selected'
      PROVE  Apart'
  <2>1. ASSUME NEW to \in {"idle", "start"}, NEW to_rt \in Runtimes, Moved(c, to, to_rt, <<>>)
        PROVE  Apart'
    <3>1. to \in Calls /\ to \notin {"write", "finish", "record", "recorded"}
          /\ to \notin {"stage", "staged"} /\ to \notin {"clear", "cleared", "wiped"}
      BY DEF Calls
    <3>2. Climbs(active'.runtime, active'.history) /\ <<>> \in Seq(Runtimes)
      BY <1>1, ApartFacts, BundledStack
    <3> QED
      BY <1>0, <1>1, <2>1, <3>1, <3>2, ChangeKeepsApart
  <2>2. CASE c = User
    <3>1. Moved(c, "idle", Bundled, <<>>)
      BY <1>1, <2>2 DEF Return, Moved, Idle
    <3> QED
      BY <2>1, <3>1, BundledStack
  <2>3. CASE c # User
    <3>1. Moved(c, "start", rt, <<>>)
      BY <1>1, <2>3 DEF Return, Moved, Become
    <3> QED
      BY <1>1, <2>1, <3>1
  <2> QED
    BY <2>2, <2>3
<1>2. CASE RollbackEnds(c)
  <2>1. /\ call[c].runtime \in Runtimes /\ Climbs(call[c].runtime, call[c].history)
        /\ active.runtime = call[c].runtime
    BY <1>2, ApartFacts, WaysBackFacts DEF RollbackEnds, At, Carries
  <2> QED
    BY <1>1, <1>2, <2>1 DEF RollbackEnds
<1>3. CASE ClearEnds(c)
  <2>1. active = NoRecord /\ selected = Bundled /\ Climbs(selected, history)
    BY <1>3, ApartFacts DEF ClearEnds, At
  <2> QED
    BY <1>1, <1>3, <2>1, BundledStack DEF ClearEnds
<1>4. CASE ResetEnds(c)
  <2>1. active = NoRecord
    BY <1>4, ApartFacts DEF ResetEnds, At
  <2>2. selected' = Bundled /\ Climbs(selected', history')
    BY <1>4, EmptyClimbs DEF ResetEnds
  <2> QED
    BY <1>1, <1>4, <2>1, <2>2, BundledStack DEF ResetEnds
<1> QED
  BY <1>2, <1>3, <1>4

-----------------------------------------------------------------------------
(* A step leaves the numbers of the recorded and of the staged runtime     *)
(* alone, or sets them to those of a directory that was put in place.      *)
LEMMA CountedStep == WaysBack /\ Counted /\ [Next]_vars => Counted'
<1> SUFFICES ASSUME WaysBack, Counted, [Next]_vars PROVE Counted'
  OBVIOUS
<1> USE DEF disk, memory
<1>0. /\ installs \in Nat /\ installed \subseteq 1..installs /\ User \in Callers
      /\ User \notin Starters
      /\ active.runtime.id \in Nat /\ call[User].runtime.id \in Nat
      /\ active.runtime.id <= installs
      /\ call[User].pc \in {"staged", "record"} => call[User].runtime.id <= installs
      /\ call \in [Callers -> [pc : Calls, runtime : Runtimes, history : Seq(Runtimes)]]
  <2>1. User \in Callers /\ User \notin Starters
    BY UpdaterAssumption DEF Callers
  <2>2. installs \in Nat /\ installed \subseteq 1..installs
        /\ call \in [Callers -> [pc : Calls, runtime : Runtimes, history : Seq(Runtimes)]]
    BY UpdaterAssumption DEF WaysBack, Shape
  <2> QED
    BY <2>1, <2>2, WaysBackFacts, RuntimeTypes DEF Counted
<1>1. ASSUME UNCHANGED installs, active'.runtime.id <= installs,
             call'[User].pc \in {"staged", "record"} => call'[User] = call[User]
      PROVE  Counted'
  BY <1>0, <1>1 DEF Counted
<1>2. NoRecord.runtime.id <= installs
  BY <1>0 DEF NoRecord, Bundled
<1>3. \A c \in Callers, pc \in Calls \ {"staged", "record"} :
          Goto(c, pc) => (call'[User].pc \in {"staged", "record"} => call'[User] = call[User])
  BY <1>0 DEF Goto
<1>4. \A c \in Callers, pc \in Calls \ {"staged", "record"}, rt \in Runtimes : \A h :
          Become(c, pc, rt, h) => (call'[User].pc \in {"staged", "record"} => call'[User] = call[User])
  BY <1>0 DEF Become
<1>5. \A c \in Callers : call' = [call EXCEPT ![c] = Idle]
          => (call'[User].pc \in {"staged", "record"} => call'[User] = call[User])
  BY <1>0 DEF Idle
<1>6. {"idle", "start", "stop", "failed", "write", "finish", "reset", "wiped", "clear", "cleared",
       "request", "stage", "recorded"} \subseteq Calls \ {"staged", "record"}
  BY DEF Calls
<1>7. \A c \in Callers, rt \in Runtimes : Return(c, rt)
          => (call'[User].pc \in {"staged", "record"} => call'[User] = call[User])
  BY <1>4, <1>5, <1>6 DEF Return
<1>8. ASSUME NEW c \in Callers, NEW pc \in {"reset", "idle"}, Rollback(c, pc)
      PROVE  call'[User].pc \in {"staged", "record"} => call'[User] = call[User]
  <2>1. history # <<>> => Target \in Runtimes
    BY WaysBackFacts, TopOfStack DEF Target
  <2> QED
    BY <1>3, <1>4, <1>6, <1>8, <2>1 DEF Rollback
<1>9. ASSUME NEW c \in Callers,
             \/ RollbackWrites(c) \/ RollbackEnds(c) \/ ClearRecord(c) \/ ClearEnds(c)
             \/ ResetRecord(c) \/ ResetEnds(c)
      PROVE  Counted'
  <2>1. CASE RollbackWrites(c)
    <3>1. active'.runtime.id <= installs
      <4>1. \A i \in installed : i <= installs
        BY <1>0
      <4>2. CASE active' = NoRecord
        BY <1>2, <4>2
      <4>3. CASE active' = active
        BY <1>0, <4>3
      <4>4. CASE call[c].runtime.id \in installed
                    /\ active' = [runtime |-> call[c].runtime, history |-> call[c].history]
        BY <4>1, <4>4
      <4> QED
        BY <2>1, <4>2, <4>3, <4>4 DEF RollbackWrites
    <3>2. call'[User].pc \in {"staged", "record"} => call'[User] = call[User]
      BY <1>3, <1>6, <2>1 DEF RollbackWrites
    <3> QED
      BY <1>1, <2>1, <3>1, <3>2 DEF RollbackWrites
  <2>2. CASE RollbackEnds(c)
    BY <1>0, <1>1, <1>7, <2>2, WaysBackFacts DEF RollbackEnds
  <2>3. CASE ClearRecord(c)
    BY <1>1, <1>2, <1>3, <1>6, <2>3 DEF ClearRecord
  <2>4. CASE ClearEnds(c)
    BY <1>0, <1>1, <1>7, <2>4, WaysBackFacts DEF ClearEnds
  <2>5. CASE ResetRecord(c)
    BY <1>1, <1>2, <1>3, <1>6, <2>5 DEF ResetRecord
  <2>6. CASE ResetEnds(c)
    BY <1>0, <1>1, <1>7, <2>6, BundledStack DEF ResetEnds
  <2> QED
    BY <1>9, <2>1, <2>2, <2>3, <2>4, <2>5, <2>6
<1>10. ASSUME NEW a \in Starters,
              StartBegins(a) \/ StartSucceeds(a) \/ StartFails(a) \/ StartStep(a)
       PROVE  Counted'
  <2>1. a \in Callers
    BY DEF Callers
  <2>2. CASE StartBegins(a)
    BY <1>0, <1>1, <1>4, <1>6, <2>1, <2>2, WaysBackFacts DEF StartBegins
  <2>3. CASE StartSucceeds(a)
    BY <1>0, <1>1, <1>5, <2>1, <2>3 DEF StartSucceeds
  <2>4. CASE StartFails(a)
    BY <1>0, <1>1, <1>3, <1>6, <2>1, <2>4 DEF StartFails
  <2>5. CASE FallbackBegins(a)
    BY <1>0, <1>1, <1>3, <1>6, <1>8, <2>1, <2>5 DEF FallbackBegins
  <2> QED
    BY <1>9, <1>10, <2>1, <2>2, <2>3, <2>4, <2>5 DEF StartStep
<1>11. CASE RollbackBegins
  BY <1>0, <1>1, <1>8, <1>11 DEF RollbackBegins
<1>12. CASE InstallBegins
  BY <1>0, <1>1, <1>3, <1>6, <1>12 DEF InstallBegins
<1>13. CASE UserStep
  <2>1. ASSUME NEW v \in Versions, InstallChecks(v) PROVE Counted'
    <3>1. [id |-> 0, version |-> v] \in Runtimes
      BY UpdaterAssumption DEF Runtimes
    <3> QED
      BY <1>0, <1>1, <1>4, <1>6, <2>1, <3>1 DEF InstallChecks
  <2>2. CASE InstallFails
    BY <1>0, <1>1, <1>5, <2>2 DEF InstallFails
  <2>3. CASE InstallRenames
    <3>1. call'[User].runtime.id = installs + 1 /\ installs' = installs + 1
          /\ active' = active
      BY <1>0, <2>3 DEF InstallRenames, Become
    <3>2. call[User].runtime \in Runtimes
      BY <1>0
    <3>3. active'.runtime.id <= installs' /\ call'[User].runtime.id <= installs'
      BY <1>0, <3>1
    <3> QED
      BY <3>3 DEF Counted
  <2>4. CASE InstallComposes
    <3>1. call'[User].runtime = call[User].runtime /\ UNCHANGED <<installs, active>>
      BY <1>0, <2>4 DEF InstallComposes, Become
    <3> QED
      BY <1>0, <2>4, <3>1 DEF Counted, InstallComposes, At
  <2>5. CASE InstallRecords
    BY <1>0, <1>1, <1>3, <1>6, <2>5 DEF InstallRecords, At
  <2>6. CASE InstallEnds
    BY <1>0, <1>1, <1>5, <2>6 DEF InstallEnds
  <2> QED
    BY <1>0, <1>9, <1>13, <2>1, <2>2, <2>3, <2>4, <2>5, <2>6 DEF UserStep
<1>14. CASE Restart
  <2>1. call'[User].pc = "idle" /\ UNCHANGED <<active, installs>>
    BY <1>0, <1>14 DEF Restart, Idle
  <2> QED
    BY <1>0, <1>1, <2>1
<1>15. ASSUME NEW i \in Vanishing, Vanish(i) PROVE Counted'
  BY <1>0, <1>1, <1>15 DEF Vanish
<1>16. CASE UNCHANGED vars
  BY <1>0, <1>1, <1>16 DEF vars
<1> QED
  BY <1>10, <1>11, <1>12, <1>13, <1>14, <1>15, <1>16 DEF Next

-----------------------------------------------------------------------------
(* installLatest(), while no other change is under way.                    *)
LEMMA InstallKeepsApart ==
    ASSUME WaysBack, Counted, Apart, \A d \in Callers : d # User => ~Changing(d),
           \/ InstallBegins \/ InstallFails \/ InstallRenames \/ InstallComposes
           \/ InstallRecords \/ InstallEnds \/ \E v \in Versions : InstallChecks(v)
    PROVE  Apart'
<1> USE DEF disk, memory
<1> DEFINE rt == call[User].runtime
           h == call[User].history
<1>0. /\ User \in Callers /\ rt \in Runtimes /\ h \in Seq(Runtimes)
      /\ Bundled \in Runtimes /\ <<>> \in Seq(Runtimes)
      /\ Climbs(selected, history) /\ Climbs(active.runtime, active.history)
      /\ call[User].pc \notin {"finish", "recorded", "wiped"} => Agrees
  <2>1. User \in Callers
    BY DEF Callers
  <2> QED
    BY <2>1, ApartFacts, WaysBackFacts, BundledStack
<1>1. /\ {"request", "stage", "staged", "record", "recorded", "idle"} \subseteq Calls
      /\ UNCHANGED <<active, installed, selected>> /\ Agrees
             => active'.runtime = selected' \/ active'.runtime.id \notin installed'
  BY DEF Calls, Agrees
<1>2. CASE InstallBegins
  <2>1. Moved(User, "request", rt, h)
    BY <1>0, <1>1, <1>2, Moves DEF InstallBegins, WaysBack
  <2>2. UNCHANGED <<active, installed, selected, history>> /\ Agrees
    BY <1>0, <1>2 DEF InstallBegins, At
  <2> QED
    BY <1>0, <1>1, <2>1, <2>2, ChangeKeepsApart
<1>3. ASSUME NEW v \in Versions, InstallChecks(v) PROVE Apart'
  <2> DEFINE new == [id |-> 0, version |-> v]
  <2>1. Moved(User, "stage", new, <<>>)
    BY <1>3 DEF InstallChecks, Become, Moved
  <2>2. UNCHANGED <<active, installed, selected, history>> /\ Agrees
    BY <1>0, <1>3 DEF InstallChecks, At
  <2>3. new \in Runtimes /\ new.version > selected'.version
    BY <1>3, <2>2, UpdaterAssumption DEF InstallChecks, Runtimes
  <2> HIDE DEF new
  <2> QED
    BY <1>0, <1>1, <2>1, <2>2, <2>3, ChangeKeepsApart
<1>4. CASE InstallFails
  <2>1. Moved(User, "idle", Bundled, <<>>)
    BY <1>4 DEF InstallFails, Idle, Moved
  <2>2. UNCHANGED <<active, installed, selected, history>> /\ Agrees
    BY <1>0, <1>4 DEF InstallFails
  <2> QED
    BY <1>0, <1>1, <2>1, <2>2, ChangeKeepsApart
<1>5. CASE InstallRenames
  <2> DEFINE new == [call[User].runtime EXCEPT !.id = installs + 1]
  <2>1. Moved(User, "staged", new, <<>>)
    BY <1>5 DEF InstallRenames, Become, Moved
  <2>2. UNCHANGED <<active, selected, history>> /\ Agrees /\ rt.version > selected.version
    BY <1>0, <1>5 DEF InstallRenames, At, Apart, StagedIsNewer
  <2>3. installs \in Nat /\ installs + 1 \in 0..MaxInstalls
    BY <1>5, UpdaterAssumption DEF WaysBack, Shape, InstallRenames
  <2>4. new \in Runtimes /\ new.version = rt.version
    BY <1>0, <2>3 DEF Runtimes
  <2>5. active'.runtime = selected' \/ active'.runtime.id \notin installed'
    <3>1. active.runtime.id \in Nat /\ active.runtime.id <= installs
      BY WaysBackFacts, RuntimeTypes DEF Counted
    <3>2. active.runtime.id # installs + 1
      BY <2>3, <3>1
    <3> QED
      BY <1>5, <2>2, <3>2 DEF Agrees, InstallRenames
  <2> HIDE DEF new
  <2> QED
    BY <1>0, <1>1, <2>1, <2>2, <2>4, <2>5, ChangeKeepsApart
<1>6. CASE InstallComposes
  <2>1. Moved(User, "record", rt, Append(history, selected))
    BY <1>6 DEF InstallComposes, Become, Moved
  <2>2. UNCHANGED <<active, installed, selected, history>> /\ Agrees /\ rt.version > selected.version
    BY <1>0, <1>6 DEF InstallComposes, At, Apart, StagedIsNewer
  <2>3. rt # Bundled
    <3>1. rt.id \in installed /\ 0 \notin installed
      BY <1>6, UpdaterAssumption DEF InstallComposes, WaysBack, Shape
    <3> QED
      BY <3>1, RuntimeTypes
  <2>4. Append(history, selected) \in Seq(Runtimes) /\ Climbs(rt, Append(history, selected))
    BY <1>0, <2>2, <2>3, PushOnStack, WaysBackFacts
  <2> HIDE DEF rt
  <2> QED
    BY <1>0, <1>1, <2>1, <2>2, <2>4, ChangeKeepsApart
<1>7. CASE InstallRecords
  <2>1. Moved(User, "recorded", rt, h) /\ Climbs(rt, h)
    BY <1>0, <1>1, <1>7, Moves, ApartFacts DEF InstallRecords, WaysBack, At, Carries
  <2>2. active'.runtime = rt /\ active'.history = h /\ UNCHANGED <<selected, history>>
    BY <1>7 DEF InstallRecords
  <2> HIDE DEF rt, h
  <2> QED
    BY <1>0, <1>1, <2>1, <2>2, ChangeKeepsApart
<1>8. CASE InstallEnds
  <2>1. Moved(User, "idle", Bundled, <<>>)
    BY <1>8 DEF InstallEnds, Idle, Moved
  <2>2. Climbs(rt, h) /\ active.runtime = rt
    BY <1>0, <1>8, ApartFacts DEF InstallEnds, At, Carries
  <2>3. active' = active /\ selected' = rt /\ history' = h
    BY <1>8 DEF InstallEnds
  <2> HIDE DEF rt, h
  <2> QED
    BY <1>0, <1>1, <2>1, <2>2, <2>3, ChangeKeepsApart
<1> QED
  BY <1>2, <1>3, <1>4, <1>5, <1>6, <1>7, <1>8

(* A restart: the memory becomes what the record says.                     *)
LEMMA RestartKeepsApart == ASSUME WaysBack, Apart, Restart PROVE Apart'
<1> USE DEF disk, memory
<1> DEFINE rt == active.runtime
           kept == Load(active.history, rt)
<1>1. /\ rt \in Runtimes /\ active.history \in Seq(Runtimes) /\ Stacked(rt, active.history)
      /\ Climbs(rt, active.history)
  BY WaysBackFacts DEF Apart, AllClimb
<1>2. \A c \in Callers : call'[c].pc = "idle"
  BY DEF Restart, Idle
<1>3. Climbs(selected', history') /\ (selected' = rt \/ rt.id \notin installed)
  <2>1. CASE rt.id \in installed
    <3>1. 0 \notin installed
      BY UpdaterAssumption DEF WaysBack, Shape
    <3>2. rt # Bundled
      BY <2>1, <3>1, RuntimeTypes
    <3>3. Climbs(rt, kept)
      BY <1>1, <3>2, LoadedStack
    <3>4. selected' = rt /\ history' = kept
      BY <2>1 DEF Restart
    <3> QED
      BY <3>3, <3>4
  <2>2. CASE rt.id \notin installed
    BY <2>2, EmptyClimbs DEF Restart
  <2> QED
    BY <2>1, <2>2
<1>4. UNCHANGED <<active, installed>>
  BY DEF Restart
<1>5. OneChange'
  BY <1>2 DEF OneChange, Changing
<1>6. AllClimb'
  <2>1. \A c \in Callers : ~Carries(c)'
    BY <1>2 DEF Carries
  <2>2. Climbs(active'.runtime, active'.history)
    BY <1>1, <1>4
  <2> QED
    BY <1>3, <2>1, <2>2, Zenon DEF AllClimb, Climbs, Carries
<1>7. StagedIsNewer'
  BY <1>2 DEF StagedIsNewer, Callers
<1>8. RecordInStep'
  BY <1>2, <1>3, <1>4 DEF RecordInStep, Agrees
<1> QED
  BY <1>5, <1>6, <1>7, <1>8 DEF Apart

LEMMA VanishKeepsApart == ASSUME Apart, NEW i \in Vanishing, Vanish(i) PROVE Apart'
<1>1. /\ UNCHANGED <<active, selected, history, call>> /\ installed' \subseteq installed
  BY DEF Vanish, memory
<1>2. OneChange' /\ StagedIsNewer'
  BY <1>1 DEF Apart, OneChange, Changing, StagedIsNewer
<1>3. AllClimb'
  BY <1>1 DEF Apart, AllClimb, Climbs, Carries
<1>4. RecordInStep'
  BY <1>1 DEF Apart, RecordInStep, Agrees, NoRecord, Bundled
<1> QED
  BY <1>2, <1>3, <1>4 DEF Apart

(* As long as no two changes meet, every step keeps them apart.            *)
LEMMA ApartStep ==
    ASSUME UpdaterInv, [Next]_vars, ~crossed' PROVE Apart'
<1> USE DEF disk, memory
<1>1. Meets(User) \/ (\E a \in Starters : Meets(a)) \/ UNCHANGED crossed
  BY DEF Next, vars, StartBegins, StartSucceeds, StartFails, StartStep, FallbackBegins,
         RollbackWrites, RollbackEnds, ClearRecord, ClearEnds, ResetRecord, ResetEnds,
         RollbackBegins, InstallBegins, UserStep, InstallChecks, InstallFails, InstallRenames,
         InstallComposes, InstallRecords, InstallEnds, Restart, Vanish
<1>2. WaysBack /\ Counted /\ Apart
  <2>1. ~crossed
    BY <1>1 DEF Meets
  <2> QED
    BY <2>1 DEF UpdaterInv
<1>3. \A c \in Callers : Meets(c) => \A d \in Callers : d # c => ~Changing(d)
  BY DEF Meets
<1>4. ASSUME NEW c \in Callers,
             \/ RollbackWrites(c) \/ RollbackEnds(c) \/ ClearRecord(c) \/ ClearEnds(c)
             \/ ResetRecord(c) \/ ResetEnds(c)
      PROVE  Apart'
  BY <1>2, <1>4, WritesKeepApart, EndsKeepApart
<1>5. ASSUME NEW a \in Starters,
             StartBegins(a) \/ StartSucceeds(a) \/ StartFails(a)
      PROVE  Apart'
  <2>1. a \in Callers /\ ~Changing(a) /\ UNCHANGED <<disk, memory>>
    BY <1>5 DEF Callers, Changing, StartBegins, StartSucceeds, StartFails, At
  <2>2. {"idle", "start", "stop", "failed"} \subseteq Calls
    BY DEF Calls
  <2>3. \E pc \in {"idle", "start", "stop", "failed"}, rt \in Runtimes, h \in Seq(Runtimes) :
            Moved(a, pc, rt, h)
    <3>1. CASE StartBegins(a)
      <4>1. Moved(a, "start", launched, <<>>)
        BY <3>1 DEF StartBegins, Become, Moved
      <4> QED
        BY <1>2, <4>1, WaysBackFacts, BundledStack
    <3>2. CASE StartSucceeds(a)
      <4>1. Moved(a, "idle", Bundled, <<>>)
        BY <3>2 DEF StartSucceeds, Idle, Moved
      <4> QED
        BY <4>1, BundledStack
    <3>3. CASE StartFails(a)
      <4>1. \E pc \in {"stop", "failed"} : Moved(a, pc, call[a].runtime, call[a].history)
        BY <1>2, <2>1, <2>2, <3>3, Moves DEF StartFails, WaysBack
      <4> QED
        BY <1>2, <2>1, <4>1, WaysBackFacts
    <3> QED
      BY <1>5, <3>1, <3>2, <3>3
  <2> QED
    BY <1>2, <2>1, <2>3, StartsKeepApart
<1>6. ASSUME NEW a \in Starters, FallbackBegins(a) PROVE Apart'
  <2>1. a \in Callers /\ (\A d \in Callers : d # a => ~Changing(d)) /\ call[a].pc = "stop"
    BY <1>3, <1>6 DEF Callers, FallbackBegins, At
  <2>2. CASE Goto(a, "failed")
    <3>1. Moved(a, "failed", call[a].runtime, call[a].history)
      BY <1>2, <2>1, <2>2, Moves DEF WaysBack, Calls
    <3>2. ~Changing(a) /\ UNCHANGED <<disk, memory>>
      BY <1>6, <2>1 DEF Changing, FallbackBegins
    <3> QED
      BY <1>2, <2>1, <3>1, <3>2, StartsKeepApart, WaysBackFacts
  <2>3. CASE Rollback(a, "reset")
    BY <1>2, <1>6, <2>1, <2>3, RollbackKeepsApart DEF FallbackBegins
  <2> QED
    BY <1>6, <2>2, <2>3 DEF FallbackBegins
<1>7. CASE RollbackBegins
  <2>1. User \in Callers /\ (\A d \in Callers : d # User => ~Changing(d)) /\ call[User].pc = "idle"
    BY <1>3, <1>7 DEF Callers, RollbackBegins, At
  <2> QED
    BY <1>2, <1>7, <2>1, RollbackKeepsApart DEF RollbackBegins
<1>8. CASE InstallBegins
  <2>1. \A d \in Callers : d # User => ~Changing(d)
    BY <1>3, <1>8 DEF Callers, InstallBegins
  <2> QED
    BY <1>2, <1>8, <2>1, InstallKeepsApart
<1>9. ASSUME InstallFails \/ InstallRenames \/ InstallComposes \/ InstallRecords \/ InstallEnds
                \/ \E v \in Versions : InstallChecks(v)
      PROVE  Apart'
  <2>1. Changing(User) /\ User \in Callers
    BY <1>9 DEF InstallFails, InstallRenames, InstallComposes, InstallRecords, InstallEnds,
                InstallChecks, At, Changing, Callers
  <2>2. \A d \in Callers : d # User => ~Changing(d)
    BY <1>2, <2>1, ChangeIsAlone
  <2> QED
    BY <1>2, <1>9, <2>2, InstallKeepsApart
<1>10. CASE Restart
  BY <1>2, <1>10, RestartKeepsApart
<1>11. ASSUME NEW i \in Vanishing, Vanish(i) PROVE Apart'
  BY <1>2, <1>11, VanishKeepsApart
<1>12. CASE UNCHANGED vars
  <2>1. UNCHANGED <<installed, active, selected, history, call>>
    BY <1>12 DEF vars
  <2>2. OneChange' /\ StagedIsNewer'
    BY <1>2, <2>1 DEF Apart, OneChange, Changing, StagedIsNewer
  <2>3. AllClimb'
    BY <1>2, <2>1 DEF Apart, AllClimb, Climbs, Carries
  <2>4. RecordInStep'
    BY <1>2, <2>1 DEF Apart, RecordInStep, Agrees, NoRecord, Bundled
  <2> QED
    BY <2>2, <2>3, <2>4 DEF Apart
<1>13. CASE UserStep
  BY <1>4, <1>9, <1>13 DEF UserStep, Callers
<1>14. ASSUME NEW a \in Starters, StartStep(a) PROVE Apart'
  BY <1>4, <1>6, <1>14 DEF StartStep, Callers
<1> QED
  BY <1>5, <1>7, <1>8, <1>10, <1>11, <1>12, <1>13, <1>14 DEF Next

LEMMA UpdaterInvariant == Spec => []UpdaterInv
<1>1. Init => UpdaterInv
  <2> SUFFICES ASSUME Init PROVE UpdaterInv
    OBVIOUS
  <2>1. WaysBack
    BY InitWaysBack
  <2>2. \A c \in Callers : call[c].pc = "idle"
    BY DEF Init, Idle
  <2>3. Counted
    BY <2>2 DEF Counted, Callers, Init, NoRecord, Bundled
  <2>4. OneChange /\ StagedIsNewer
    BY <2>2 DEF OneChange, Changing, StagedIsNewer, Callers
  <2>5. AllClimb
    BY <2>2, EmptyClimbs DEF AllClimb, Carries, Init
  <2>6. RecordInStep
    BY <2>2 DEF RecordInStep, Agrees, Init, NoRecord
  <2> QED
    BY <2>1, <2>3, <2>4, <2>5, <2>6 DEF UpdaterInv, Apart
<1>2. UpdaterInv /\ [Next]_vars => UpdaterInv'
  BY WaysBackStep, CountedStep, ApartStep DEF UpdaterInv
<1> QED
  BY <1>1, <1>2, PTL DEF Spec

(* RollsBackToBundled: installs, fallbacks, rollbacks, crashes and deleted *)
(* versions, even of several at once, never lose the way back to the       *)
(* bundled runtime, in memory or in the record on disk.                    *)
THEOREM WayBackIsKept == Spec => []RollsBackToBundled
<1>1. UpdaterInv => RollsBackToBundled
  BY DEF UpdaterInv, WaysBack, AllStacked, Stacked, RollsBackToBundled
<1> QED
  BY <1>1, UpdaterInvariant, PTL

(* RollsBack: moreover every rollback goes to an older version, as long as *)
(* no two changes of the selection met.                                    *)
THEOREM RollbacksGoDown == Spec => []RollsBack
<1>1. \A rt \in Runtimes, h \in Seq(Runtimes) : Climbs(rt, h) => Descends(rt, h)
  <2> SUFFICES ASSUME NEW rt \in Runtimes, NEW h \in Seq(Runtimes), Climbs(rt, h),
                      NEW i \in 1..Len(h)
               PROVE  h[i].version < (IF i < Len(h) THEN h[i + 1] ELSE rt).version
    BY DEF Descends
  <2>1. CASE i < Len(h)
    <3>1. i + 1 \in 1..Len(h) /\ i < i + 1
      BY <2>1
    <3> QED
      BY <2>1, <3>1 DEF Climbs
  <2>2. CASE ~(i < Len(h))
    BY <2>2 DEF Climbs
  <2> QED
    BY <2>1, <2>2
<1>2. UpdaterInv => RollsBackToOlder
  BY <1>1, WaysBackFacts DEF UpdaterInv, Apart, AllClimb, RollsBackToOlder
<1>3. UpdaterInv => RollsBack
  BY <1>2 DEF UpdaterInv, WaysBack, AllStacked, Stacked, RollsBackToBundled, RollsBack
<1> QED
  BY <1>3, UpdaterInvariant, PTL

(* RestartKeepsSelection: when no change is under way and none met another *)
(* one, a restart selects what is selected now, unless the directory is    *)
(* gone.                                                                   *)
THEOREM SelectionSurvives == Spec => []RestartKeepsSelection
<1>1. UpdaterInv => RestartKeepsSelection
  <2> SUFFICES ASSUME UpdaterInv, Quiet, ~crossed
               PROVE  active.runtime = selected \/ active.runtime.id \notin installed
    BY DEF RestartKeepsSelection
  <2>1. \A c \in Callers : call[c].pc \notin {"finish", "recorded", "wiped"}
    BY DEF Quiet, Changing
  <2> QED
    BY <2>1 DEF UpdaterInv, Apart, RecordInStep, Agrees
<1> QED
  BY <1>1, UpdaterInvariant, PTL
=============================================================================
