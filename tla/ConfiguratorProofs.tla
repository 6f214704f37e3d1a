-------------------------- MODULE ConfiguratorProofs --------------------------
(***************************************************************************)
(* The cache of the Configurator for every number of threads, calls,       *)
(* versions and ticks, and any number of resources of the class.  First    *)
(* who is where, which needs no history; then one object per version; then *)
(* how old an object may be.                                               *)
(***************************************************************************)
EXTENDS Configurator, TLAPS

Calls == [res : Resources, cached : BOOLEAN, number : 1..MaxCalls,
          time : 1..MaxTime, found : 1..MaxVersion, mtime : 0..MaxTime]
Leases == [time : 1..MaxTime, obj : Objects]

LookingUp == {"lookup", "lease", "stat", "stamp", "put"}

\* What each place in get() means for the locals and for the lock.
PlaceInv ==
    /\ TypeOK
    /\ \A t \in Threads :
         /\ at[t] # "idle" => call[t] \in Calls
         /\ at[t] \in LookingUp => call[t].cached
         /\ at[t] \in {"lease", "stat"} => entry[t] \in Leases
         /\ at[t] \in {"stat", "stamp", "put", "returned"} => obj[t] \in Objects
         /\ at[t] = "put" => stamp[t] \in 1..MaxTime
         /\ at[t] = "load" => holder = t
         /\ holder = t => at[t] \in LookingUp \cup {"load"}
    /\ \A r \in Resources : file[r].mtime <= now
    /\ \A o \in made : o.version <= file[o.res].version

LEMMA PlaceInitially == Init => PlaceInv
  <1> SUFFICES ASSUME Init PROVE PlaceInv
    OBVIOUS
  <1>1. /\ 1 \in 1..MaxTime /\ 0 \in 0..MaxTime /\ 1 \in 1..MaxVersion /\ 0 \in 0..MaxCalls
        /\ now = 1 /\ calls = 0
    BY ConfiguratorAssumption DEF Init
  <1>2. file \in [Resources -> Files] /\ \A r \in Resources : file[r].mtime = 0
    BY <1>1 DEF Init, Files
  <1>3. /\ cache \in Entries /\ holder \in Threads \cup {NoBody} /\ made = {}
        /\ call \in [Threads -> {NoCall} \cup Calls]
        /\ entry \in [Threads -> Entries] /\ obj \in [Threads -> Objects \cup {NoObject}]
        /\ stamp \in [Threads -> 0..MaxTime]
    BY <1>1 DEF Init, Entries
  <1>4. missed = {} /\ overtaken = {}
    BY DEF Init
  <1>5. \A t \in Threads : at[t] = "idle" /\ holder # t
    BY ConfiguratorAssumption DEF Init
  <1>6. at \in [Threads -> {"idle", "lookup", "lease", "stat", "lock", "load", "stamp",
                            "put", "returned", "thrown"}]
    BY DEF Init
  <1>7. TypeOK
    BY <1>1, <1>2, <1>3, <1>4, <1>6 DEF TypeOK, Calls
  <1> QED
    BY <1>1, <1>2, <1>3, <1>5, <1>7 DEF PlaceInv, LookingUp

LEMMA PlaceSteps ==
    ASSUME PlaceInv, NEW t \in Threads, Step(t)
    PROVE  PlaceInv'
  <1>1. CASE Lookup(t)
    BY ConfiguratorAssumption, <1>1 DEF Lookup, Misses, Leaves, Goes, envVars, PlaceInv, TypeOK, LookingUp, Calls, Leases, Entries, NoEntry, NoObject
  <1>2. CASE Lease(t)
    BY ConfiguratorAssumption, <1>2 DEF Lease, Misses, Leaves, Goes, envVars, PlaceInv, TypeOK, LookingUp, Calls, Leases, Entries, NoEntry, NoObject
  <1>3. CASE Stat(t)
    <2>1. missed' \subseteq Resources \X (1..MaxVersion)
      <3>1. missed \subseteq Resources \X (1..MaxVersion) /\ entry[t].obj \in Objects
        BY <1>3 DEF Stat, PlaceInv, TypeOK, Leases
      <3>2. file[entry[t].obj.res].version \in 1..MaxVersion
        BY <3>1 DEF PlaceInv, TypeOK, Objects, Files
      <3>3. Crossed(t) \subseteq Resources \X (1..MaxVersion)
        <4>1. entry[t].obj.res \in Resources /\ entry[t].obj.version \in 1..MaxVersion
          BY <3>1 DEF Objects
        <4>2. \A v \in (entry[t].obj.version + 1)..file[entry[t].obj.res].version : v \in 1..MaxVersion
          BY <3>2, <4>1, ConfiguratorAssumption
        <4> QED
          BY <4>1, <4>2 DEF Crossed
      <3> QED
        BY <1>3, <3>1, <3>3 DEF Stat
    <2> QED
      BY ConfiguratorAssumption, <1>3, <2>1 DEF Stat, Misses, Leaves, Goes, envVars, PlaceInv, TypeOK, LookingUp, Calls, Leases, Entries, NoEntry, NoObject
  <1>4. CASE Lock(t)
    BY ConfiguratorAssumption, <1>4 DEF Lock, Misses, Leaves, Goes, envVars, PlaceInv, TypeOK, LookingUp, Calls, Leases, Entries, NoEntry, NoObject
  <1>5. CASE Load(t)
    <2> DEFINE r == call[t].res
               o == [res |-> r, version |-> file[r].version, by |-> call[t].number]
    <2>1. o \in Objects /\ o.res \in Resources /\ o.version = file[o.res].version
      BY <1>5 DEF Load, PlaceInv, TypeOK, Calls, Files, Objects
    <2>2. /\ obj' = [obj EXCEPT ![t] = o] /\ at[t] = "load" /\ holder = t
          /\ \/ call[t].cached /\ at' = [at EXCEPT ![t] = "stamp"] /\ made' = made \cup {o}
                /\ holder' = holder
             \/ at' = [at EXCEPT ![t] = "returned"] /\ made' = made /\ holder' = NoBody
          /\ UNCHANGED <<now, file, missed, overtaken, cache, call, entry, stamp, calls>>
      BY <1>5 DEF Load, Leaves, Goes, PlaceInv, envVars
    <2> HIDE DEF o
    <2>3. TypeOK'
      BY <2>1, <2>2 DEF PlaceInv, TypeOK
    <2>4. \A q \in made' : q.version <= file'[q.res].version
      <3>1. file[o.res].version \in Nat
        BY <2>1 DEF PlaceInv, TypeOK, Files
      <3> QED
        BY <2>1, <2>2, <3>1 DEF PlaceInv
    <2>5. /\ obj'[t] = o /\ t # NoBody
          /\ \A u \in Threads \ {t} : obj'[u] = obj[u] /\ at'[u] = at[u]
      BY ConfiguratorAssumption, <2>2 DEF PlaceInv, TypeOK
    <2>6. \/ at'[t] = "stamp" /\ holder' = t /\ call[t].cached
          \/ at'[t] = "returned" /\ holder' = NoBody
      BY <2>2 DEF PlaceInv, TypeOK
    <2>7. \A u \in Threads \ {t} : holder' # u /\ at[u] # "load"
      BY ConfiguratorAssumption, <2>2, <2>6 DEF PlaceInv
    <2>8. \A u \in Threads :
            /\ at'[u] # "idle" => call'[u] \in Calls
            /\ at'[u] \in LookingUp => call'[u].cached
            /\ at'[u] \in {"lease", "stat"} => entry'[u] \in Leases
            /\ at'[u] \in {"stat", "stamp", "put", "returned"} => obj'[u] \in Objects
            /\ at'[u] = "put" => stamp'[u] \in 1..MaxTime
            /\ at'[u] = "load" => holder' = u
            /\ holder' = u => at'[u] \in LookingUp \cup {"load"}
      <3> SUFFICES ASSUME NEW u \in Threads
                   PROVE  /\ at'[u] # "idle" => call[u] \in Calls
                          /\ at'[u] \in LookingUp => call[u].cached
                          /\ at'[u] \in {"lease", "stat"} => entry[u] \in Leases
                          /\ at'[u] \in {"stat", "stamp", "put", "returned"} => obj'[u] \in Objects
                          /\ at'[u] = "put" => stamp[u] \in 1..MaxTime
                          /\ at'[u] = "load" => holder' = u
                          /\ holder' = u => at'[u] \in LookingUp \cup {"load"}
        BY <2>2
      <3>1. CASE u = t
        BY ConfiguratorAssumption, <2>1, <2>2, <2>5, <2>6, <3>1 DEF PlaceInv, LookingUp
      <3>2. CASE u # t
        BY <2>5, <2>7, <3>2 DEF PlaceInv
      <3> QED
        BY <3>1, <3>2
    <2> QED
      BY <2>2, <2>3, <2>4, <2>8 DEF PlaceInv
  <1>6. CASE LoadFails(t)
    BY ConfiguratorAssumption, <1>6 DEF LoadFails, Misses, Leaves, Goes, envVars, PlaceInv, TypeOK, LookingUp, Calls, Leases, Entries, NoEntry, NoObject
  <1>7. CASE Stamp(t)
    BY ConfiguratorAssumption, <1>7 DEF Stamp, Misses, Leaves, Goes, envVars, PlaceInv, TypeOK, LookingUp, Calls, Leases, Entries, NoEntry, NoObject
  <1>8. CASE Put(t)
    BY ConfiguratorAssumption, <1>8 DEF Put, Misses, Leaves, Goes, envVars, PlaceInv, TypeOK, LookingUp, Calls, Leases, Entries, NoEntry, NoObject
  <1>9. CASE Finish(t)
    BY ConfiguratorAssumption, <1>9 DEF Finish, Misses, Leaves, Goes, envVars, PlaceInv, TypeOK, LookingUp, Calls, Leases, Entries, NoEntry, NoObject
  <1> QED
    BY <1>1, <1>2, <1>3, <1>4, <1>5, <1>6, <1>7, <1>8, <1>9 DEF Step

LEMMA PlaceOthers ==
    ASSUME PlaceInv,
           \/ \E t \in Threads, r \in Resources, useCache \in BOOLEAN : Get(t, r, useCache)
           \/ Tick \/ (\E r \in Resources : Modify(r)) \/ UNCHANGED vars
    PROVE  PlaceInv'
  <1>1. ASSUME NEW t \in Threads, NEW r \in Resources, NEW useCache \in BOOLEAN,
               Get(t, r, useCache)
        PROVE  PlaceInv'
    <2> DEFINE c == [res |-> r, cached |-> useCache, number |-> calls', time |-> now,
                     found |-> file[r].version, mtime |-> file[r].mtime]
    <2>1. c \in Calls /\ (useCache => c.cached)
      BY <1>1, ConfiguratorAssumption DEF Get, PlaceInv, TypeOK, Calls, Files
    <2>2. /\ at[t] = "idle" /\ call' = [call EXCEPT ![t] = c]
          /\ \/ useCache /\ at' = [at EXCEPT ![t] = "lookup"]
             \/ at' = [at EXCEPT ![t] = "lock"]
          /\ UNCHANGED <<now, file, missed, overtaken, cache, holder, entry, obj, stamp, made>>
      BY <1>1 DEF Get, Goes, envVars
    <2>3. calls' \in 0..MaxCalls
      BY <1>1, ConfiguratorAssumption DEF Get, PlaceInv, TypeOK
    <2>4. TypeOK'
      BY <2>1, <2>2, <2>3 DEF PlaceInv, TypeOK, Calls
    <2> QED
      BY <2>1, <2>2, <2>4 DEF PlaceInv, TypeOK, LookingUp
  <1>2. CASE Tick
    BY <1>2, ConfiguratorAssumption DEF Tick, PlaceInv, TypeOK, Files
  <1>3. ASSUME NEW r \in Resources, Modify(r) PROVE PlaceInv'
    <2>1. PICK f \in Files : /\ file' = [file EXCEPT ![r] = f]
                             /\ f.version = file[r].version + 1 /\ f.mtime = now
      <3>1. PICK c \in {"good", "bad", "missing"} :
              file' = [file EXCEPT ![r] = [version |-> file[r].version + 1, mtime |-> now,
                                           content |-> c]]
        BY <1>3 DEF Modify
      <3>2. file[r].version + 1 \in 1..MaxVersion /\ now \in 0..MaxTime
        BY <1>3, ConfiguratorAssumption DEF Modify, PlaceInv, TypeOK, Files
      <3> DEFINE f == [version |-> file[r].version + 1, mtime |-> now, content |-> c]
      <3>3. f \in Files /\ f.version = file[r].version + 1 /\ f.mtime = now
        BY <3>2 DEF Files
      <3> QED
        BY <3>1, <3>3
    <2>2. /\ missed' \subseteq Resources \X (1..MaxVersion)
          /\ overtaken' \subseteq Resources \X (1..MaxVersion)
      <3>1. file'[r].version \in 1..MaxVersion
        BY <2>1 DEF PlaceInv, TypeOK, Files
      <3> QED
        BY <1>3, <3>1 DEF Modify, PlaceInv, TypeOK
    <2>3. UNCHANGED <<now, cache, holder, at, call, entry, obj, stamp, calls, made>>
      BY <1>3 DEF Modify
    <2>4. TypeOK'
      BY <2>1, <2>2, <2>3 DEF PlaceInv, TypeOK
    <2>5. \A q \in Resources : file'[q].mtime <= now /\ file'[q].version >= file[q].version
      BY <2>1, ConfiguratorAssumption DEF PlaceInv, TypeOK, Files
    <2>6. \A o \in made : /\ o.res \in Resources /\ o.version \in Nat
                          /\ file[o.res].version \in Nat /\ file'[o.res].version \in Nat
      BY <2>4, <2>3 DEF PlaceInv, TypeOK, Objects, Files
    <2>7. \A o \in made : o.version <= file'[o.res].version
      BY <2>5, <2>6 DEF PlaceInv
    <2> QED
      BY <2>3, <2>4, <2>5, <2>7 DEF PlaceInv
  <1>4. CASE UNCHANGED vars
    BY <1>4 DEF vars, PlaceInv, TypeOK
  <1> QED
    BY <1>1, <1>2, <1>3, <1>4

LEMMA PlaceStep == PlaceInv /\ [Next]_vars => PlaceInv'
  BY PlaceSteps, PlaceOthers DEF Next

\* Every variable keeps its type; the lock is held only inside the synchronized block.
THEOREM PlacesOfConfigurator == Spec => []PlaceInv
  BY PlaceInitially, PlaceStep, PTL DEF Spec

-----------------------------------------------------------------------------
(* One object                                                              *)

Current(o) == o.version = file[o.res].version

\* No renewal was about to be put when the present version came.
Undisturbed(r) == <<r, file[r].version>> \notin overtaken

\* The lease a thread is about to put is younger than the file, unless it was loaded before
\* the present version, which then nobody else can load.
LeaseIsYoung ==
    \A t \in Threads : at[t] = "put" =>
        \A r \in Resources : Undisturbed(r) =>
            \/ stamp[t] >= file[r].mtime
            \/ holder = t /\ \A o \in made : o.res = r => ~Current(o)

\* An object made of the present version is on its way into the cache, behind the lock,
\* or the cache is younger than that version.
OnItsWay == \E t \in Threads : holder = t /\ at[t] \in {"stamp", "put"}
CacheIsYoung(r) == cache # NoEntry /\ cache.time >= file[r].mtime
Relevant(o) == Current(o) /\ Undisturbed(o.res)
CurrentIsKept == \A o \in made : Relevant(o) => OnItsWay \/ CacheIsYoung(o.res)

\* Who looks up behind the lock sees that, and who is about to load finds nothing made.
HolderSees ==
    \A t \in Threads : holder = t /\ at[t] \in {"lease", "stat"} =>
        \A o \in made : Relevant(o) => entry[t].time >= file[o.res].mtime
LoadsOnce ==
    \A t \in Threads : at[t] = "load" /\ call[t].cached =>
        \A o \in made : Relevant(o) => o.res # call[t].res

OnceInv == LeaseIsYoung /\ CurrentIsKept /\ HolderSees /\ LoadsOnce /\ OneObject

\* What a step of thread t leaves alone.
LEMMA StepFrame ==
    ASSUME PlaceInv, NEW t \in Threads, Step(t)
    PROVE  /\ UNCHANGED <<file, now, overtaken, calls>> /\ missed \subseteq missed'
           /\ \A u \in Threads \ {t} :
                /\ at'[u] = at[u] /\ call'[u] = call[u] /\ entry'[u] = entry[u]
                /\ obj'[u] = obj[u] /\ stamp'[u] = stamp[u]
           /\ \/ holder' = holder
              \/ holder = NoBody /\ holder' = t
              \/ holder = t /\ holder' = NoBody
           /\ made' # made => Load(t) /\ holder = t
           /\ cache' # cache => Put(t)
           /\ t # NoBody /\ now \in Nat /\ now >= 1
           /\ \A r \in Resources : file[r].mtime \in Nat
           /\ \A o \in made : o.res \in Resources
  <1>1. /\ at \in [Threads -> {"idle", "lookup", "lease", "stat", "lock", "load", "stamp",
                               "put", "returned", "thrown"}]
        /\ call \in [Threads -> {NoCall} \cup Calls] /\ entry \in [Threads -> Entries]
        /\ obj \in [Threads -> Objects \cup {NoObject}] /\ stamp \in [Threads -> 0..MaxTime]
        /\ \A u \in Threads : at[u] = "load" => holder = u
    BY DEF PlaceInv, TypeOK, Calls
  <1>2. /\ t # NoBody /\ now \in Nat /\ now >= 1
        /\ \A r \in Resources : file[r].mtime \in Nat
        /\ \A o \in made : o.res \in Resources
    BY ConfiguratorAssumption DEF PlaceInv, TypeOK, Objects, Files
  <1>3. UNCHANGED <<file, now, overtaken, calls>> /\ missed \subseteq missed'
    BY DEF Step, Lookup, Lease, Stat, Lock, Load, LoadFails, Stamp, Put, Finish, envVars
  <1>4. \A u \in Threads \ {t} :
          /\ at'[u] = at[u] /\ call'[u] = call[u] /\ entry'[u] = entry[u]
          /\ obj'[u] = obj[u] /\ stamp'[u] = stamp[u]
    BY <1>1 DEF Step, Lookup, Lease, Stat, Lock, Load, LoadFails, Stamp, Put, Finish, Misses,
       Leaves, Goes
  <1>5. \/ holder' = holder
        \/ holder = NoBody /\ holder' = t
        \/ holder = t /\ holder' = NoBody
    BY DEF Step, Lookup, Lease, Stat, Lock, Load, LoadFails, Stamp, Put, Finish, Misses, Leaves
  <1>6. (made' # made => Load(t) /\ holder = t) /\ (cache' # cache => Put(t))
    BY <1>1 DEF Step, Lookup, Lease, Stat, Lock, Load, LoadFails, Stamp, Put, Finish
  <1> QED
    BY <1>2, <1>3, <1>4, <1>5, <1>6

\* How t gets where the invariant says something of it.
LEMMA StepTo ==
    ASSUME PlaceInv, NEW t \in Threads, Step(t)
    PROVE  /\ at'[t] = "put" => stamp'[t] = now
           /\ at[t] \in {"stamp", "put"} => Stamp(t) \/ Put(t)
           /\ Stamp(t) => at'[t] = "put" /\ holder' = holder
           /\ Put(t) => at[t] = "put" /\ cache' = [time |-> stamp[t], obj |-> obj[t]]
           /\ at'[t] = "lease" => at[t] = "lookup" /\ entry'[t] = cache /\ cache # NoEntry
                                  /\ holder' = holder
           /\ at'[t] = "stat" => at[t] = "lease" /\ entry'[t] = entry[t] /\ holder' = holder
           /\ at'[t] = "load" /\ call'[t].cached =>
                /\ holder = t /\ call'[t] = call[t]
                /\ \/ at[t] = "lookup" /\ cache = NoEntry
                   \/ at[t] = "stat" /\ file[call[t].res].mtime > entry[t].time
           /\ Load(t) /\ call[t].cached => at'[t] = "stamp" /\ holder' = t
           /\ Load(t) /\ ~call[t].cached => made' = made
  BY DEF PlaceInv, TypeOK, LookingUp, Step, Lookup, Lease, Stat, Lock, Load, LoadFails, Stamp,
     Put, Finish, Misses, Leaves, Goes, NeedsRefresh

LEMMA OnceSteps ==
    ASSUME PlaceInv, OnceInv, NEW t \in Threads, Step(t)
    PROVE  OnceInv'
  <1>0. \A o : Relevant(o)' <=> Relevant(o)
    BY StepFrame DEF Relevant, Undisturbed, Current
  <1>1. LeaseIsYoung /\ CurrentIsKept /\ HolderSees /\ LoadsOnce /\ OneObject
    BY DEF OnceInv
  <1>2. LeaseIsYoung'
    <2> SUFFICES ASSUME NEW u \in Threads, at'[u] = "put", NEW r \in Resources, Undisturbed(r)'
                 PROVE  \/ stamp'[u] >= file'[r].mtime
                        \/ holder' = u /\ \A o \in made' : o.res = r => ~Current(o)'
      BY DEF LeaseIsYoung
    <2>1. CASE u = t
      BY <2>1, StepFrame, StepTo DEF PlaceInv
    <2>2. CASE u # t
      <3>1. at[u] = "put" /\ stamp'[u] = stamp[u] /\ file' = file /\ Undisturbed(r)
        BY <2>2, StepFrame DEF Undisturbed
      <3>2. \/ stamp[u] >= file[r].mtime
            \/ holder = u /\ \A o \in made : o.res = r => ~Current(o)
        BY <1>1, <3>1 DEF LeaseIsYoung
      <3>3. holder = u => holder' = u /\ made' = made
        BY <2>2, StepFrame, ConfiguratorAssumption
      <3> QED
        BY <3>1, <3>2, <3>3 DEF Current
    <2> QED
      BY <2>1, <2>2
  <1>3. \A u \in Threads : at[u] = "load" => holder = u
    BY DEF PlaceInv
  <1>4. CurrentIsKept'
    <2> SUFFICES ASSUME NEW o \in made', Relevant(o)' PROVE OnItsWay' \/ CacheIsYoung(o.res)'
      BY DEF CurrentIsKept
    <2>1. CASE Put(t)
      <3>1. made' = made /\ o.res \in Resources /\ Relevant(o)
        BY <2>1, StepFrame DEF Put, Relevant, Undisturbed, Current
      <3>2. stamp[t] >= file[o.res].mtime /\ cache' = [time |-> stamp[t], obj |-> obj[t]]
            /\ stamp[t] \in 1..MaxTime
        BY <1>1, <2>1, <3>1, StepTo DEF LeaseIsYoung, Relevant, PlaceInv
      <3>3. cache' # NoEntry
        BY <3>2 DEF NoEntry
      <3> QED
        BY <3>2, <3>3, StepFrame DEF CacheIsYoung
    <2>2. CASE Load(t) /\ call[t].cached
      BY <2>2, StepTo DEF OnItsWay
    <2>3. CASE ~Put(t) /\ ~(Load(t) /\ call[t].cached)
      <3>1. made' = made /\ cache' = cache /\ file' = file
        BY <2>3, StepFrame, StepTo
      <3>2. OnItsWay \/ CacheIsYoung(o.res)
        BY <1>0, <1>1, <3>1 DEF CurrentIsKept
      <3>3. CASE CacheIsYoung(o.res)
        BY <3>1, <3>3 DEF CacheIsYoung
      <3>4. CASE OnItsWay
        <4>1. PICK u \in Threads : holder = u /\ at[u] \in {"stamp", "put"}
          BY <3>4 DEF OnItsWay
        <4>2. u # NoBody
          BY ConfiguratorAssumption
        <4> QED
          BY <2>3, <4>1, <4>2, StepFrame, StepTo DEF OnItsWay
      <3> QED
        BY <3>2, <3>3, <3>4
    <2> QED
      BY <2>1, <2>2, <2>3
  <1>5. HolderSees'
    <2> SUFFICES ASSUME NEW u \in Threads, holder' = u, at'[u] \in {"lease", "stat"},
                        NEW o \in made', Relevant(o)'
                 PROVE  entry'[u].time >= file'[o.res].mtime
      BY DEF HolderSees
    <2>1. CASE u # t
      <3>1. u # NoBody /\ holder' = u /\ u # t
        BY <2>1, ConfiguratorAssumption
      <3>2. holder = u
        BY <3>1, StepFrame
      <3>3. made' = made /\ file' = file
        BY <3>1, <3>2, StepFrame
      <3>4. at'[u] = at[u] /\ entry'[u] = entry[u]
        BY <3>1, StepFrame
      <3> QED
        BY <1>0, <1>1, <3>2, <3>3, <3>4 DEF HolderSees
    <2>2. CASE u = t
      <3>1. made' = made /\ holder = t /\ file' = file
        BY <2>2, StepFrame, StepTo DEF Load
      <3>2. CASE at'[t] = "lease"
        BY <1>0, <1>1, <2>2, <3>1, <3>2, StepTo DEF CurrentIsKept, OnItsWay, CacheIsYoung
      <3>3. CASE at'[t] = "stat"
        BY <1>0, <1>1, <2>2, <3>1, <3>3, StepTo DEF HolderSees
      <3> QED
        BY <2>2, <3>2, <3>3
    <2> QED
      BY <2>1, <2>2
  <1>6. LoadsOnce'
    <2> SUFFICES ASSUME NEW u \in Threads, at'[u] = "load", call'[u].cached,
                        NEW o \in made', Relevant(o)'
                 PROVE  o.res # call'[u].res
      BY DEF LoadsOnce
    <2>1. CASE u # t
      <3>1. at[u] = "load" /\ call'[u] = call[u] /\ holder = u /\ made' = made /\ file' = file
        BY <1>3, <2>1, StepFrame
      <3> QED
        BY <1>0, <1>1, <3>1 DEF LoadsOnce
    <2>2. CASE u = t
      <3>1. made' = made /\ file' = file /\ holder = t /\ call'[t] = call[t]
        BY <2>2, StepFrame, StepTo
      <3>2. CASE at[t] = "lookup" /\ cache = NoEntry
        BY <1>0, <1>1, <3>1, <3>2 DEF CurrentIsKept, OnItsWay, CacheIsYoung
      <3>3. CASE at[t] = "stat" /\ file[call[t].res].mtime > entry[t].time
        <4>1. entry[t].time >= file[o.res].mtime
          BY <1>0, <1>1, <3>1, <3>3 DEF HolderSees
        <4>2. entry[t].time \in Nat /\ file[o.res].mtime \in Nat
          BY <3>1, <3>3, StepFrame, ConfiguratorAssumption DEF PlaceInv, Leases
        <4> QED
          BY <2>2, <3>1, <3>3, <4>1, <4>2
      <3> QED
        BY <2>2, <3>2, <3>3, StepTo
    <2> QED
      BY <2>1, <2>2
  <1>7. OneObject'
    <2>1. CASE made' = made
      BY <1>1, <2>1, StepFrame DEF OneObject
    <2>2. CASE made' # made
      <3> DEFINE n == [res |-> call[t].res, version |-> file[call[t].res].version,
                       by |-> call[t].number]
      <3>1. made' = made \cup {n} /\ overtaken' = overtaken
        <4>1. Load(t)
          BY <2>2, StepFrame
        <4> QED
          BY <2>2, <4>1, StepFrame DEF Load
      <3>2. at[t] = "load" /\ call[t].cached
        BY <2>2, StepFrame, StepTo DEF Load
      <3>3. \A o \in made : o.res = n.res /\ o.version = n.version
                              => <<n.res, n.version>> \in overtaken
        BY <1>1, <3>1, <3>2 DEF LoadsOnce, Relevant, Undisturbed, Current
      <3> QED
        BY <1>1, <3>1, <3>3 DEF OneObject
    <2> QED
      BY <2>1, <2>2
  <1> QED
    BY <1>1, <1>2, <1>4, <1>5, <1>6, <1>7 DEF OnceInv

LEMMA OnceOthers ==
    ASSUME PlaceInv, OnceInv,
           \/ \E t \in Threads, r \in Resources, useCache \in BOOLEAN : Get(t, r, useCache)
           \/ Tick \/ (\E r \in Resources : Modify(r)) \/ UNCHANGED vars
    PROVE  OnceInv'
  <1>1. ASSUME NEW t \in Threads, NEW r \in Resources, NEW useCache \in BOOLEAN,
               Get(t, r, useCache)
        PROVE  OnceInv'
    <2>1. /\ UNCHANGED <<file, overtaken, cache, holder, entry, stamp, made>>
          /\ at[t] = "idle" /\ at'[t] \in {"lookup", "lock"}
          /\ \A u \in Threads \ {t} : at'[u] = at[u] /\ call'[u] = call[u]
      BY <1>1 DEF Get, Goes, envVars, PlaceInv, TypeOK
    <2>2. OnItsWay => OnItsWay'
      BY <2>1 DEF OnItsWay
    <2>3. LeaseIsYoung => LeaseIsYoung'
      BY <2>1 DEF LeaseIsYoung, Undisturbed, Current
    <2>4. CurrentIsKept => CurrentIsKept'
      BY <2>1, <2>2 DEF CurrentIsKept, Relevant, Undisturbed, Current, CacheIsYoung
    <2>5. HolderSees => HolderSees'
      BY <2>1 DEF HolderSees, Relevant, Undisturbed, Current
    <2>6. LoadsOnce => LoadsOnce'
      BY <2>1 DEF LoadsOnce, Relevant, Undisturbed, Current
    <2> QED
      BY <2>1, <2>3, <2>4, <2>5, <2>6 DEF OnceInv, OneObject
  <1>2. CASE Tick
    BY <1>2 DEF Tick, OnceInv, LeaseIsYoung, CurrentIsKept, OnItsWay, CacheIsYoung,
       HolderSees, LoadsOnce, OneObject, Relevant, Undisturbed, Current
  <1>3. ASSUME NEW r \in Resources, Modify(r) PROVE OnceInv'
    <2>1. UNCHANGED <<cache, holder, at, call, entry, stamp, made>>
      BY <1>3 DEF Modify
    <2>2. LeaseIsYoung /\ CurrentIsKept /\ HolderSees /\ LoadsOnce /\ OneObject
      BY DEF OnceInv
    <2>3. PICK c \in {"good", "bad", "missing"} :
            file' = [file EXCEPT ![r] = [version |-> file[r].version + 1, mtime |-> now,
                                         content |-> c]]
      BY <1>3 DEF Modify
    <2>4. file \in [Resources -> Files] /\ file'[r].version = file[r].version + 1
      BY <2>3 DEF PlaceInv, TypeOK
    <2>5. overtaken \subseteq overtaken' /\ overtaken' \subseteq overtaken \cup {<<r, file'[r].version>>}
      BY <1>3 DEF Modify
    \* Nothing is made of the new version yet.
    <2>6. \A o \in made : Current(o)' => o.res # r
      <3>1. \A o \in made : o.version \in Nat /\ o.version <= file[o.res].version
        BY DEF PlaceInv, TypeOK, Objects
      <3>2. file[r].version \in Nat
        BY <2>4 DEF Files
      <3> QED
        BY <2>4, <3>1, <3>2 DEF Current
    <2>7. \A s \in Resources \ {r} : file'[s] = file[s] /\ (Undisturbed(s)' => Undisturbed(s))
      BY <2>3, <2>4, <2>5 DEF Undisturbed
    <2>8. \A o \in made : Relevant(o)' => file'[o.res] = file[o.res] /\ Relevant(o)
      BY <2>6, <2>7 DEF Relevant, Current, PlaceInv, TypeOK, Objects
    <2>9. LeaseIsYoung'
      <3> SUFFICES ASSUME NEW t \in Threads, at[t] = "put", NEW s \in Resources, Undisturbed(s)'
                   PROVE  \/ stamp[t] >= file'[s].mtime
                          \/ holder = t /\ \A o \in made : o.res = s => ~Current(o)'
        BY <2>1 DEF LeaseIsYoung
      <3>1. CASE s = r
        <4>1. holder = t
          BY <1>3, <3>1 DEF Modify, Overtaking, Undisturbed
        <4> QED
          BY <2>6, <3>1, <4>1
      <3>2. CASE s # r
        BY <2>2, <2>7, <3>2 DEF LeaseIsYoung, Current
      <3> QED
        BY <3>1, <3>2
    <2>10. CurrentIsKept'
      BY <2>1, <2>2, <2>8 DEF CurrentIsKept, OnItsWay, CacheIsYoung
    <2>11. HolderSees' /\ LoadsOnce'
      BY <2>1, <2>2, <2>8 DEF HolderSees, LoadsOnce
    <2>12. OneObject'
      BY <2>1, <2>2, <2>5 DEF OneObject
    <2> QED
      BY <2>9, <2>10, <2>11, <2>12 DEF OnceInv
  <1>4. CASE UNCHANGED vars
    BY <1>4 DEF vars, OnceInv, LeaseIsYoung, CurrentIsKept, OnItsWay, CacheIsYoung,
       HolderSees, LoadsOnce, OneObject, Relevant, Undisturbed, Current
  <1> QED
    BY <1>1, <1>2, <1>3, <1>4

\* One object for each version of a file, however the calls of get() interleave and
\* whatever fails, but for versions that overtake a renewal outside the lock: the second
\* lookup, behind the lock, finds what another thread put.
THEOREM OneObjectOfConfigurator == Spec => []OneObject
  <1>1. Init => OnceInv
    BY DEF Init, OnceInv, LeaseIsYoung, CurrentIsKept, HolderSees, LoadsOnce, OneObject
  <1>2. PlaceInv /\ OnceInv /\ [Next]_vars => OnceInv'
    BY OnceSteps, OnceOthers DEF Next
  <1>3. OnceInv => OneObject
    BY DEF OnceInv
  <1> QED
    BY <1>1, <1>2, <1>3, PlacesOfConfigurator, PTL DEF Spec

\* Every variable keeps its type.
THEOREM TypesOfConfigurator == Spec => []TypeOK
  BY PlacesOfConfigurator, PTL DEF PlaceInv

-----------------------------------------------------------------------------
(* How old an object may be                                                *)

\* Nothing is from the future, and no call began with a version not yet written.
PastInv ==
    /\ cache.time <= now
    /\ \A t \in Threads :
         /\ entry[t].time <= now /\ stamp[t] <= now /\ call[t].time <= now
         /\ at[t] # "idle" => /\ call[t].found <= file[call[t].res].version
                              /\ call[t].mtime <= file[call[t].res].mtime

\* An object is of version v of its file or a later one, or v is one that a lease may hide.
Covers(o, v) == o.version >= v \/ <<o.res, v>> \in missed

\* An entry notices the present version, and each version that a call has found.
Fresh(e) == Notices(e, file[e.obj.res].version, file[e.obj.res].mtime)
Since(e, t) ==
    at[t] # "idle" /\ call[t].res = e.obj.res => Notices(e, call[t].found, call[t].mtime)
Knows(e) == Fresh(e) /\ \A t \in Threads : Since(e, t)

\* An object that is about to get a lease covers the same versions.
CoversAll(o) ==
    /\ Covers(o, file[o.res].version)
    /\ \A t \in Threads : at[t] # "idle" /\ call[t].res = o.res => Covers(o, call[t].found)

\* What a call returns is not too old.
NotOld(t) ==
    \/ Covers(obj[t], call[t].found)
    \/ call[t].time <= call[t].mtime + Lifetime

AgeOf(t) ==
    /\ at[t] \in {"lease", "stat"} => Knows(entry[t])
    /\ at[t] = "stat" => obj[t] = entry[t].obj
    /\ at[t] = "stamp" => CoversAll(obj[t])
    /\ at[t] = "put" => Knows([time |-> stamp[t], obj |-> obj[t]])
    /\ at[t] = "put" /\ obj[t].res = call[t].res => Covers(obj[t], call[t].found)
    /\ at[t] = "returned" /\ call[t].cached /\ obj[t].res = call[t].res => NotOld(t)

AgeInv == (cache # NoEntry => Knows(cache)) /\ \A t \in Threads : AgeOf(t)

LEMMA PastSteps ==
    ASSUME PlaceInv, PastInv, NEW t \in Threads, Step(t)
    PROVE  PastInv'
  <1>1. /\ UNCHANGED <<file, now>>
        /\ \A u \in Threads \ {t} :
             /\ at'[u] = at[u] /\ call'[u] = call[u] /\ entry'[u] = entry[u]
             /\ stamp'[u] = stamp[u]
    BY StepFrame
  <1>2. now \in Nat
    BY StepFrame
  <1>3. /\ entry'[t] \in {entry[t], cache, NoEntry}
        /\ stamp'[t] \in {stamp[t], now, 0}
        /\ cache' = cache \/ cache'.time = stamp[t]
        /\ at[t] # "idle"
        /\ \/ call'[t] = call[t]
           \/ at'[t] = "idle" /\ call'[t] = NoCall
    BY DEF PlaceInv, TypeOK, Step, Lookup, Lease, Stat, Lock, Load, LoadFails, Stamp,
       Put, Finish, Misses, Leaves, Goes
  <1>4. cache'.time <= now
    BY <1>3 DEF PastInv
  <1>5. entry'[t].time <= now /\ stamp'[t] <= now /\ call'[t].time <= now
    BY <1>2, <1>3 DEF PastInv, NoEntry, NoCall
  <1>6. at'[t] # "idle" => /\ call'[t].found <= file[call'[t].res].version
                          /\ call'[t].mtime <= file[call'[t].res].mtime
    BY <1>3 DEF PastInv
  <1> QED
    BY <1>1, <1>4, <1>5, <1>6 DEF PastInv

LEMMA PastOthers ==
    ASSUME PlaceInv, PastInv,
           \/ \E t \in Threads, r \in Resources, useCache \in BOOLEAN : Get(t, r, useCache)
           \/ Tick \/ (\E r \in Resources : Modify(r)) \/ UNCHANGED vars
    PROVE  PastInv'
  <1>0. /\ now \in Nat
        /\ \A r \in Resources : file[r].version \in Nat /\ file[r].mtime \in Nat
        /\ cache.time \in Nat
        /\ \A t \in Threads : entry[t].time \in Nat /\ stamp[t] \in Nat /\ call[t].time \in Nat
    <2>1. /\ now \in Nat /\ \A t \in Threads : stamp[t] \in Nat
          /\ \A r \in Resources : file[r].version \in Nat /\ file[r].mtime \in Nat
      BY ConfiguratorAssumption DEF PlaceInv, TypeOK, Files
    <2>2. \A e \in Entries : e.time \in Nat
      BY ConfiguratorAssumption DEF Entries, NoEntry
    <2>3. cache.time \in Nat /\ \A t \in Threads : entry[t].time \in Nat
      BY <2>2 DEF PlaceInv, TypeOK
    <2>4. \A c \in {NoCall} \cup Calls : c.time \in Nat
      BY ConfiguratorAssumption DEF Calls, NoCall
    <2>5. \A t \in Threads : call[t].time \in Nat
      BY <2>4 DEF PlaceInv, TypeOK, Calls
    <2> QED
      BY <2>1, <2>3, <2>5
  <1>1. ASSUME NEW t \in Threads, NEW r \in Resources, NEW useCache \in BOOLEAN,
               Get(t, r, useCache)
        PROVE  PastInv'
    <2>1. /\ UNCHANGED <<now, file, cache, entry, stamp>>
          /\ call'[t].time = now /\ call'[t].res = r /\ call'[t].found = file[r].version
          /\ call'[t].mtime = file[r].mtime
          /\ \A u \in Threads \ {t} : at'[u] = at[u] /\ call'[u] = call[u]
      BY <1>1 DEF Get, Goes, envVars, PlaceInv, TypeOK
    <2> QED
      BY <1>0, <2>1 DEF PastInv
  <1>2. CASE Tick
    BY <1>0, <1>2 DEF Tick, PastInv
  <1>3. ASSUME NEW r \in Resources, Modify(r) PROVE PastInv'
    <2>1. PICK c \in {"good", "bad", "missing"} :
            file' = [file EXCEPT ![r] = [version |-> file[r].version + 1, mtime |-> now,
                                         content |-> c]]
      BY <1>3 DEF Modify
    <2>2. UNCHANGED <<now, cache, at, call, entry, stamp>> /\ file \in [Resources -> Files]
      BY <1>3 DEF Modify, PlaceInv, TypeOK
    <2>3. \A s \in Resources : /\ file'[s].version \in {file[s].version, file[s].version + 1}
                               /\ file'[s].mtime >= file[s].mtime
      BY <1>0, <2>1, <2>2 DEF PlaceInv
    <2>4. ASSUME NEW t \in Threads, at[t] # "idle"
          PROVE  /\ call[t].found <= file'[call[t].res].version
                 /\ call[t].mtime <= file'[call[t].res].mtime
      <3>1. call[t].res \in Resources /\ call[t].found \in Nat /\ call[t].mtime \in Nat
            /\ file'[call[t].res].mtime \in Nat
        BY <1>0, <2>1, <2>2, <2>4 DEF PlaceInv, Calls
      <3>2. call[t].found <= file[call[t].res].version /\ call[t].mtime <= file[call[t].res].mtime
        BY <2>4 DEF PastInv
      <3> QED
        BY <1>0, <2>3, <3>1, <3>2
    <2> QED
      BY <2>2, <2>4 DEF PastInv
  <1>4. CASE UNCHANGED vars
    BY <1>4 DEF vars, PastInv
  <1> QED
    BY <1>1, <1>2, <1>3, <1>4

\* The same of an entry or an object of this state after the step.
CoversNext(o, v) == o.version >= v \/ <<o.res, v>> \in missed'
NoticesNext(e, v, m) == e.obj.version >= v \/ e.time < m \/ <<e.obj.res, v>> \in missed'

CoversAllNext(o) ==
    /\ CoversNext(o, file'[o.res].version)
    /\ \A t \in Threads : at'[t] # "idle" /\ call'[t].res = o.res => CoversNext(o, call'[t].found)

KnowsNext(e) ==
    /\ NoticesNext(e, file'[e.obj.res].version, file'[e.obj.res].mtime)
    /\ \A t \in Threads :
         at'[t] # "idle" /\ call'[t].res = e.obj.res
           => NoticesNext(e, call'[t].found, call'[t].mtime)

\* What an entry notices it goes on to notice, and an object to cover.
LEMMA KnowledgeStays ==
    ASSUME missed \subseteq missed', file' = file,
           \A u \in Threads : at'[u] # "idle" => at[u] # "idle" /\ call'[u] = call[u]
    PROVE  /\ \A e : Knows(e) => KnowsNext(e)
           /\ \A o : CoversAll(o) => CoversAllNext(o)
           /\ \A o, v : Covers(o, v) => CoversNext(o, v)
  <1>1. \A o, v : Covers(o, v) => CoversNext(o, v)
    BY DEF Covers, CoversNext
  <1>2. \A e, v, m : Notices(e, v, m) => NoticesNext(e, v, m)
    BY DEF Notices, NoticesNext
  <1>3. ASSUME NEW e, Knows(e) PROVE KnowsNext(e)
    BY <1>2, <1>3 DEF Knows, Fresh, Since, KnowsNext
  <1>4. ASSUME NEW o, CoversAll(o) PROVE CoversAllNext(o)
    BY <1>1, <1>4 DEF CoversAll, CoversAllNext
  <1> QED
    BY <1>1, <1>3, <1>4

\* An object that covers all there is may have a lease of any time.
LEMMA CoveredIsKnown ==
    ASSUME NEW e, CoversAllNext(e.obj)
    PROVE  KnowsNext(e)
  BY DEF CoversAllNext, CoversNext, KnowsNext, NoticesNext

\* What the steps of get() do to the entry and the object of thread t.
LEMMA AgeTo ==
    ASSUME PlaceInv, NEW t \in Threads, Step(t)
    PROVE  /\ at'[t] = "lease" => entry'[t] = cache /\ cache # NoEntry
           /\ at'[t] = "stat" => at[t] = "lease" /\ entry'[t] = entry[t] /\ obj'[t] = entry[t].obj
           /\ at'[t] = "stamp" =>
                \/ /\ at[t] = "stat" /\ obj'[t] = obj[t] /\ ~NeedsRefresh(t)
                   /\ missed' = missed \cup Crossed(t)
                \/ /\ at[t] = "load" /\ obj'[t].res = call[t].res
                   /\ obj'[t].version = file[call[t].res].version
           /\ at'[t] = "put" => at[t] = "stamp" /\ obj'[t] = obj[t] /\ stamp'[t] = now
           /\ at'[t] = "returned" /\ call'[t].cached =>
                \/ at[t] = "lease" /\ obj'[t] = entry[t].obj /\ ~Expired(t)
                \/ at[t] = "put" /\ obj'[t] = obj[t]
           /\ cache' # cache => at[t] = "put" /\ cache' = [time |-> stamp[t], obj |-> obj[t]]
           /\ at'[t] # "idle" => at[t] # "idle" /\ call'[t] = call[t]
  BY DEF PlaceInv, TypeOK, LookingUp, Step, Lookup, Lease, Stat, Lock, Load, LoadFails, Stamp,
     Put, Finish, Misses, Leaves, Goes, envVars

\* Numbers are numbers.
LEMMA Numbers ==
    ASSUME PlaceInv
    PROVE  /\ now \in Nat /\ Lifetime \in Nat
           /\ \A r \in Resources : file[r].version \in Nat /\ file[r].mtime \in Nat
           /\ \A o \in Objects : o.res \in Resources /\ o.version \in Nat
           /\ \A e \in Leases : e.time \in Nat /\ e.time > 0 /\ e.obj \in Objects
           /\ \A c \in Calls : /\ c.res \in Resources /\ c.found \in Nat /\ c.mtime \in Nat
                              /\ c.time \in Nat
           /\ cache # NoEntry => cache \in Leases
  BY ConfiguratorAssumption DEF PlaceInv, TypeOK, Files, Objects, Leases, Calls, Entries

\* A new object covers all there is.
LEMMA PresentCovers ==
    ASSUME PlaceInv, PastInv, NEW o \in Objects, Current(o)
    PROVE  CoversAll(o)
  <1>1. ASSUME NEW t \in Threads, at[t] # "idle", call[t].res = o.res
        PROVE  o.version >= call[t].found
    <2>1. call[t] \in Calls
      BY <1>1 DEF PlaceInv
    <2> QED
      BY <1>1, <2>1, Numbers DEF PastInv, Current
  <1>2. o.version >= file[o.res].version
    BY Numbers DEF Current
  <1> QED
    BY <1>1, <1>2 DEF CoversAll, Covers

\* An expired entry that is renewed covers all there is, or what it does not is now hidden:
\* the look at its file finds nothing new, or is a look at another file.
LEMMA RenewedCovers ==
    ASSUME PlaceInv, PastInv, NEW t \in Threads, at[t] = "stat", AgeOf(t), ~NeedsRefresh(t),
           missed' = missed \cup Crossed(t), file' = file,
           \A u \in Threads : at'[u] # "idle" => at[u] # "idle" /\ call'[u] = call[u]
    PROVE  CoversAllNext(entry[t].obj)
  <1> DEFINE e == entry[t]
             r == e.obj.res
  <1>1. e \in Leases /\ call[t] \in Calls /\ Knows(e)
    BY DEF PlaceInv, AgeOf
  <1>2. e.obj \in Objects /\ r \in Resources /\ e.obj.version \in Nat /\ e.time \in Nat
        /\ file[r].version \in Nat /\ file[r].mtime \in Nat
    BY <1>1, Numbers
  <1>3. ASSUME NEW u \in Threads, at'[u] # "idle", call'[u].res = r
        PROVE  /\ at[u] # "idle" /\ call'[u] = call[u] /\ call[u].res = r
               /\ call[u].found \in Nat /\ call[u].found <= file[r].version
               /\ call[u].mtime \in Nat /\ call[u].mtime <= file[r].mtime
    <2>1. at[u] # "idle" /\ call'[u] = call[u] /\ call[u] \in Calls
      BY <1>3 DEF PlaceInv
    <2> QED
      BY <1>3, <2>1, Numbers DEF PastInv
  <1>4. CASE r = call[t].res
    <2>1. ~(e.time < file[r].mtime)
      BY <1>2, <1>4 DEF NeedsRefresh
    <2>2. CoversNext(e.obj, file[r].version)
      BY <1>1, <2>1 DEF Knows, Fresh, Notices, CoversNext
    <2>3. ASSUME NEW u \in Threads, at'[u] # "idle", call'[u].res = r
          PROVE  CoversNext(e.obj, call[u].found)
      <3>1. /\ ~(e.time < call[u].mtime)
            /\ at[u] # "idle" /\ call'[u] = call[u] /\ call[u].res = r
        BY <1>2, <1>3, <2>1, <2>3
      <3>2. Notices(e, call[u].found, call[u].mtime)
        BY <1>1, <3>1 DEF Knows, Since
      <3> QED
        BY <3>1, <3>2 DEF Notices, CoversNext
    <2> QED
      BY <1>3, <2>2, <2>3 DEF CoversAllNext
  <1>5. CASE r # call[t].res
    <2>1. \A v \in Nat : v <= file[r].version => e.obj.version >= v \/ <<r, v>> \in missed'
      <3>1. \A v \in (e.obj.version + 1)..file[r].version : <<r, v>> \in missed'
        BY <1>5 DEF Crossed
      <3> QED
        BY <1>2, <3>1
    <2>2. CoversNext(e.obj, file[r].version)
      BY <1>2, <2>1 DEF CoversNext
    <2>3. ASSUME NEW u \in Threads, at'[u] # "idle", call'[u].res = r
          PROVE  CoversNext(e.obj, call[u].found)
      BY <1>3, <2>1, <2>3 DEF CoversNext
    <2> QED
      BY <1>3, <2>2, <2>3 DEF CoversAllNext
  <1> QED
    BY <1>4, <1>5

\* AgeInv in the next state, in these terms.
AgeNext(t) ==
    /\ at'[t] \in {"lease", "stat"} => KnowsNext(entry'[t])
    /\ at'[t] = "stat" => obj'[t] = entry'[t].obj
    /\ at'[t] = "stamp" => CoversAllNext(obj'[t])
    /\ at'[t] = "put" => KnowsNext([time |-> stamp'[t], obj |-> obj'[t]])
    /\ at'[t] = "put" /\ obj'[t].res = call'[t].res => CoversNext(obj'[t], call'[t].found)
    /\ at'[t] = "returned" /\ call'[t].cached /\ obj'[t].res = call'[t].res =>
         \/ CoversNext(obj'[t], call'[t].found)
         \/ call'[t].time <= call'[t].mtime + Lifetime

LEMMA AgeNextIsNext ==
    ASSUME cache' # NoEntry => KnowsNext(cache'), \A t \in Threads : AgeNext(t)
    PROVE  AgeInv'
  <1>1. cache' # NoEntry => Knows(cache)'
    BY DEF Knows, Fresh, Since, Notices, KnowsNext, NoticesNext
  <1>2. ASSUME NEW t \in Threads PROVE AgeOf(t)'
    <2>1. AgeNext(t)
      OBVIOUS
    <2>2. at'[t] \in {"lease", "stat"} => Knows(entry[t])'
      BY <2>1 DEF AgeNext, Knows, Fresh, Since, Notices, KnowsNext, NoticesNext
    <2>3. at'[t] = "put" => Knows([time |-> stamp[t], obj |-> obj[t]])'
      BY <2>1 DEF AgeNext, Knows, Fresh, Since, Notices, KnowsNext, NoticesNext
    <2>4. at'[t] = "stamp" => CoversAll(obj[t])'
      BY <2>1 DEF AgeNext, CoversAll, Covers, CoversAllNext, CoversNext
    <2>5. /\ at'[t] = "put" /\ obj'[t].res = call'[t].res => Covers(obj[t], call[t].found)'
          /\ at'[t] = "returned" /\ call'[t].cached /\ obj'[t].res = call'[t].res => NotOld(t)'
      BY <2>1 DEF AgeNext, Covers, CoversNext, NotOld
    <2>6. at'[t] = "stat" => obj'[t] = entry'[t].obj
      BY <2>1 DEF AgeNext
    <2> QED
      BY <2>2, <2>3, <2>4, <2>5, <2>6 DEF AgeOf
  <1> QED
    BY <1>1, <1>2 DEF AgeInv

LEMMA AgeSteps ==
    ASSUME PlaceInv, PastInv, AgeInv, NEW t \in Threads, Step(t)
    PROVE  AgeInv'
  <1>1. /\ UNCHANGED <<file, now>> /\ missed \subseteq missed'
        /\ \A u \in Threads \ {t} :
             /\ at'[u] = at[u] /\ call'[u] = call[u] /\ entry'[u] = entry[u]
             /\ obj'[u] = obj[u] /\ stamp'[u] = stamp[u]
    BY StepFrame
  <1>2. \A u \in Threads : at'[u] # "idle" => at[u] # "idle" /\ call'[u] = call[u]
    BY <1>1, AgeTo
  <1>3. /\ \A e : Knows(e) => KnowsNext(e)
        /\ \A o : CoversAll(o) => CoversAllNext(o)
        /\ \A o, v : Covers(o, v) => CoversNext(o, v)
    BY <1>1, <1>2, KnowledgeStays
  <1>4. AgeOf(t) /\ (cache # NoEntry => Knows(cache))
    BY DEF AgeInv
  <1>5. cache' # NoEntry => KnowsNext(cache')
    <2>1. CASE cache' = cache
      BY <1>3, <1>4, <2>1
    <2>2. CASE cache' # cache
      <3>1. at[t] = "put" /\ cache' = [time |-> stamp[t], obj |-> obj[t]]
        BY <2>2, AgeTo
      <3>2. Knows([time |-> stamp[t], obj |-> obj[t]])
        BY <1>4, <3>1 DEF AgeOf
      <3> QED
        BY <1>3, <3>1, <3>2
    <2> QED
      BY <2>1, <2>2
  <1>6. ASSUME NEW u \in Threads \ {t} PROVE AgeNext(u)
    <2>1. /\ at'[u] = at[u] /\ call'[u] = call[u] /\ entry'[u] = entry[u]
          /\ obj'[u] = obj[u] /\ stamp'[u] = stamp[u]
      BY <1>1
    <2>2. AgeOf(u)
      BY DEF AgeInv
    <2>3. NotOld(u) => \/ CoversNext(obj[u], call[u].found)
                       \/ call[u].time <= call[u].mtime + Lifetime
      BY <1>3 DEF NotOld
    <2> QED
      BY <1>3, <2>1, <2>2, <2>3 DEF AgeOf, AgeNext
  <1>7. at'[t] = "lease" => KnowsNext(entry'[t])
    BY <1>3, <1>4, AgeTo
  <1>8. at'[t] = "stat" => KnowsNext(entry'[t]) /\ obj'[t] = entry'[t].obj
    BY <1>3, <1>4, AgeTo DEF AgeOf
  <1>9. at'[t] = "stamp" => CoversAllNext(obj'[t])
    <2>1. ASSUME at[t] = "stat", obj'[t] = obj[t], ~NeedsRefresh(t),
                 missed' = missed \cup Crossed(t)
          PROVE  CoversAllNext(obj'[t])
      <3>1. CoversAllNext(entry[t].obj)
        BY <1>1, <1>2, <1>4, <2>1, RenewedCovers
      <3> QED
        BY <1>4, <2>1, <3>1 DEF AgeOf
    <2>2. ASSUME at[t] = "load", obj'[t].res = call[t].res,
                 obj'[t].version = file[call[t].res].version, at'[t] = "stamp"
          PROVE  CoversAllNext(obj'[t])
      <3>1. obj'[t] \in Objects
        BY <2>2, PlaceStep DEF PlaceInv, Next
      <3>2. PICK o \in Objects : o = obj'[t]
        BY <3>1
      <3>3. CoversAll(o)
        BY <2>2, <3>2, PresentCovers DEF Current
      <3> QED
        BY <1>3, <3>2, <3>3
    <2> QED
      BY <2>1, <2>2, AgeTo
  <1>10. at'[t] = "put" =>
           /\ KnowsNext([time |-> stamp'[t], obj |-> obj'[t]])
           /\ obj'[t].res = call'[t].res => CoversNext(obj'[t], call'[t].found)
    <2> SUFFICES ASSUME at'[t] = "put"
                 PROVE  /\ KnowsNext([time |-> stamp'[t], obj |-> obj'[t]])
                        /\ obj'[t].res = call'[t].res => CoversNext(obj'[t], call'[t].found)
      OBVIOUS
    <2>1. at[t] = "stamp" /\ obj'[t] = obj[t]
      BY AgeTo
    <2>2. CoversAllNext(obj'[t])
      BY <1>3, <1>4, <2>1 DEF AgeOf
    <2>3. KnowsNext([time |-> stamp'[t], obj |-> obj'[t]])
      BY <2>2, CoveredIsKnown
    <2> QED
      BY <2>2, <2>3 DEF CoversAllNext
  <1>11. ASSUME at'[t] = "returned", call'[t].cached, obj'[t].res = call'[t].res
         PROVE  \/ CoversNext(obj'[t], call'[t].found)
                \/ call'[t].time <= call'[t].mtime + Lifetime
    <2>1. CASE at[t] = "lease" /\ obj'[t] = entry[t].obj /\ ~Expired(t)
      <3>1. entry[t] \in Leases /\ call[t] \in Calls /\ call'[t] = call[t] /\ call[t].time <= now
        BY <1>2, <1>11, <2>1 DEF PlaceInv, PastInv
      <3>2. Notices(entry[t], call[t].found, call[t].mtime)
        BY <1>4, <1>11, <2>1, <3>1 DEF AgeOf, Knows, Since
      <3>3. CASE entry[t].time < call[t].mtime
        BY <2>1, <3>1, <3>3, Numbers DEF Expired
      <3>4. CASE ~(entry[t].time < call[t].mtime)
        BY <1>3, <2>1, <3>1, <3>2, <3>4 DEF Notices, Covers
      <3> QED
        BY <3>3, <3>4
    <2>2. CASE at[t] = "put" /\ obj'[t] = obj[t]
      BY <1>2, <1>3, <1>4, <1>11, <2>2 DEF AgeOf
    <2> QED
      BY <1>11, <2>1, <2>2, AgeTo
  <1>12. AgeNext(t)
    BY <1>7, <1>8, <1>9, <1>10, <1>11 DEF AgeNext
  <1> QED
    BY <1>5, <1>6, <1>12, AgeNextIsNext

LEMMA AgeOthers ==
    ASSUME PlaceInv, PastInv, AgeInv,
           \/ \E t \in Threads, r \in Resources, useCache \in BOOLEAN : Get(t, r, useCache)
           \/ Tick \/ (\E r \in Resources : Modify(r)) \/ UNCHANGED vars
    PROVE  AgeInv'
  <1>1. ASSUME NEW t \in Threads, NEW r \in Resources, NEW useCache \in BOOLEAN,
               Get(t, r, useCache)
        PROVE  AgeInv'
    <2>1. /\ UNCHANGED <<now, file, missed, cache, entry, obj, stamp>> /\ at[t] = "idle"
          /\ at'[t] \in {"lookup", "lock"} /\ call'[t].res = r
          /\ call'[t].found = file[r].version /\ call'[t].mtime = file[r].mtime
          /\ \A u \in Threads \ {t} : at'[u] = at[u] /\ call'[u] = call[u]
      BY <1>1 DEF Get, Goes, envVars, PlaceInv, TypeOK
    <2>2. \A e : Knows(e) => KnowsNext(e)
      BY <2>1 DEF Knows, Fresh, Since, Notices, KnowsNext, NoticesNext
    <2>3. \A o : CoversAll(o) => CoversAllNext(o)
      BY <2>1 DEF CoversAll, Covers, CoversAllNext, CoversNext
    <2>4. \A o, v : Covers(o, v) => CoversNext(o, v)
      BY <2>1 DEF Covers, CoversNext
    <2>5. ASSUME NEW u \in Threads PROVE AgeNext(u)
      <3>1. CASE u = t
        BY <2>1, <3>1 DEF AgeNext
      <3>2. CASE u # t
        <4>1. AgeOf(u) /\ at'[u] = at[u] /\ call'[u] = call[u]
          BY <2>1, <3>2 DEF AgeInv
        <4> QED
          BY <2>1, <2>2, <2>3, <2>4, <4>1 DEF AgeOf, AgeNext, NotOld
      <3> QED
        BY <3>1, <3>2
    <2> QED
      BY <2>1, <2>2, <2>5, AgeNextIsNext DEF AgeInv
  <1>2. CASE Tick
    BY <1>2 DEF Tick, AgeInv, AgeOf, Knows, Fresh, Since, Notices, CoversAll, Covers, NotOld
  <1>3. ASSUME NEW r \in Resources, Modify(r) PROVE AgeInv'
    <2>1. PICK c \in {"good", "bad", "missing"} :
            file' = [file EXCEPT ![r] = [version |-> file[r].version + 1, mtime |-> now,
                                         content |-> c]]
      BY <1>3 DEF Modify
    <2>2. /\ UNCHANGED <<now, cache, at, call, entry, obj, stamp>>
          /\ missed \subseteq missed' /\ (Unnoticed(r) => <<r, file'[r].version>> \in missed')
      BY <1>3 DEF Modify
    <2>3. file'[r].mtime = now /\ \A s \in Resources \ {r} : file'[s] = file[s]
      BY <2>1 DEF PlaceInv, TypeOK
    <2>4. ASSUME NEW e, Knows(e), e.obj.res \in Resources, e.time \in Nat, e.time <= now,
                 e.obj.res = r /\ e.time = now => Unnoticed(r)
          PROVE  KnowsNext(e)
      <3>1. NoticesNext(e, file'[e.obj.res].version, file'[e.obj.res].mtime)
        <4>1. CASE e.obj.res = r
          BY <2>2, <2>3, <2>4, <4>1, Numbers DEF NoticesNext
        <4>2. CASE e.obj.res # r
          BY <2>2, <2>3, <2>4, <4>2 DEF Knows, Fresh, Notices, NoticesNext
        <4> QED
          BY <4>1, <4>2
      <3>2. ASSUME NEW u \in Threads, at'[u] # "idle", call'[u].res = e.obj.res
            PROVE  NoticesNext(e, call'[u].found, call'[u].mtime)
        BY <2>2, <2>4, <3>2 DEF Knows, Since, Notices, NoticesNext
      <3> QED
        BY <3>1, <3>2 DEF KnowsNext
    <2>5. cache' # NoEntry => KnowsNext(cache')
      <3>1. cache # NoEntry => /\ Knows(cache) /\ cache.obj.res \in Resources
                               /\ cache.time \in Nat /\ cache.time <= now
        BY Numbers DEF AgeInv, PastInv
      <3>2. cache.obj.res = r /\ cache.time = now => Unnoticed(r)
        BY DEF Unnoticed
      <3> QED
        BY <2>2, <2>4, <3>1, <3>2
    <2>6. ASSUME NEW u \in Threads PROVE AgeNext(u)
      <3>1. AgeOf(u)
        BY DEF AgeInv
      <3>2. at[u] \in {"lease", "stat"} => KnowsNext(entry[u])
        <4>1. at[u] \in {"lease", "stat"} =>
                /\ Knows(entry[u]) /\ entry[u].obj.res \in Resources
                /\ entry[u].time \in Nat /\ entry[u].time <= now
          BY <3>1, Numbers DEF AgeOf, PlaceInv, PastInv
        <4>2. at[u] \in {"lease", "stat"} /\ entry[u].obj.res = r /\ entry[u].time = now
                => Unnoticed(r)
          BY DEF Unnoticed
        <4> QED
          BY <2>4, <4>1, <4>2
      <3>3. at[u] = "put" => KnowsNext([time |-> stamp[u], obj |-> obj[u]])
        <4> SUFFICES ASSUME at[u] = "put"
                     PROVE  KnowsNext([time |-> stamp[u], obj |-> obj[u]])
          OBVIOUS
        <4> DEFINE e == [time |-> stamp[u], obj |-> obj[u]]
        <4>1. /\ e.time = stamp[u] /\ e.obj = obj[u]
              /\ Knows(e) /\ obj[u].res \in Resources /\ stamp[u] \in Nat /\ stamp[u] <= now
          BY <3>1, Numbers, ConfiguratorAssumption DEF AgeOf, PlaceInv, PastInv
        <4>2. obj[u].res = r /\ stamp[u] = now => Unnoticed(r)
          BY DEF Unnoticed
        <4> HIDE DEF e
        <4>3. KnowsNext(e)
          BY <2>4, <4>1, <4>2
        <4> QED
          BY <4>3 DEF e
      <3>4. \A o, v : Covers(o, v) => CoversNext(o, v)
        BY <2>2 DEF Covers, CoversNext
      <3>5. at[u] = "stamp" => CoversAllNext(obj[u])
        <4> SUFFICES ASSUME at[u] = "stamp" PROVE CoversAllNext(obj[u])
          OBVIOUS
        <4>1. CoversAll(obj[u]) /\ obj[u].res \in Resources
          BY <3>1, Numbers DEF AgeOf, PlaceInv
        <4>2. CoversNext(obj[u], file'[obj[u].res].version)
          <5>1. CASE obj[u].res = r
            BY <2>2, <5>1 DEF Unnoticed, CoversNext
          <5>2. CASE obj[u].res # r
            BY <2>3, <3>4, <4>1, <5>2 DEF CoversAll
          <5> QED
            BY <5>1, <5>2
        <4> QED
          BY <2>2, <3>4, <4>1, <4>2 DEF CoversAll, CoversAllNext
      <3> QED
        BY <2>2, <3>1, <3>2, <3>3, <3>4, <3>5 DEF AgeOf, AgeNext, NotOld
    <2> QED
      BY <2>5, <2>6, AgeNextIsNext
  <1>4. CASE UNCHANGED vars
    BY <1>4 DEF vars, AgeInv, AgeOf, Knows, Fresh, Since, Notices, CoversAll, Covers, NotOld
  <1> QED
    BY <1>1, <1>2, <1>3, <1>4

LEMMA AgeInvariance == Spec => [](PlaceInv /\ PastInv /\ AgeInv)
  <1>1. Init => PastInv /\ AgeInv
    <2> SUFFICES ASSUME Init PROVE PastInv /\ AgeInv
      OBVIOUS
    <2>1. /\ now = 1 /\ cache = NoEntry
          /\ \A t \in Threads : /\ at[t] = "idle" /\ entry[t] = NoEntry /\ stamp[t] = 0
                                /\ call[t] = NoCall
      BY DEF Init
    <2> QED
      BY <2>1 DEF PastInv, AgeInv, AgeOf, NoEntry, NoCall
  <1>2. PlaceInv /\ PastInv /\ AgeInv /\ [Next]_vars => PastInv' /\ AgeInv'
    BY PastSteps, PastOthers, AgeSteps, AgeOthers DEF Next
  <1> QED
    BY <1>1, <1>2, PlacesOfConfigurator, PTL DEF Spec

\* An entry older than its file will be replaced when it has expired, with any number of
\* resources and through any renewal outside the lock; the exceptions are the versions that
\* came in the tick of the lease, between the look at the file and the time noted for it, or
\* before a renewal by the age of another file.
THEOREM StaleOfConfigurator == Spec => []StaleIsNoticed
  <1>1. AgeInv => StaleIsNoticed
    BY DEF AgeInv, Knows, Fresh, StaleIsNoticed
  <1> QED
    BY <1>1, AgeInvariance, PTL

\* A cached get() returns the version it found, or a later one, unless that version was
\* younger than the lifetime, with the exceptions of StaleIsNoticed and no others.
THEOREM StalenessOfConfigurator == Spec => []StalenessBounded
  <1>1. AgeInv => StalenessBounded
    <2> SUFFICES ASSUME AgeInv, NEW t \in Threads,
                        at[t] = "returned", call[t].cached, obj[t].res = call[t].res
                 PROVE  \/ obj[t].version >= call[t].found
                        \/ call[t].time <= call[t].mtime + Lifetime
                        \/ <<call[t].res, call[t].found>> \in missed
      BY DEF StalenessBounded
    <2>1. NotOld(t)
      BY DEF AgeInv, AgeOf
    <2> QED
      BY <2>1 DEF NotOld, Covers
  <1> QED
    BY <1>1, AgeInvariance, PTL
=============================================================================
