----------------------------- MODULE Configurator -----------------------------
(***************************************************************************)
(* net.kwami.utils.Configurator: get(classT, resourceName, useCache) as    *)
(* threads run it for one class.  An entry of the cache holds an object    *)
(* and the time of its lease.  An entry that has expired is either renewed *)
(* with the same object or, if the file has changed since that time,       *)
(* replaced.  Loading happens under the lock of the class, looking up and  *)
(* renewing with or without it.                                            *)
(*                                                                         *)
(* CACHE is keyed by the name of the class, so there is one entry here.    *)
(* Every step looks at the cache, the clock or the file once.              *)
(***************************************************************************)
EXTENDS Naturals

CONSTANTS Threads,
          Resources,     \* resource names used with the class
          Lifetime,      \* LIFETIME_MILLIS, in ticks of the clock
          MaxTime,       \* bound: ticks of the clock
          MaxVersion,    \* bound: versions of a file
          MaxCalls       \* bound: calls of get()

\* Objects are told apart by the call that loaded them.
Objects  == [res : Resources, version : 1..MaxVersion, by : 1..MaxCalls]
NoObject == [res |-> "none", version |-> 0, by |-> 0]
NoEntry  == [time |-> 0, obj |-> NoObject]
NoBody   == "nobody"
NoCall   == [res |-> "none", cached |-> FALSE, number |-> 0, time |-> 0, found |-> 0, mtime |-> 0]

ASSUME ConfiguratorAssumption ==
    /\ Lifetime \in Nat \ {0} /\ MaxTime \in Nat \ {0} /\ MaxVersion \in Nat \ {0}
    /\ MaxCalls \in Nat /\ NoBody \notin Threads

VARIABLES
    now,       \* System.currentTimeMillis()
    file,      \* per resource: version, time of its last modification, content
    cache,     \* the entry of the class
    holder,    \* who holds the lock of the class
    at,        \* per thread: where in get()
    call,      \* its arguments; as a history its number, and as it began the time, the
               \* version it found, and when that was modified
    entry,     \* the entry it looked up
    obj,       \* the object it is about to return
    stamp,     \* the lease it is about to put
    calls,     \* calls begun
    made,      \* history: objects loaded for the cache
    missed,    \* history: versions, as <<resource, version>>, a lease may hide
    overtaken  \* history: versions that came while a renewed lease was not yet put

envVars == <<now, file, overtaken>>
vars == <<now, file, cache, holder, at, call, entry, obj, stamp, calls, made, missed, overtaken>>

Init ==
    /\ now = 1
    /\ file = [r \in Resources |-> [version |-> 1, mtime |-> 0, content |-> "good"]]
    /\ cache = NoEntry /\ holder = NoBody
    /\ at = [t \in Threads |-> "idle"]
    /\ call = [t \in Threads |-> NoCall]
    /\ entry = [t \in Threads |-> NoEntry]
    /\ obj = [t \in Threads |-> NoObject]
    /\ stamp = [t \in Threads |-> 0]
    /\ calls = 0 /\ made = {} /\ missed = {} /\ overtaken = {}

-----------------------------------------------------------------------------
(* get()                                                                   *)

Goes(t, place) == at' = [at EXCEPT ![t] = place]

\* return or throw: leaves the synchronized block, if inside.
Leaves(t, place) ==
    /\ Goes(t, place)
    /\ holder' = IF holder = t THEN NoBody ELSE holder

\* getCachedObject yields null: the lock first, then the file.
Misses(t) ==
    /\ Goes(t, IF holder = t THEN "load" ELSE "lock")
    /\ UNCHANGED holder

Get(t, r, useCache) ==
    /\ at[t] = "idle" /\ calls < MaxCalls
    /\ calls' = calls + 1
    /\ call' = [call EXCEPT ![t] = [res |-> r, cached |-> useCache, number |-> calls',
                                    time |-> now, found |-> file[r].version,
                                    mtime |-> file[r].mtime]]
    /\ Goes(t, IF useCache THEN "lookup" ELSE "lock")
    /\ UNCHANGED <<envVars, missed, cache, holder, entry, obj, stamp, made>>

\* CACHE.get(key)
Lookup(t) ==
    /\ at[t] = "lookup"
    /\ entry' = [entry EXCEPT ![t] = cache]
    /\ IF cache = NoEntry THEN Misses(t) ELSE Goes(t, "lease") /\ UNCHANGED holder
    /\ UNCHANGED <<envVars, missed, cache, call, obj, stamp, calls, made>>

\* hasExpired
Expired(t) == entry[t].time + Lifetime < now

Lease(t) ==
    /\ at[t] = "lease"
    /\ obj' = [obj EXCEPT ![t] = entry[t].obj]
    /\ IF Expired(t) THEN Goes(t, "stat") /\ UNCHANGED holder ELSE Leaves(t, "returned")
    /\ UNCHANGED <<envVars, missed, cache, call, entry, stamp, calls, made>>

\* needsRefresh(f.lastModified())
NeedsRefresh(t) == file[call[t].res].mtime > entry[t].time

\* The age of another resource is no measure of the entry: what has become of its own
\* file since is hidden by the new lease.
Crossed(t) ==
    LET o == entry[t].obj
    IN  IF o.res = call[t].res THEN {}
        ELSE {<<o.res, v>> : v \in (o.version + 1)..file[o.res].version}

\* The file is gone: getResource returns null, a NullPointerException.
Stat(t) ==
    /\ at[t] = "stat"
    /\ IF file[call[t].res].content = "missing" THEN Leaves(t, "thrown") /\ UNCHANGED missed
       ELSE IF NeedsRefresh(t) THEN Misses(t) /\ UNCHANGED missed
       ELSE Goes(t, "stamp") /\ missed' = missed \cup Crossed(t) /\ UNCHANGED holder
    /\ UNCHANGED <<envVars, cache, call, entry, obj, stamp, calls, made>>

\* Mutant: no second lookup.
Lock_LoadsAtOnce(t) ==
    /\ at[t] = "lock" /\ holder = NoBody
    /\ holder' = t
    /\ Goes(t, "load")
    /\ UNCHANGED <<envVars, missed, cache, call, entry, obj, stamp, calls, made>>

\* synchronized (classT), then getCachedObject again.
Lock(t) ==
    /\ at[t] = "lock" /\ holder = NoBody
    /\ holder' = t
    /\ Goes(t, IF call[t].cached THEN "lookup" ELSE "load")
    /\ UNCHANGED <<envVars, missed, cache, call, entry, obj, stamp, calls, made>>

\* Mutant: loading is tried until it works.
LoadFails_Retries(t) ==
    /\ at[t] = "load" /\ file[call[t].res].content # "good"
    /\ Goes(t, IF call[t].cached THEN "lookup" ELSE "load")
    /\ UNCHANGED <<envVars, missed, cache, holder, call, entry, obj, stamp, calls, made>>

\* No file, one Gson cannot parse, or an empty one: a RuntimeException.
LoadFails(t) ==
    /\ at[t] = "load" /\ file[call[t].res].content # "good"
    /\ Leaves(t, "thrown")
    /\ UNCHANGED <<envVars, missed, cache, call, entry, obj, stamp, calls, made>>

Load(t) ==
    LET r == call[t].res
        o == [res |-> r, version |-> file[r].version, by |-> call[t].number]
    IN  /\ at[t] = "load" /\ file[r].content = "good"
        /\ obj' = [obj EXCEPT ![t] = o]
        /\ IF call[t].cached
           THEN Goes(t, "stamp") /\ made' = made \cup {o} /\ UNCHANGED holder
           ELSE Leaves(t, "returned") /\ UNCHANGED made
        /\ UNCHANGED <<envVars, missed, cache, call, entry, stamp, calls>>

\* new CachedObject: for a renewed or a new object.
Stamp(t) ==
    /\ at[t] = "stamp"
    /\ stamp' = [stamp EXCEPT ![t] = now]
    /\ Goes(t, "put")
    /\ UNCHANGED <<envVars, missed, cache, holder, call, entry, obj, calls, made>>

\* Mutant: the time is noted as the entry is put.
Put_StampsAnew(t) ==
    /\ at[t] = "put"
    /\ cache' = [time |-> now, obj |-> obj[t]]
    /\ Leaves(t, "returned")
    /\ UNCHANGED <<envVars, missed, call, entry, obj, stamp, calls, made>>

\* CACHE.put: it replaces what is there by now.
Put(t) ==
    /\ at[t] = "put"
    /\ cache' = [time |-> stamp[t], obj |-> obj[t]]
    /\ Leaves(t, "returned")
    /\ UNCHANGED <<envVars, missed, call, entry, obj, stamp, calls, made>>

Finish(t) ==
    /\ at[t] \in {"returned", "thrown"}
    /\ Goes(t, "idle")
    /\ call' = [call EXCEPT ![t] = NoCall]
    /\ entry' = [entry EXCEPT ![t] = NoEntry]
    /\ obj' = [obj EXCEPT ![t] = NoObject]
    /\ stamp' = [stamp EXCEPT ![t] = 0]
    /\ UNCHANGED <<envVars, missed, cache, holder, calls, made>>

Step(t) == \/ Lookup(t) \/ Lease(t) \/ Stat(t) \/ Lock(t) \/ Load(t) \/ LoadFails(t)
           \/ Stamp(t) \/ Put(t) \/ Finish(t)

-----------------------------------------------------------------------------
(* The environment                                                         *)

Tick ==
    /\ now < MaxTime
    /\ now' = now + 1
    /\ UNCHANGED <<file, cache, holder, at, call, entry, obj, stamp, calls, made, missed,
                   overtaken>>

\* A modification of r is hidden by a lease of the time before it, which is one that a
\* thread has yet to note, or by one of the very tick: put, about to be, or about to be judged.
Unnoticed(r) ==
    \/ \E t \in Threads :
         \/ at[t] = "stamp" /\ obj[t].res = r
         \/ at[t] = "put" /\ obj[t].res = r /\ stamp[t] = now
         \/ at[t] \in {"lease", "stat"} /\ entry[t].obj.res = r /\ entry[t].time = now
    \/ cache.obj.res = r /\ cache.time = now

\* A lease renewed without the lock is on its way, and may replace an object loaded since.
Overtaking == \E t \in Threads : at[t] = "put" /\ holder # t

Modify(r) ==
    /\ file[r].version < MaxVersion
    /\ \E c \in {"good", "bad", "missing"} :
         file' = [file EXCEPT ![r] = [version |-> @.version + 1, mtime |-> now, content |-> c]]
    /\ missed' = missed \cup {v \in {<<r, file'[r].version>>} : Unnoticed(r)}
    /\ overtaken' = overtaken \cup {v \in {<<r, file'[r].version>>} : Overtaking}
    /\ UNCHANGED <<now, cache, holder, at, call, entry, obj, stamp, calls, made>>

Next ==
    \/ \E t \in Threads, r \in Resources, useCache \in BOOLEAN : Get(t, r, useCache)
    \/ \E t \in Threads : Step(t)
    \/ Tick
    \/ \E r \in Resources : Modify(r)

Spec == Init /\ [][Next]_vars

\* Threads are scheduled; among finitely many calls each gets the lock in the end.
FairSpec == Spec /\ \A t \in Threads : WF_vars(Step(t))

-----------------------------------------------------------------------------
(* Properties                                                              *)

Files == [version : 1..MaxVersion, mtime : 0..MaxTime, content : {"good", "bad", "missing"}]
Entries == {NoEntry} \cup [time : 1..MaxTime, obj : Objects]

TypeOK ==
    /\ now \in 1..MaxTime /\ calls \in 0..MaxCalls
    /\ file \in [Resources -> Files]
    /\ cache \in Entries /\ holder \in Threads \cup {NoBody}
    /\ at \in [Threads -> {"idle", "lookup", "lease", "stat", "lock", "load", "stamp",
                           "put", "returned", "thrown"}]
    /\ call \in [Threads -> {NoCall} \cup
                  [res : Resources, cached : BOOLEAN, number : 1..MaxCalls,
                   time : 1..MaxTime, found : 1..MaxVersion, mtime : 0..MaxTime]]
    /\ entry \in [Threads -> Entries]
    /\ obj \in [Threads -> Objects \cup {NoObject}]
    /\ stamp \in [Threads -> 0..MaxTime]
    /\ made \subseteq Objects
    /\ missed \subseteq Resources \X (1..MaxVersion)
    /\ overtaken \subseteq Resources \X (1..MaxVersion)

\* "Only a single object based on the JSON file will be created" (Configurator.java 58-61)
\* for each version of the file, however calls interleave and whatever fails.  The one
\* exception is a version that comes between new CachedObject and put of a renewal outside
\* the lock (183): that put replaces the object loaded meanwhile, to be loaded once more.
OneObject ==
    \A o, p \in made :
        o.res = p.res /\ o.version = p.version /\ <<o.res, o.version>> \notin overtaken => o = p

\* What entry e will do about version v of its file, which came at time m.
Notices(e, v, m) == e.obj.version >= v \/ e.time < m \/ <<e.obj.res, v>> \in missed

\* An entry older than its file will be replaced when it has expired, its time being before
\* the modification (Configurator.java 33-35, 177-184), also when it was renewed over a newer
\* one.  It will not if the modification came in the tick of the lease, between the look at
\* the file (135-138 or 178-180) and the time noted for it (22), or before a call with another
\* resource name renewed the lease.
StaleIsNoticed ==
    cache # NoEntry =>
        LET f == file[cache.obj.res] IN Notices(cache, f.version, f.mtime)

\* A cached get() that gets an object of its resource gets the version the file had when it
\* was called, or a later one, unless that version is younger than the lifetime (Configurator.java
\* 26-35, 174-184): a lease renewed outside the lock (183) may replace a newer object, but with a
\* time that is before the modification.  The versions excepted are those of StaleIsNoticed.
StalenessBounded ==
    \A t \in Threads :
        at[t] = "returned" /\ call[t].cached /\ obj[t].res = call[t].res =>
            \/ obj[t].version >= call[t].found
            \/ call[t].time <= call[t].mtime + Lifetime
            \/ <<call[t].res, call[t].found>> \in missed

\* Every get() returns or throws: failing ones do not keep the others from the lock
\* (Configurator.java 130-158).
GetsReturn == \A t \in Threads : at[t] # "idle" ~> at[t] = "idle"

\* "resourceName The name of the JSON file from which the object will get its values"
\* (Configurator.java 80-81).  Violated.
ResourceAsked ==
    \A t \in Threads : at[t] = "returned" => obj[t].res = call[t].res
=============================================================================
