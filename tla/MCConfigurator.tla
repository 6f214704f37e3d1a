--------------------------- MODULE MCConfigurator ---------------------------
(* Instances of Configurator for TLC. *)
EXTENDS Configurator

CONSTANTS t1, t2, r1, r2

TwoThreads   == {t1, t2}
TwoResources == {r1, r2}

-----------------------------------------------------------------------------
(* A lease that ends.  Either the first of the calls has put r1 into the   *)
(* cache in tick 1, or it was not for the cache; it is over, and so is     *)
(* that lease.  Then t1 calls once, for any of the resources and with or   *)
(* without the cache, and t2 again and again for r1, which changes.        *)

First == [res |-> r1, version |-> 1, by |-> 1]

LateInit ==
    /\ now = Lifetime + 2
    /\ file = [r \in Resources |-> [version |-> 1, mtime |-> 0, content |-> "good"]]
    /\ \/ cache = NoEntry /\ made = {}
       \/ cache = [time |-> 1, obj |-> First] /\ made = {First}
    /\ calls = 1 /\ missed = {} /\ overtaken = {} /\ holder = NoBody
    /\ at = [t \in Threads |-> "idle"] /\ call = [t \in Threads |-> NoCall]
    /\ entry = [t \in Threads |-> NoEntry] /\ obj = [t \in Threads |-> NoObject]
    /\ stamp = [t \in Threads |-> 0]

LateNext ==
    \/ calls = 1 /\ \E r \in Resources, useCache \in BOOLEAN : Get(t1, r, useCache)
    \/ calls > 1 /\ Get(t2, r1, TRUE)
    \/ \E t \in Threads : Step(t)
    \/ Tick
    \/ Modify(r1)

LateSpec == LateInit /\ [][LateNext]_vars /\ \A t \in Threads : WF_vars(Step(t))
=============================================================================
