------------------------------ MODULE MobileCache ------------------------------
(***************************************************************************)
(* The cache of responses for mobile clients (core/mobile_cache.py): a     *)
(* request that finds nothing has its data made, during which others run,  *)
(* and stores it; a full cache gives up its least recently used entry.     *)
(*                                                                         *)
(* The methods of the cache suspend nowhere; only the making of the data   *)
(* gives up the event loop.  Data is the time at which it was read.        *)
(***************************************************************************)
EXTENDS Integers, FiniteSets, FiniteSetsExt

CONSTANTS
    CacheKeys,      \* keys: pairs of a type of client and what it asks for
    Askers,         \* requests
    MaxSize,        \* max_size
    Ttls,           \* times to live, by the type of client and of data
    Slow,           \* bound: how long data may take once it is read
    CacheHorizon    \* bound: time

ASSUME CacheAssumption ==
    /\ IsFiniteSet(CacheKeys) /\ IsFiniteSet(Askers) /\ MaxSize \in Nat \ {0}
    /\ IsFiniteSet(Ttls) /\ Ttls \subseteq Nat /\ Ttls # {}
    /\ Slow \in Nat /\ CacheHorizon \in Nat

VARIABLES
    cached,     \* the entries
    askers,     \* what each request does
    served,     \* history: how old the data was that it was last given
    clock

cacheVars == <<cached, askers, served, clock>>

-----------------------------------------------------------------------------
Time  == 0 .. CacheHorizon
Entry == [key : CacheKeys, read : Time, expires : Nat, used : Time]
Idle  == [pc |-> "idle"]
AskerType == [pc : {"idle"}] \cup [pc : {"making"}, key : CacheKeys]
             \cup [pc : {"read"}, key : CacheKeys, read : Time]

CacheInit ==
    /\ cached = {} /\ clock = 0
    /\ askers = [a \in Askers |-> Idle]
    /\ served = [a \in Askers |-> 0]

EntryOf(k)  == {e \in cached : e.key = k}
Expired(e)  == clock > e.expires
AskerGoes(a, s) == askers' = [askers EXCEPT ![a] = s]
Serve(a, r) == served' = [served EXCEPT ![a] = clock - r]

-----------------------------------------------------------------------------
(* get().                                                                  *)

\* Fault for Hit: an entry is served whatever its age.
HitAnyAge(a, k) ==
    /\ askers[a] = Idle
    /\ \E e \in EntryOf(k) :
         /\ cached' = (cached \ {e}) \cup {[e EXCEPT !.used = clock]}
         /\ Serve(a, e.read)
    /\ UNCHANGED <<askers, clock>>

Hit(a, k) ==
    /\ askers[a] = Idle
    /\ \E e \in EntryOf(k) :
         /\ ~Expired(e)
         /\ cached' = (cached \ {e}) \cup {[e EXCEPT !.used = clock]}
         /\ Serve(a, e.read)
    /\ UNCHANGED <<askers, clock>>

\* An expired entry is taken out; the data is made, whoever else is making it.
Miss(a, k) ==
    /\ askers[a] = Idle /\ \A e \in EntryOf(k) : Expired(e)
    /\ cached' = cached \ EntryOf(k)
    /\ AskerGoes(a, [pc |-> "making", key |-> k])
    /\ UNCHANGED <<served, clock>>

-----------------------------------------------------------------------------
(* The making of the data, and set().                                      *)

ReadData(a) ==
    /\ askers[a].pc = "making"
    /\ AskerGoes(a, [pc |-> "read", key |-> askers[a].key, read |-> clock])
    /\ UNCHANGED <<cached, served, clock>>

DataFails(a) ==
    /\ askers[a].pc # "idle"
    /\ AskerGoes(a, Idle)
    /\ UNCHANGED <<cached, served, clock>>

\* The keys that _evict_least_recently_used may take, none when there is room.  It
\* makes room for a key that is in the cache, too.
Victims == IF Cardinality(cached) < MaxSize THEN {{}}
           ELSE {{e} : e \in {f \in cached : \A g \in cached : f.used <= g.used}}

\* The data is stored, over what others have stored meanwhile, and served; when set()
\* fails it is only served.
StoreData(a) ==
    /\ askers[a].pc = "read"
    /\ \/ UNCHANGED cached
       \/ \E out \in Victims, ttl \in Ttls :
            cached' = {e \in cached \ out : e.key # askers[a].key} \cup
                      {[key |-> askers[a].key, read |-> askers[a].read,
                        expires |-> clock + ttl, used |-> clock]}
    /\ Serve(a, askers[a].read) /\ AskerGoes(a, Idle)
    /\ UNCHANGED clock

-----------------------------------------------------------------------------
(* The rest of the cache.                                                  *)

Delete(k)         == cached' = cached \ EntryOf(k)
ClearByClient(c)  == cached' = {e \in cached : e.key[1] # c}
ClearExpired      == cached' = {e \in cached : ~Expired(e)}

ClearEntries ==
    /\ \/ \E k \in CacheKeys : Delete(k) \/ ClearByClient(k[1])
       \/ ClearExpired
    /\ UNCHANGED <<askers, served, clock>>

Tick ==
    /\ clock < CacheHorizon
    /\ \A a \in Askers : askers[a].pc = "read" => clock - askers[a].read < Slow
    /\ clock' = clock + 1
    /\ UNCHANGED <<cached, askers, served>>

CacheNext ==
    \/ \E a \in Askers : \/ \E k \in CacheKeys : Hit(a, k) \/ Miss(a, k)
                         \/ ReadData(a) \/ DataFails(a) \/ StoreData(a)
    \/ ClearEntries \/ Tick

CacheSpec == CacheInit /\ [][CacheNext]_cacheVars

-----------------------------------------------------------------------------
CacheTypeOK ==
    /\ cached \subseteq Entry
    /\ askers \in [Askers -> AskerType]
    /\ served \in [Askers -> Time] /\ clock \in Time

\* Nobody is given data that was read longer ago than the longest time to live and
\* the slowest making of it, although requests that miss together overwrite one
\* another's data with what they have read earlier; a key has one entry, and there
\* are never more than max_size of them.
ServedRecent ==
    /\ \A a \in Askers : served[a] <= Max(Ttls) + Slow
    /\ \A d, e \in cached : d.key = e.key => d = e
    /\ Cardinality(cached) <= MaxSize
===============================================================================
