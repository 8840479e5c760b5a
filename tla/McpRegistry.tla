----------------------------- MODULE McpRegistry -----------------------------
(***************************************************************************)
(* The MCP discovery registry, seen from one agent.                        *)
(*                                                                         *)
(* Every replica of the manager holds a map of entries in memory, sweeps   *)
(* the expired ones, and overwrites one shared ConfigMap with its whole    *)
(* map whenever an entry comes or goes; it reads the ConfigMap once, when  *)
(* it starts.  An entry is modelled by the age of its HeartbeatAt.  The    *)
(* entries of other agents matter only in that any operation on one of     *)
(* them writes this agent's entry, too.                                    *)
(***************************************************************************)
EXTENDS Integers

CONSTANTS
  Replicas,   \* the pods of the manager
  TTL         \* Registry.defaultTTL, in units of DefaultSweepInterval

ASSUME TTLAssumption == TTL \in Nat \ {0}

VARIABLES
  mem,     \* mem[r]: the agent's entry in the memory of r
  cm,      \* the agent's entry in the ConfigMap
  seen,    \* seen[r]: the same in r's informer cache
  fresh,   \* fresh[r]: is the cached resourceVersion the API server's?
  loaded,  \* loaded[r]: is r past loadFromConfigMap?
  dirty    \* dirty[r]: is an operation of r that is not the reconciler's about to persist?

store == <<mem, cm, seen, fresh, loaded, dirty>>

\* No entry.
Nil == -1

\* Ages are exact up to the TTL and one more.
Old == TTL + 1
Entries == {Nil} \cup 0..Old

StoreTypeOK ==
  /\ mem \in [Replicas -> Entries] /\ cm \in Entries /\ seen \in [Replicas -> Entries]
  /\ fresh \in [Replicas -> BOOLEAN] /\ loaded \in [Replicas -> BOOLEAN]
  /\ dirty \in [Replicas -> BOOLEAN]

StoreInit ==
  /\ mem = [r \in Replicas |-> Nil] /\ cm = Nil /\ seen = [r \in Replicas |-> Nil]
  /\ fresh = [r \in Replicas |-> TRUE] /\ loaded = [r \in Replicas |-> TRUE]
  /\ dirty = [r \in Replicas |-> FALSE]

-----------------------------------------------------------------------------
(* The operations, up to where they release the lock on the map.           *)

\* Mutant: an entry is served until the sweeper finds it.
MutListedUntilSwept(r) == mem[r] # Nil

\* What Get and List return: the entry unless it has expired.
Listed(r) == mem[r] \in 0..TTL

Set(r, e) == mem' = [mem EXCEPT ![r] = e]

\* The sweeper removes the expired entry, and will persist.
sweepExpired(r) ==
  /\ mem[r] > TTL
  /\ Set(r, Nil)
  /\ dirty' = [dirty EXCEPT ![r] = TRUE]
  /\ UNCHANGED <<cm, seen, fresh, loaded>>

\* POST /agents, of an entry without a TTL of its own, and DELETE
\* /agents/{namespace}/{name}.
handleRegister(r) ==
  /\ Set(r, 0)
  /\ dirty' = [dirty EXCEPT ![r] = TRUE]
  /\ UNCHANGED <<cm, seen, fresh, loaded>>

handleDeregister(r) ==
  /\ mem[r] # Nil
  /\ Set(r, Nil)
  /\ dirty' = [dirty EXCEPT ![r] = TRUE]
  /\ UNCHANGED <<cm, seen, fresh, loaded>>

-----------------------------------------------------------------------------
(* The ConfigMap.                                                          *)

\* CreateOrUpdate of the whole map: nothing to do if the cached ConfigMap already
\* says so; otherwise an update that the API server refuses from an old copy.
persistToConfigMap(r) ==
  \/ mem[r] = seen[r] /\ UNCHANGED <<cm, fresh>>
  \/ fresh[r] /\ cm' = mem[r] /\ fresh' = [q \in Replicas |-> FALSE]

\* The sweeper or an HTTP handler persists; either only logs or reports a failure.
PersistLater(r) ==
  /\ dirty[r]
  /\ persistToConfigMap(r)
  /\ dirty' = [dirty EXCEPT ![r] = FALSE]
  /\ UNCHANGED <<mem, seen, loaded>>

\* An entry of another agent came or went in r.
PersistOther(r) ==
  /\ persistToConfigMap(r)
  /\ UNCHANGED <<mem, seen, loaded, dirty>>

PersistLaterFails(r) ==
  /\ dirty[r]
  /\ dirty' = [dirty EXCEPT ![r] = FALSE]
  /\ UNCHANGED <<mem, cm, seen, fresh, loaded>>

\* Mutant: a recovered entry counts as just heard of.
MutLoadRenews(r) ==
  /\ ~loaded[r]
  /\ loaded' = [loaded EXCEPT ![r] = TRUE]
  /\ Set(r, IF seen[r] # Nil THEN 0 ELSE mem[r])
  /\ UNCHANGED <<cm, seen, fresh, dirty>>

\* What the ConfigMap has replaces what is in memory.
loadFromConfigMap(r) ==
  /\ ~loaded[r]
  /\ loaded' = [loaded EXCEPT ![r] = TRUE]
  /\ Set(r, IF seen[r] # Nil THEN seen[r] ELSE mem[r])
  /\ UNCHANGED <<cm, seen, fresh, dirty>>

\* Start logs the error and goes on without.
LoadFails(r) ==
  /\ ~loaded[r]
  /\ loaded' = [loaded EXCEPT ![r] = TRUE]
  /\ UNCHANGED <<mem, cm, seen, fresh, dirty>>

SyncConfigMap(r) ==
  /\ ~fresh[r]
  /\ seen' = [seen EXCEPT ![r] = cm] /\ fresh' = [fresh EXCEPT ![r] = TRUE]
  /\ UNCHANGED <<mem, cm, loaded, dirty>>

\* r crashes and comes back with an empty map and a new cache.
Restart(r) ==
  /\ Set(r, Nil)
  /\ seen' = [seen EXCEPT ![r] = cm] /\ fresh' = [fresh EXCEPT ![r] = TRUE]
  /\ loaded' = [loaded EXCEPT ![r] = FALSE] /\ dirty' = [dirty EXCEPT ![r] = FALSE]
  /\ UNCHANGED cm

Older(e) == IF e = Nil \/ e = Old THEN e ELSE e + 1

StoreTick ==
  /\ mem' = [r \in Replicas |-> Older(mem[r])] /\ cm' = Older(cm)
  /\ seen' = [r \in Replicas |-> Older(seen[r])]
  /\ UNCHANGED <<fresh, loaded, dirty>>

=============================================================================
