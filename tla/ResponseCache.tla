---------------------------- MODULE ResponseCache ----------------------------
(***************************************************************************)
(* The shared response cache: lookup (serveCached), the writer that        *)
(* captures a response and stores it (CachingResponseWriter), the Redis    *)
(* store with its Vary pointers and tag sets (Store), and the purges of    *)
(* the admin API.  One URL is modelled; entries of different URLs meet     *)
(* only in a tag set, as variants of one URL do.  One step is one Redis    *)
(* command.  The reachability gauge of the store is module CacheHealth.    *)
(***************************************************************************)
EXTENDS Integers, FiniteSets

CONSTANTS
    Requests,   \* BOUND: requests in the proxy at once
    Headers,    \* request headers that a response may vary on
    Kinds,      \* requests: their values of Headers, and Authorization
    Responses,  \* what the backend may answer
    MaxTTL,     \* BOUND: the longest lifetime, in ticks
    MaxStores,  \* BOUND: responses that are stored
    None

ASSUME CacheAssumption ==
    /\ MaxTTL \in Nat \ {0} /\ MaxStores \in Nat
    /\ \A q \in Kinds : q.auth \in BOOLEAN /\ DOMAIN q.values = Headers
    /\ \A p \in Responses :
          /\ p.vary = None \/ p.vary \subseteq Headers
          /\ p.cookie \in {"none", "header", "trailer"}
          /\ p.maxAge \in 0..MaxTTL /\ p.sMaxAge \in (0..MaxTTL) \cup {None}

VARIABLES
    entries,          \* Redis: key -> entry, pointer or None
    tag,              \* Redis: the members of the tag's set and its TTL
    at, kind,         \* where each request is, and what it asks
    got,              \* the response it received, or the entry it was served
    purge, members,   \* DeleteByTag, what SMEMBERS returned
    stores,           \* responses stored so far, for MaxStores
    lost              \* HISTORY: keys whose tag entry was lost

redis == <<entries, tag, lost>>
request == <<at, kind, got, stores>>
purging == <<purge, members>>
vars == <<redis, request, purging>>

(***************************************************************************)
(* Keys, and what may be stored.                                           *)
(***************************************************************************)

\* Mutant: the values of the headers do not reach the key.
KeyIgnoresVary(q, vary) == [h \in {} |-> q.values[h]]

\* The base key, extended by the value of every header of vary.
KeyFromRequest(q, vary) == [h \in vary |-> q.values[h]]

BaseKey == [h \in {} |-> None]
Keys == {[h \in vary |-> q.values[h]] : q \in Kinds, vary \in SUBSET Headers}

Live == {k \in Keys : entries[k] # None}

\* s-maxage, even 0, beats max-age.
TTL(p) == IF p.sMaxAge # None THEN p.sMaxAge ELSE p.maxAge

\* responseHasSetCookie: a trailer is seen only once the body has been read.
responseHasSetCookie(p, when) ==
    p.cookie = "header" \/ (p.cookie = "trailer" /\ when = "finish")

\* restricted: no-store, no-cache or private; public: public or must-revalidate.
IsCacheable(q, p) ==
    /\ p.status = "ok"
    /\ ~responseHasSetCookie(p, "head")
    /\ ~p.restricted
    /\ q.auth => p.public \/ p.sMaxAge # None
    /\ TTL(p) > 0

-----------------------------------------------------------------------------

Init ==
    /\ entries = [k \in Keys |-> None]
    /\ tag = [members |-> {}, ttl |-> 0] /\ lost = {}
    /\ at = [r \in Requests |-> "idle"]
    /\ kind = [r \in Requests |-> None] /\ got = [r \in Requests |-> None]
    /\ purge = "idle" /\ members = {} /\ stores = 0

(***************************************************************************)
(* serveCached.  A request is "hit" with the entry it was served, or goes  *)
(* to the backend.                                                         *)
(***************************************************************************)

To(r, place, what) ==
    /\ at' = [at EXCEPT ![r] = place]
    /\ got' = [got EXCEPT ![r] = what]

\* The response has been served and, perhaps, stored.
Done(r) == To(r, "idle", None) /\ kind' = [kind EXCEPT ![r] = None]

\* Get of the base key; a read that fails is a miss.
GetBase(r) ==
    /\ at[r] = "idle"
    /\ \E q \in Kinds : kind' = [kind EXCEPT ![r] = q]
    /\ LET e == entries[BaseKey] IN
       \/ e # None /\ e.vary = {} /\ To(r, "hit", e)
       \/ e # None /\ e.vary # {} /\ To(r, "lookup", e.vary)
       \/ To(r, "backend", None)
    /\ UNCHANGED <<redis, stores, purging>>

\* Get of the key that the pointer's Vary gives for this request.
GetVariant(r) ==
    /\ at[r] = "lookup"
    /\ LET e == entries[KeyFromRequest(kind[r], got[r])] IN
       \/ e # None /\ To(r, "hit", e)
       \/ To(r, "backend", None)
    /\ UNCHANGED <<redis, kind, stores, purging>>

Hit(r) ==
    /\ at[r] = "hit" /\ Done(r)
    /\ UNCHANGED <<redis, stores, purging>>

(***************************************************************************)
(* proxyWithCache: the response goes through WriteHeader, Write, and, even *)
(* when the copy was aborted, Finish.                                      *)
(***************************************************************************)

StoreKey(r) == KeyFromRequest(kind[r], got[r].vary)
Entry(r) == [vary |-> got[r].vary, pointer |-> FALSE, ttl |-> TTL(got[r]),
             from |-> got[r], for |-> kind[r]]
Pointer(r) == [vary |-> got[r].vary, pointer |-> TRUE, ttl |-> TTL(got[r]),
               from |-> None, for |-> None]

\* What WriteHeader decides; vary is None for "Vary: *".
cacheable(q, p) == IsCacheable(q, p) /\ p.vary # None

\* Write has given up buffering a body larger than MaxBodySize.
overflow(p) == p.big

\* Mutant: Finish is told nothing of an aborted copy.
StoresFragment(q, p) ==
    cacheable(q, p) /\ ~overflow(p) /\ ~responseHasSetCookie(p, "finish")

\* Finish stores what was cacheable, if it was relayed in full, did not
\* overflow the buffer and brought no cookie in a trailer.
Stores(q, p) ==
    /\ cacheable(q, p)
    /\ p.complete
    /\ ~overflow(p)
    /\ ~responseHasSetCookie(p, "finish")

\* The backend answers (p.complete is MarkComplete), or never does.
Proxy(r) ==
    /\ at[r] = "backend"
    /\ \/ \E p \in Responses :
             /\ Stores(kind[r], p)
             /\ stores < MaxStores /\ stores' = stores + 1
             /\ To(r, IF p.vary # {} THEN "pointer" ELSE "entry", p)
             /\ UNCHANGED kind
       \/ Done(r) /\ UNCHANGED stores
    /\ UNCHANGED <<redis, purging>>

\* setIndex: the pointer under the base key; the entry follows in any case.
SetPointer(r) ==
    /\ at[r] = "pointer" /\ To(r, "entry", got[r])
    /\ \/ entries' = [entries EXCEPT ![BaseKey] = Pointer(r)] /\ lost' = lost \ {BaseKey}
       \/ UNCHANGED <<entries, lost>>
    /\ UNCHANGED <<tag, kind, stores, purging>>

\* write: SET, and for a tag SADD and the grow-only expiry.  Each may fail.
SetEntry(r) ==
    /\ at[r] = "entry"
    /\ \/ /\ entries' = [entries EXCEPT ![StoreKey(r)] = Entry(r)]
          /\ lost' = lost \ {StoreKey(r)}
          /\ IF got[r].tagged THEN To(r, "tag", got[r]) /\ UNCHANGED kind ELSE Done(r)
       \/ Done(r) /\ UNCHANGED <<entries, lost>>
    /\ UNCHANGED <<tag, stores, purging>>

NoTTL == -1

AddTag(r) ==
    /\ at[r] = "tag"
    /\ \/ /\ tag' = [members |-> tag.members \cup {StoreKey(r)},
                     ttl |-> IF tag.members = {} THEN NoTTL ELSE tag.ttl]
          /\ To(r, "expire", got[r]) /\ UNCHANGED <<kind, lost>>
       \/ /\ lost' = lost \cup ({StoreKey(r)} \cap Live)
          /\ Done(r) /\ UNCHANGED tag
    /\ UNCHANGED <<entries, stores, purging>>

\* Mutant: the last entry decides.
ExpireOverwrites(ttl) == IF tag.members = {} THEN tag ELSE [tag EXCEPT !.ttl = ttl]

\* growOnlyExpireLua; on a set that is gone it does nothing.
GrowOnlyExpire(ttl) ==
    IF tag.members # {} /\ (tag.ttl = NoTTL \/ ttl > tag.ttl)
    THEN [tag EXCEPT !.ttl = ttl] ELSE tag

ExpireTag(r) ==
    /\ at[r] = "expire" /\ Done(r)
    /\ \/ /\ tag' = GrowOnlyExpire(TTL(got[r]))
          /\ lost' = IF StoreKey(r) \in tag.members THEN lost
                     ELSE lost \cup ({StoreKey(r)} \cap Live)
       \/ UNCHANGED tag /\ lost' = lost \cup ({StoreKey(r)} \cap Live)
    /\ UNCHANGED <<entries, stores, purging>>

(***************************************************************************)
(* The admin API, and time.                                                *)
(***************************************************************************)

\* PurgeResponseCacheURL: Delete of the base key.
PurgeURL ==
    /\ entries[BaseKey] # None
    /\ entries' = [entries EXCEPT ![BaseKey] = None]
    /\ lost' = lost \ {BaseKey}
    /\ UNCHANGED <<tag, request, purging>>

\* PurgeResponseCacheTags, DeleteByTag: SMEMBERS, DEL of the entries, and,
\* whether that succeeded or not, DEL of the set.
PurgeMembers ==
    /\ purge = "idle" /\ tag.members # {}
    /\ purge' = "entries" /\ members' = tag.members
    /\ UNCHANGED <<redis, request>>

PurgeEntries ==
    /\ purge = "entries" /\ purge' = "set" /\ members' = {}
    /\ \/ /\ entries' = [k \in Keys |-> IF k \in members THEN None ELSE entries[k]]
          /\ lost' = lost \ members
       \/ UNCHANGED <<entries, lost>>
    /\ UNCHANGED <<tag, request>>

\* What was indexed since SMEMBERS, or not deleted, is forgotten with the rest.
PurgeSet ==
    /\ purge = "set" /\ purge' = "idle"
    /\ \/ /\ tag' = [members |-> {}, ttl |-> 0]
          /\ lost' = lost \cup (tag.members \cap Live)
       \/ UNCHANGED <<tag, lost>>
    /\ UNCHANGED <<entries, request, members>>

\* Lifetimes run down together; what reaches 0 is gone (external).
Tick ==
    /\ entries' = [k \in Keys |->
                     IF entries[k] = None \/ entries[k].ttl = 1 THEN None
                     ELSE [entries[k] EXCEPT !.ttl = @ - 1]]
    /\ tag' = CASE tag.ttl > 1 -> [tag EXCEPT !.ttl = @ - 1]
                [] tag.ttl = 1 -> [members |-> {}, ttl |-> 0]
                [] OTHER -> tag
    /\ lost' = {k \in lost : entries[k] # None /\ entries[k].ttl > 1}
    /\ UNCHANGED <<request, purging>>

-----------------------------------------------------------------------------

Step(r) ==
    \/ GetBase(r) \/ GetVariant(r) \/ Hit(r) \/ Proxy(r)
    \/ SetPointer(r) \/ SetEntry(r) \/ AddTag(r) \/ ExpireTag(r)

Next ==
    \/ \E r \in Requests : Step(r)
    \/ PurgeURL \/ PurgeMembers \/ PurgeEntries \/ PurgeSet \/ Tick

Spec == Init /\ [][Next]_vars

-----------------------------------------------------------------------------

\* A hit is a response to a request with the same values of every header that
\* the response varies on, even when the pointer changes between the two reads
\* of serveCached, or the backend changes its mind about Vary.
HitMatches ==
    \A r \in Requests : at[r] = "hit" =>
        /\ ~got[r].pointer
        /\ \A h \in got[r].vary : kind[r].values[h] = got[r].for.values[h]

\* Nothing is stored that is a fragment or one client's own: no aborted or
\* oversized body, no cookie whether it came with the head or in a trailer, and
\* no answer to an authorized request that does not permit sharing.
StoredShareable ==
    \A k \in Live : ~entries[k].pointer =>
        LET p == entries[k].from IN
        /\ p.complete /\ ~p.big /\ p.cookie = "none" /\ ~p.restricted
        /\ entries[k].for.auth => p.public \/ p.sMaxAge # None

\* A tagged entry can be purged by its tag for as long as it lives: the set
\* holds its key and does not expire before it, although entries with other
\* lifetimes share the set.  The exceptions are an entry still being written,
\* and one whose tag write failed or met a purge or the end of the set.
TagOutlivesEntry ==
    \A k \in Live : ~entries[k].pointer /\ entries[k].from.tagged =>
        \/ k \in lost
        \/ \E r \in Requests : at[r] \in {"tag", "expire"} /\ StoreKey(r) = k
        \/ k \in tag.members /\ (tag.ttl = NoTTL \/ tag.ttl >= entries[k].ttl)
=============================================================================
