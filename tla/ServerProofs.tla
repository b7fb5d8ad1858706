---------------------------- MODULE ServerProofs ----------------------------
(***************************************************************************)
(* Proofs about what the server keeps besides the requests in it.          *)
(*                                                                         *)
(* ResponseCache, for any requests, headers, responses and lifetimes, and  *)
(* CacheHealth, for any callers.                                           *)
(*                                                                         *)
(* ConfigReload and CertReload, for any contents of the configuration      *)
(* file, any number of changes to it and any number of renewals.           *)
(***************************************************************************)
EXTENDS ResponseCache, CacheHealth, ConfigReload, CertReload, TLAPS

(***************************************************************************)
(* The health gauge.                                                       *)
(***************************************************************************)

\* One caller at a time is past the lock, and it has stored what it reports.
HealthInv ==
    /\ healthy \in BOOLEAN /\ gauge \in BOOLEAN
    /\ note \in [Callers -> [at : {"idle", "differs", "locked"}, value : BOOLEAN]]
    /\ \A c, d \in Callers : note[c].at = "locked" /\ note[d].at = "locked" => c = d
    /\ \A c \in Callers : note[c].at = "locked" => note[c].value = healthy
    /\ ~Locked => gauge = healthy

\* However the outcomes of commands interleave, the gauge shows what the store
\* holds (Store.setHealthy).
THEOREM GaugeFollowsHealth == HealthSpec => []GaugeInStep
<1>1. HealthInit => HealthInv
    <2> SUFFICES ASSUME HealthInit PROVE HealthInv
        OBVIOUS
    <2>1. healthy \in BOOLEAN /\ gauge \in BOOLEAN /\ gauge = healthy
        BY DEF HealthInit
    <2>2. /\ note \in [Callers -> [at : {"idle", "differs", "locked"}, value : BOOLEAN]]
          /\ \A c \in Callers : note[c].at = "idle"
        BY DEF HealthInit
    <2> QED
        BY <2>1, <2>2 DEF HealthInv
<1>2. HealthInv /\ [HealthNext]_healthVars => HealthInv'
    <2> SUFFICES ASSUME HealthInv, [HealthNext]_healthVars PROVE HealthInv'
        OBVIOUS
    <2> USE DEF HealthInv, Locked
    <2>1. ASSUME NEW c \in Callers, Note(c) PROVE HealthInv'
        BY <2>1 DEF Note
    <2>2. ASSUME NEW c \in Callers, Flip(c) PROVE HealthInv'
        BY <2>2 DEF Flip
    <2>3. ASSUME NEW c \in Callers, Report(c) PROVE HealthInv'
        BY <2>3 DEF Report
    <2>4. CASE UNCHANGED healthVars
        BY <2>4 DEF healthVars
    <2> QED
        BY <2>1, <2>2, <2>3, <2>4 DEF HealthNext
<1>3. HealthInv => GaugeInStep
    BY DEF HealthInv, GaugeInStep
<1> QED
    BY <1>1, <1>2, <1>3, PTL DEF HealthSpec

(***************************************************************************)
(* What is stored, and what is served.                                     *)
(***************************************************************************)

Writing == {"pointer", "entry", "tag", "expire"}

\* A pointer is under the base key only, and every other entry is under the key
\* of the request it answered.
EntryOK(k, e) ==
    /\ e.pointer \in BOOLEAN
    /\ e.ttl \in Nat \ {0}
    /\ e.vary \subseteq Headers
    /\ e.pointer => e.vary # {} /\ k = BaseKey
    /\ ~e.pointer =>
          /\ e.for \in Kinds /\ e.from \in Responses
          /\ Stores(e.for, e.from)
          /\ e.vary = e.from.vary /\ k = KeyFromRequest(e.for, e.vary)

RequestOK(r) ==
    /\ at[r] \in {"idle", "lookup", "hit", "backend"} \cup Writing
    /\ at[r] # "idle" => kind[r] \in Kinds
    /\ at[r] = "lookup" => got[r] \subseteq Headers /\ got[r] # {}
    /\ at[r] = "hit" =>
          /\ ~got[r].pointer
          /\ \A h \in got[r].vary : kind[r].values[h] = got[r].for.values[h]
    /\ at[r] \in Writing => got[r] \in Responses /\ Stores(kind[r], got[r])
    /\ at[r] = "pointer" => got[r].vary # {}

CacheInv ==
    /\ DOMAIN entries = Keys
    /\ DOMAIN at = Requests /\ DOMAIN kind = Requests /\ DOMAIN got = Requests
    /\ \A k \in Keys : entries[k] # None => EntryOK(k, entries[k])
    /\ \A r \in Requests : RequestOK(r)

\* A key made of more headers than none is not the base key, and the key tells
\* the headers and their values.
LEMMA KeysTell ==
    ASSUME NEW p \in Kinds, NEW q \in Kinds, NEW v \in SUBSET Headers, NEW w \in SUBSET Headers
    PROVE  /\ KeyFromRequest(p, v) \in Keys
           /\ BaseKey = KeyFromRequest(p, {})
           /\ v # {} => KeyFromRequest(p, v) # BaseKey
           /\ KeyFromRequest(p, v) = KeyFromRequest(q, w) =>
                v = w /\ \A h \in v : p.values[h] = q.values[h]
<1>1. DOMAIN KeyFromRequest(p, v) = v /\ DOMAIN KeyFromRequest(q, w) = w
    BY DEF KeyFromRequest
<1>2. \A h \in v : KeyFromRequest(p, v)[h] = p.values[h]
    BY DEF KeyFromRequest
<1>3. \A h \in w : KeyFromRequest(q, w)[h] = q.values[h]
    BY DEF KeyFromRequest
<1>4. DOMAIN BaseKey = {}
    BY DEF BaseKey
<1>5. KeyFromRequest(p, v) \in Keys
    BY DEF KeyFromRequest, Keys
<1>6. BaseKey = KeyFromRequest(p, {})
    BY DEF BaseKey, KeyFromRequest
<1> QED
    BY <1>1, <1>2, <1>3, <1>4, <1>5, <1>6

\* What a writer stores is as EntryOK says, under a key there is.
LEMMA WritersStore ==
    ASSUME NEW r \in Requests, CacheInv, at[r] \in Writing
    PROVE  /\ StoreKey(r) \in Keys
           /\ EntryOK(StoreKey(r), Entry(r))
           /\ TTL(got[r]) \in Nat \ {0}
           /\ got[r].vary \subseteq Headers
<1>1. got[r] \in Responses /\ kind[r] \in Kinds /\ Stores(kind[r], got[r])
    BY DEF CacheInv, RequestOK, Writing
<1>2. got[r].vary \subseteq Headers
    BY <1>1, CacheAssumption DEF Stores, cacheable
<1>3. TTL(got[r]) \in Nat \ {0}
    BY <1>1, CacheAssumption DEF Stores, cacheable, IsCacheable, TTL
<1>4. StoreKey(r) \in Keys
    BY <1>1, <1>2, KeysTell DEF StoreKey
<1> QED
    BY <1>1, <1>2, <1>3, <1>4 DEF EntryOK, Entry, StoreKey

\* CacheInv is inductive.
LEMMA CacheInductive == CacheInv /\ [Next]_vars => CacheInv'
<1> SUFFICES ASSUME CacheInv, [Next]_vars PROVE CacheInv'
    OBVIOUS
\* A request moves on, and the store is as it was.
<1>1. ASSUME NEW r \in Requests, UNCHANGED entries,
             DOMAIN at' = Requests, DOMAIN kind' = Requests, DOMAIN got' = Requests,
             \A q \in Requests \ {r} :
                at'[q] = at[q] /\ kind'[q] = kind[q] /\ got'[q] = got[q],
             RequestOK(r)'
      PROVE  CacheInv'
    BY <1>1 DEF CacheInv, RequestOK
\* The store changes at one key, and the request that changes it moves on.
<1>2. ASSUME NEW r \in Requests, NEW k \in Keys, NEW e, EntryOK(k, e),
             entries' = [entries EXCEPT ![k] = e],
             DOMAIN at' = Requests, DOMAIN kind' = Requests, DOMAIN got' = Requests,
             \A q \in Requests \ {r} :
                at'[q] = at[q] /\ kind'[q] = kind[q] /\ got'[q] = got[q],
             RequestOK(r)'
      PROVE  CacheInv'
    BY <1>2 DEF CacheInv, RequestOK, EntryOK
\* Entries go or age, and the requests stay.
<1>3. ASSUME UNCHANGED request, DOMAIN entries' = Keys,
             \A k \in Keys : entries'[k] # None =>
                /\ entries[k] # None
                /\ EntryOK(k, entries[k]) => EntryOK(k, entries'[k])
      PROVE  CacheInv'
    BY <1>3 DEF CacheInv, RequestOK, EntryOK, request
<1>4. ASSUME NEW r \in Requests, GetBase(r) PROVE CacheInv'
    <2>1. PICK q \in Kinds : kind' = [kind EXCEPT ![r] = q]
        BY <1>4 DEF GetBase
    <2>2. BaseKey \in Keys
        BY <2>1, KeysTell
    <2>3. RequestOK(r)'
        BY <1>4, <2>1, <2>2 DEF GetBase, To, RequestOK, CacheInv, EntryOK, Writing
    <2> QED
        BY <1>1, <1>4, <2>1, <2>3 DEF GetBase, To, redis, CacheInv
<1>5. ASSUME NEW r \in Requests, GetVariant(r) PROVE CacheInv'
    <2> DEFINE k == KeyFromRequest(kind[r], got[r])
    <2>1. kind[r] \in Kinds /\ got[r] \in SUBSET Headers /\ got[r] # {}
        BY <1>5 DEF GetVariant, CacheInv, RequestOK
    <2>2. k \in Keys /\ k # BaseKey
        BY <2>1, KeysTell
    <2>3. ASSUME entries[k] # None
          PROVE  /\ ~entries[k].pointer
                 /\ \A h \in entries[k].vary :
                       kind[r].values[h] = entries[k].for.values[h]
        <3>1. EntryOK(k, entries[k]) /\ ~entries[k].pointer
            BY <2>2, <2>3 DEF CacheInv, EntryOK
        <3>2. /\ entries[k].for \in Kinds /\ entries[k].vary \in SUBSET Headers
              /\ k = KeyFromRequest(entries[k].for, entries[k].vary)
            BY <3>1 DEF EntryOK
        <3>3. /\ got[r] = entries[k].vary
              /\ \A h \in got[r] : kind[r].values[h] = entries[k].for.values[h]
            BY <2>1, <3>2, KeysTell
        <3> QED
            BY <3>1, <3>3
    <2>4. RequestOK(r)'
        BY <1>5, <2>1, <2>3 DEF GetVariant, To, RequestOK, CacheInv, Writing
    <2> QED
        BY <1>1, <1>5, <2>4 DEF GetVariant, To, redis, CacheInv
<1>6. ASSUME NEW r \in Requests, Hit(r) PROVE CacheInv'
    <2>1. RequestOK(r)'
        BY <1>6 DEF Hit, Done, To, RequestOK, CacheInv, Writing
    <2> QED
        BY <1>1, <1>6, <2>1 DEF Hit, Done, To, redis, CacheInv
<1>7. ASSUME NEW r \in Requests, Proxy(r) PROVE CacheInv'
    <2>1. RequestOK(r)'
        BY <1>7 DEF Proxy, Done, To, RequestOK, CacheInv, Writing
    <2> QED
        BY <1>1, <1>7, <2>1 DEF Proxy, Done, To, redis, CacheInv
<1>8. ASSUME NEW r \in Requests, SetPointer(r) PROVE CacheInv'
    <2>1. at[r] \in Writing /\ kind[r] \in Kinds /\ got[r].vary # {}
        BY <1>8 DEF SetPointer, CacheInv, RequestOK, Writing
    <2>2. RequestOK(r)'
        BY <1>8 DEF SetPointer, To, RequestOK, CacheInv, Writing
    <2>3. BaseKey \in Keys
        BY <2>1, KeysTell
    <2>4. EntryOK(BaseKey, Pointer(r))
        BY <2>1, WritersStore DEF EntryOK, Pointer
    <2>5. CASE UNCHANGED entries
        BY <1>1, <1>8, <2>2, <2>5 DEF SetPointer, To, CacheInv
    <2>6. CASE entries' = [entries EXCEPT ![BaseKey] = Pointer(r)]
        BY <1>2, <1>8, <2>2, <2>3, <2>4, <2>6 DEF SetPointer, To, CacheInv
    <2> QED
        BY <1>8, <2>5, <2>6 DEF SetPointer
<1>9. ASSUME NEW r \in Requests, SetEntry(r) PROVE CacheInv'
    <2>1. at[r] \in Writing
        BY <1>9 DEF SetEntry, Writing
    <2>2. RequestOK(r)'
        BY <1>9 DEF SetEntry, Done, To, RequestOK, CacheInv, Writing
    <2>3. StoreKey(r) \in Keys /\ EntryOK(StoreKey(r), Entry(r))
        BY <2>1, WritersStore
    <2>4. CASE UNCHANGED entries
        BY <1>1, <1>9, <2>2, <2>4 DEF SetEntry, Done, To, CacheInv
    <2>5. CASE entries' = [entries EXCEPT ![StoreKey(r)] = Entry(r)]
        BY <1>2, <1>9, <2>2, <2>3, <2>5 DEF SetEntry, Done, To, CacheInv
    <2> QED
        BY <1>9, <2>4, <2>5 DEF SetEntry
<1>10. ASSUME NEW r \in Requests, AddTag(r) PROVE CacheInv'
    <2>1. RequestOK(r)'
        BY <1>10 DEF AddTag, Done, To, RequestOK, CacheInv, Writing
    <2> QED
        BY <1>1, <1>10, <2>1 DEF AddTag, Done, To, CacheInv
<1>11. ASSUME NEW r \in Requests, ExpireTag(r) PROVE CacheInv'
    <2>1. RequestOK(r)'
        BY <1>11 DEF ExpireTag, Done, To, RequestOK, CacheInv, Writing
    <2> QED
        BY <1>1, <1>11, <2>1 DEF ExpireTag, Done, To, CacheInv
<1>12. CASE PurgeURL
    BY <1>3, <1>12 DEF PurgeURL, CacheInv
<1>13. CASE PurgeEntries
    BY <1>3, <1>13 DEF PurgeEntries, CacheInv
<1>14. CASE Tick
    <2>1. ASSUME NEW k \in Keys, entries'[k] # None
          PROVE  /\ entries[k] # None /\ entries[k].ttl # 1
                 /\ entries'[k] = [entries[k] EXCEPT !.ttl = @ - 1]
        BY <1>14, <2>1 DEF Tick
    <2>2. ASSUME NEW k \in Keys, NEW e, EntryOK(k, e), e.ttl # 1
          PROVE  EntryOK(k, [e EXCEPT !.ttl = @ - 1])
        BY <2>2 DEF EntryOK
    <2> QED
        BY <1>3, <1>14, <2>1, <2>2 DEF Tick
<1>15. CASE UNCHANGED <<entries, request>>
    BY <1>3, <1>15 DEF CacheInv
<1> QED
    BY <1>4, <1>5, <1>6, <1>7, <1>8, <1>9, <1>10, <1>11, <1>12, <1>13, <1>14, <1>15
    DEF Next, Step, PurgeMembers, PurgeSet, redis, vars

\* CacheInv holds from the start.
LEMMA CacheInvariant == Spec => []CacheInv
<1>1. Init => CacheInv
    BY DEF Init, CacheInv, RequestOK, Writing
<1> QED
    BY <1>1, CacheInductive, PTL DEF Spec

\* A hit answers a request with the same values of every header the response
\* varies on (serveCached).
THEOREM HitsMatch == Spec => []HitMatches
<1>1. CacheInv => HitMatches
    BY DEF CacheInv, RequestOK, HitMatches
<1> QED
    BY <1>1, CacheInvariant, PTL

\* Nothing is stored that is a fragment or one client's own (IsCacheable,
\* CachingResponseWriter.Finish).
THEOREM OnlyShareableIsStored == Spec => []StoredShareable
<1>1. CacheInv => StoredShareable
    BY CacheAssumption
    DEF CacheInv, EntryOK, StoredShareable, Live, Stores, cacheable, overflow,
        IsCacheable, responseHasSetCookie
<1> QED
    BY <1>1, CacheInvariant, PTL

-----------------------------------------------------------------------------

(***************************************************************************)
(* TagOutlivesEntry.  A set that has no expiry yet is between SADD and     *)
(* EXPIRE, and the next EXPIRE may be another entry's, and shorter.  So    *)
(* membership alone does not cover an entry: until its own EXPIRE it is    *)
(* covered by the request that is about to send it.                        *)
(***************************************************************************)

Tagged(k) == entries[k] # None /\ ~entries[k].pointer /\ entries[k].from.tagged

Tagging(r, k) ==
    at[r] \in {"tag", "expire"} /\ StoreKey(r) = k /\ entries[k].ttl <= TTL(got[r])

Covered(k) ==
    \/ k \in lost
    \/ \E r \in Requests : Tagging(r, k)
    \/ k \in tag.members /\ tag.ttl >= entries[k].ttl

TagInv ==
    /\ tag \in [members : SUBSET Keys, ttl : Int]
    /\ tag.members # {} => tag.ttl = NoTTL \/ tag.ttl >= 1
    /\ \A k \in Keys : Tagged(k) => Covered(k)

\* TagInv is inductive relative to CacheInv.
LEMMA TagInductive == CacheInv /\ TagInv /\ [Next]_vars => TagInv'
<1> SUFFICES ASSUME CacheInv, TagInv, [Next]_vars PROVE TagInv'
    OBVIOUS
<1>0. \A k \in Keys : entries[k] # None => entries[k].ttl \in Int /\ entries[k].ttl >= 1
    BY DEF CacheInv, EntryOK
\* A request that is not indexing an entry moves, and Redis stays.
<1>1. ASSUME NEW r \in Requests, at[r] \notin {"tag", "expire"}, UNCHANGED redis,
             \A q \in Requests \ {r} :
                at'[q] = at[q] /\ kind'[q] = kind[q] /\ got'[q] = got[q]
      PROVE  TagInv'
    BY <1>1 DEF TagInv, redis, Tagged, Covered, Tagging, StoreKey, KeyFromRequest
<1>3. ASSUME NEW r \in Requests, GetBase(r) PROVE TagInv'
    BY <1>1, <1>3 DEF GetBase, To, CacheInv
<1>4. ASSUME NEW r \in Requests, GetVariant(r) PROVE TagInv'
    BY <1>1, <1>4 DEF GetVariant, To, CacheInv
<1>5. ASSUME NEW r \in Requests, Hit(r) PROVE TagInv'
    BY <1>1, <1>5 DEF Hit, Done, To, CacheInv
<1>6. ASSUME NEW r \in Requests, Proxy(r) PROVE TagInv'
    BY <1>1, <1>6 DEF Proxy, Done, To, CacheInv
<1>7. ASSUME NEW r \in Requests, SetPointer(r) PROVE TagInv'
    <2>1. CASE UNCHANGED <<entries, lost>>
        BY <1>1, <1>7, <2>1 DEF SetPointer, To, CacheInv, redis
    <2>2. CASE entries' = [entries EXCEPT ![BaseKey] = Pointer(r)] /\ lost' = lost \ {BaseKey}
        <3>1. ASSUME NEW k \in Keys, Tagged(k)'
              PROVE  k # BaseKey /\ Tagged(k) /\ entries'[k] = entries[k]
            BY <2>2, <3>1 DEF Tagged, Pointer, CacheInv
        <3>2. ASSUME NEW k \in Keys, NEW q \in Requests, k # BaseKey, Tagging(q, k)
              PROVE  Tagging(q, k)'
            BY <1>7, <2>2, <3>2
            DEF SetPointer, To, Tagging, StoreKey, KeyFromRequest, CacheInv
        <3> QED
            BY <1>7, <2>2, <3>1, <3>2 DEF SetPointer, TagInv, Covered
    <2> QED
        BY <1>7, <2>1, <2>2 DEF SetPointer
<1>8. ASSUME NEW r \in Requests, SetEntry(r) PROVE TagInv'
    <2>1. CASE UNCHANGED <<entries, lost>>
        BY <1>1, <1>8, <2>1 DEF SetEntry, Done, To, CacheInv, redis
    <2>2. CASE /\ entries' = [entries EXCEPT ![StoreKey(r)] = Entry(r)]
               /\ lost' = lost \ {StoreKey(r)}
               /\ IF got[r].tagged THEN To(r, "tag", got[r]) /\ UNCHANGED kind ELSE Done(r)
        <3>1. at[r] \in Writing
            BY <1>8 DEF SetEntry, Writing
        <3>2. PICK s \in Keys : s = StoreKey(r) /\ EntryOK(s, Entry(r))
            BY <3>1, WritersStore
        <3>3. ASSUME NEW k \in Keys, k # s, Tagged(k)'
              PROVE  Tagged(k) /\ entries'[k] = entries[k]
            BY <2>2, <3>2, <3>3 DEF Tagged, CacheInv
        <3>4. ASSUME NEW k \in Keys, NEW q \in Requests, k # s, Tagging(q, k)
              PROVE  Tagging(q, k)'
            BY <1>8, <2>2, <3>2, <3>4
            DEF SetEntry, Done, To, Tagging, StoreKey, KeyFromRequest, CacheInv
        <3>5. ASSUME NEW k \in Keys, k # s, Tagged(k)'
              PROVE  Covered(k)'
            BY <1>8, <2>2, <3>2, <3>3, <3>4, <3>5 DEF SetEntry, TagInv, Covered
        <3>6. ASSUME Tagged(s)'
              PROVE  Covered(s)'
            <4>1. entries'[s] = Entry(r)
                BY <2>2, <3>2 DEF CacheInv
            <4>2. got[r].tagged
                BY <3>6, <4>1 DEF Tagged, Entry
            <4>3. /\ at'[r] = "tag" /\ got'[r] = got[r] /\ kind'[r] = kind[r]
                BY <2>2, <4>2 DEF To, CacheInv
            <4>4. StoreKey(r)' = s /\ TTL(got[r])' = TTL(got[r])
                BY <3>2, <4>3 DEF StoreKey, KeyFromRequest, TTL
            <4>5. entries'[s].ttl <= TTL(got[r])'
                <5>1. Entry(r).ttl = TTL(got[r])
                    BY DEF Entry
                <5>2. TTL(got[r]) \in Nat \ {0}
                    BY <3>1, WritersStore, Zenon
                <5> QED
                    BY <4>1, <4>4, <5>1, <5>2
            <4> QED
                BY <4>3, <4>4, <4>5 DEF Covered, Tagging
        <3> QED
            BY <1>8, <3>5, <3>6 DEF SetEntry, TagInv
    <2> QED
        BY <1>8, <2>1, <2>2 DEF SetEntry
<1>9. ASSUME NEW r \in Requests, AddTag(r) PROVE TagInv'
    <2>1. at[r] \in Writing
        BY <1>9 DEF AddTag, Writing
    <2>2. PICK s \in Keys : s = StoreKey(r)
        BY <2>1, WritersStore
    <2>3. ASSUME NEW k \in Keys, NEW q \in Requests \ {r}, Tagging(q, k)
          PROVE  Tagging(q, k)'
        BY <1>9, <2>3 DEF AddTag, Done, To, Tagging, StoreKey, KeyFromRequest, CacheInv
    <2>4. \A k \in Keys : Tagging(r, k) => k = s
        BY <2>2 DEF Tagging
    <2>5. CASE /\ tag' = [members |-> tag.members \cup {s},
                          ttl |-> IF tag.members = {} THEN NoTTL ELSE tag.ttl]
               /\ To(r, "expire", got[r]) /\ UNCHANGED <<kind, lost>>
        <3>1. ASSUME NEW k \in Keys, Tagging(r, k) PROVE Tagging(r, k)'
            BY <1>9, <2>5, <3>1 DEF AddTag, To, Tagging, StoreKey, KeyFromRequest, CacheInv
        <3>2. ASSUME NEW k \in Keys, Tagged(k)' PROVE Tagged(k) /\ Covered(k)
            BY <1>9, <3>2 DEF AddTag, Tagged, TagInv
        <3>3. ASSUME NEW k \in Keys, Tagged(k)' PROVE Covered(k)'
            BY <1>9, <2>3, <2>5, <3>1, <3>2, <3>3 DEF AddTag, Covered
        <3>4. /\ tag' \in [members : SUBSET Keys, ttl : Int]
              /\ tag'.ttl = NoTTL \/ tag'.ttl >= 1
            BY <2>5 DEF TagInv, NoTTL
        <3> QED
            BY <3>3, <3>4 DEF TagInv
    <2>6. CASE lost' = lost \cup ({s} \cap Live) /\ UNCHANGED tag
        <3>1. ASSUME NEW k \in Keys, Tagged(k)' PROVE Covered(k) /\ k \in Live
            BY <1>9, <3>1 DEF AddTag, Tagged, TagInv, Live
        <3>2. ASSUME NEW k \in Keys, Tagged(k)' PROVE Covered(k)'
            BY <1>9, <2>3, <2>4, <2>6, <3>1, <3>2 DEF AddTag, Covered
        <3> QED
            BY <2>6, <3>2 DEF TagInv
    <2> QED
        BY <1>9, <2>2, <2>5, <2>6 DEF AddTag
<1>10. ASSUME NEW r \in Requests, ExpireTag(r) PROVE TagInv'
    <2>1. at[r] \in Writing
        BY <1>10 DEF ExpireTag, Writing
    <2>2. PICK s \in Keys : s = StoreKey(r)
        BY <2>1, WritersStore
    <2>3. ASSUME NEW k \in Keys, NEW q \in Requests \ {r}, Tagging(q, k)
          PROVE  Tagging(q, k)'
        BY <1>10, <2>3 DEF ExpireTag, Done, To, Tagging, StoreKey, KeyFromRequest, CacheInv
    <2>4. \A k \in Keys : Tagging(r, k) => k = s /\ entries[k].ttl <= TTL(got[r])
        BY <2>2 DEF Tagging
    <2>5. ASSUME NEW k \in Keys, Tagged(k)'
          PROVE  Covered(k) /\ k \in Live /\ entries[k].ttl \in Int /\ entries[k].ttl >= 1
        BY <1>0, <1>10, <2>5 DEF ExpireTag, Tagged, TagInv, Live
    <2>6. TTL(got[r]) \in Nat \ {0}
        BY <2>1, WritersStore
    <2>7. CASE /\ tag' = GrowOnlyExpire(TTL(got[r]))
               /\ lost' = IF s \in tag.members THEN lost ELSE lost \cup ({s} \cap Live)
        <3>1. /\ tag' \in [members : SUBSET Keys, ttl : Int] /\ tag'.members = tag.members
              /\ tag.members # {} =>
                    tag'.ttl >= TTL(got[r]) /\ tag'.ttl >= tag.ttl /\ tag'.ttl >= 1
            BY <2>6, <2>7 DEF GrowOnlyExpire, TagInv, NoTTL
        <3>2. tag.ttl \in Int
            BY DEF TagInv
        <3>3. ASSUME NEW k \in Keys, Tagged(k)' PROVE Covered(k)'
            <4>1. UNCHANGED entries
                BY <1>10 DEF ExpireTag
            <4>2. CASE k \in lost
                BY <2>7, <4>2 DEF Covered
            <4>3. CASE Tagging(r, k)
                <5>1. k = s /\ entries[k].ttl <= TTL(got[r]) /\ k \in Live /\ entries[k].ttl \in Int
                    BY <2>4, <2>5, <3>3, <4>3
                <5>2. CASE s \in tag.members
                    BY <2>6, <3>1, <4>1, <5>1, <5>2 DEF Covered
                <5>3. CASE s \notin tag.members
                    BY <2>7, <5>1, <5>3 DEF Covered
                <5> QED
                    BY <5>2, <5>3
            <4>4. CASE \E q \in Requests \ {r} : Tagging(q, k)
                BY <2>3, <4>4 DEF Covered
            <4>5. CASE k \in tag.members /\ tag.ttl >= entries[k].ttl
                BY <2>5, <3>1, <3>2, <3>3, <4>1, <4>5 DEF Covered
            <4> QED
                BY <2>5, <3>3, <4>2, <4>3, <4>4, <4>5 DEF Covered
        <3> QED
            BY <3>1, <3>3 DEF TagInv
    <2>8. CASE UNCHANGED tag /\ lost' = lost \cup ({s} \cap Live)
        <3>1. ASSUME NEW k \in Keys, Tagged(k)' PROVE Covered(k)'
            BY <1>10, <2>3, <2>4, <2>5, <2>8, <3>1 DEF ExpireTag, Covered
        <3> QED
            BY <2>8, <3>1 DEF TagInv
    <2> QED
        BY <1>10, <2>2, <2>7, <2>8 DEF ExpireTag
<1>11. CASE PurgeURL
    <2>1. entries' = [k \in Keys |-> IF k \in {BaseKey} \cap Keys THEN None ELSE entries[k]]
        BY <1>11 DEF PurgeURL, CacheInv
    <2>2. \A k \in Keys : k \in lost' <=> k \in lost \ {BaseKey}
        BY <1>11 DEF PurgeURL
    <2> QED
        BY <1>11, <2>1, <2>2
        DEF PurgeURL, TagInv, Tagged, Covered, Tagging, StoreKey, KeyFromRequest, request
<1>12. CASE PurgeEntries
    <2>1. CASE UNCHANGED <<entries, lost>>
        BY <1>12, <2>1
        DEF PurgeEntries, TagInv, Tagged, Covered, Tagging, StoreKey, KeyFromRequest, request
    <2>2. CASE /\ entries' = [k \in Keys |-> IF k \in members THEN None ELSE entries[k]]
               /\ lost' = lost \ members
        BY <1>12, <2>2
        DEF PurgeEntries, TagInv, Tagged, Covered, Tagging, StoreKey, KeyFromRequest, request
    <2> QED
        BY <1>12, <2>1, <2>2 DEF PurgeEntries
<1>13. CASE PurgeSet
    <2>1. UNCHANGED <<entries, request>>
        BY <1>13 DEF PurgeSet
    <2>2. CASE UNCHANGED <<tag, lost>>
        BY <2>1, <2>2 DEF TagInv, Tagged, Covered, Tagging, StoreKey, KeyFromRequest, request
    <2>3. CASE /\ tag' = [members |-> {}, ttl |-> 0]
               /\ lost' = lost \cup (tag.members \cap Live)
        <3>1. ASSUME NEW k \in Keys, Tagged(k)' PROVE Covered(k)'
            BY <2>1, <2>3, <3>1
            DEF TagInv, Tagged, Covered, Tagging, StoreKey, KeyFromRequest, request, Live
        <3> QED
            <4>1. /\ tag' \in [members : SUBSET Keys, ttl : Int] /\ tag'.members = {}
                BY <2>3
            <4> QED
                BY <3>1, <4>1 DEF TagInv
    <2> QED
        BY <1>13, <2>2, <2>3 DEF PurgeSet
<1>14. CASE Tick
    <2>1. ASSUME NEW k \in Keys, entries'[k] # None
          PROVE  /\ entries[k] # None /\ entries[k].ttl > 1
                 /\ entries'[k] = [entries[k] EXCEPT !.ttl = @ - 1]
        BY <1>0, <1>14, <2>1 DEF Tick
    <2>2. ASSUME NEW k \in Keys, Tagged(k)' PROVE Covered(k)'
        <3>1. /\ Tagged(k) /\ entries[k].ttl > 1 /\ entries[k].ttl \in Int
              /\ entries'[k].ttl = entries[k].ttl - 1
            <4>1. entries'[k] # None /\ ~entries'[k].pointer /\ entries'[k].from.tagged
                BY <2>2 DEF Tagged
            <4>2. /\ entries[k] # None /\ entries[k].ttl > 1
                  /\ entries'[k] = [entries[k] EXCEPT !.ttl = @ - 1]
                BY <2>1, <4>1
            <4>3. EntryOK(k, entries[k])
                BY <4>2 DEF CacheInv
            <4>4. /\ entries'[k].pointer = entries[k].pointer
                  /\ entries'[k].from = entries[k].from
                  /\ entries'[k].ttl = entries[k].ttl - 1
                BY <4>2, <4>3 DEF EntryOK
            <4> QED
                BY <1>0, <4>1, <4>2, <4>4 DEF Tagged
        <3>2. CASE k \in lost
            BY <1>14, <3>1, <3>2 DEF Tick, Tagged, Covered
        <3>3. ASSUME NEW r \in Requests, Tagging(r, k) PROVE Covered(k)'
            <4>1. TTL(got[r]) \in Nat
                BY <3>3, WritersStore DEF Tagging, Writing
            <4> QED
                BY <1>14, <3>1, <3>3, <4>1
                DEF Tick, Covered, Tagging, request, StoreKey, KeyFromRequest
        <3>4. CASE k \in tag.members /\ tag.ttl >= entries[k].ttl
            <4>1. tag.ttl > 1 /\ tag.ttl \in Int
                BY <3>1, <3>4 DEF TagInv
            <4>2. tag' = [tag EXCEPT !.ttl = @ - 1]
                BY <1>14, <4>1 DEF Tick
            <4> QED
                BY <3>1, <3>4, <4>1, <4>2 DEF Covered, TagInv
        <3> QED
            BY <3>1, <3>2, <3>3, <3>4 DEF TagInv, Covered
    <2>3. /\ tag' \in [members : SUBSET Keys, ttl : Int]
          /\ tag'.members # {} => tag'.ttl = NoTTL \/ tag'.ttl >= 1
        BY <1>14 DEF Tick, TagInv, NoTTL
    <2> QED
        BY <2>2, <2>3 DEF TagInv
<1>15. CASE UNCHANGED <<redis, request>>
    BY <1>15 DEF TagInv, Tagged, Covered, Tagging, StoreKey, KeyFromRequest, redis, request
<1> QED
    BY <1>3, <1>4, <1>5, <1>6, <1>7, <1>8, <1>9, <1>10, <1>11, <1>12, <1>13, <1>14, <1>15
    DEF Next, Step, PurgeMembers, vars

\* A tagged entry can be purged by its tag for as long as it lives, but for the
\* writes that are under way or were lost (Store.write, growOnlyExpireLua).
THEOREM TagsOutliveEntries == Spec => []TagOutlivesEntry
<1>1. Init => TagInv
    BY DEF Init, TagInv, Tagged
<1>2. CacheInv /\ TagInv => TagOutlivesEntry
    <2> SUFFICES ASSUME CacheInv, TagInv, NEW k \in Live, ~entries[k].pointer,
                        entries[k].from.tagged
                 PROVE  \/ k \in lost
                        \/ \E r \in Requests : at[r] \in {"tag", "expire"} /\ StoreKey(r) = k
                        \/ k \in tag.members /\ (tag.ttl = NoTTL \/ tag.ttl >= entries[k].ttl)
        BY DEF TagOutlivesEntry
    <2> QED
        BY DEF TagInv, Tagged, Covered, Tagging, Live
<1> QED
    BY <1>1, <1>2, CacheInvariant, TagInductive, PTL DEF Spec

(***************************************************************************)
(* The configuration.                                                      *)
(***************************************************************************)

\* A change that neither the hash nor a history variable remembers.
Pending == events \/ timer \/ link # lastTarget

Parts == {"keys", "fallback", "limits", "external", "auth", "backend"}

ConfigTypes ==
    /\ volume \in BOOLEAN /\ link \in Nat /\ lastTarget \in Nat /\ writes \in Nat
    /\ events \in BOOLEAN /\ timer \in BOOLEAN /\ missed \in BOOLEAN
    /\ watch \in {"select", "hash", "link", "load", "apply"}
    /\ via \in {"poll", "debounce"}
    /\ DOMAIN running = Parts

\* The link is never ahead of itself, and, until a debounced snapshot is taken,
\* what was loaded is in the file or the change is on its way; from the
\* snapshot's hash on, the hash is of what was loaded, or the change was missed.
NoticeInv ==
    /\ lastTarget <= link
    /\ watch = "apply" => loaded = file \/ Pending
    /\ watch = "hash" /\ via = "debounce" => loaded = file \/ Pending
    /\ watch = "select" /\ via = "poll" => loaded = file \/ Pending
    /\ watch \in {"select", "link"} /\ via = "debounce" => lastHash = loaded \/ missed

\* NoticeInv is inductive.
LEMMA NoticeInductive ==
    ConfigTypes /\ NoticeInv /\ [ConfigNext]_configVars => ConfigTypes' /\ NoticeInv'
<1> SUFFICES ASSUME ConfigTypes, NoticeInv, [ConfigNext]_configVars
             PROVE  ConfigTypes' /\ NoticeInv'
    OBVIOUS
<1> USE DEF ConfigTypes, NoticeInv, Pending
<1>1. CASE Write
    <2>1. /\ ConfigTypes'
          /\ lastTarget' <= link' /\ Pending'
        <3>1. events' \in BOOLEAN
            BY <1>1 DEF Write
        <3>2. writes' = writes + 1 /\ lastTarget' = lastTarget
            BY <1>1 DEF Write, poll
        <3>3. link' = link + 1 \/ (link' = link /\ events')
            BY <1>1 DEF Write
        <3>4. writes' \in Nat /\ link' \in Nat /\ lastTarget' \in Nat
            BY <3>2, <3>3
        <3>5. lastTarget' <= link' /\ Pending'
            BY <3>2, <3>3
        <3> QED
            BY <1>1, <3>1, <3>4, <3>5 DEF Write, applied
    <2>2. UNCHANGED <<watch, via, lastHash, loaded, missed>>
        BY <1>1 DEF Write, poll
    <2> QED
        BY <2>1, <2>2
<1>2. CASE handleFSEvent
    BY <1>2 DEF handleFSEvent, poll, applied, disk
<1>3. CASE Debounced
    BY <1>3 DEF Debounced, poll, applied, disk
<1>4. CASE Poll
    BY <1>4 DEF Poll, applied, disk
<1>5. CASE SnapshotHash
    BY <1>5 DEF SnapshotHash, applied, disk
<1>6. CASE SnapshotLink
    BY <1>6 DEF SnapshotLink, applied, disk
<1>7. CASE Load
    BY <1>7 DEF Load, AfterReload, poll, applied, disk
<1>8. CASE Reload
    <2>1. ConfigTypes'
        BY <1>8 DEF Reload, poll, disk, applied, AfterReload
    <2>2. NoticeInv'
        BY <1>8 DEF Reload, AfterReload, poll, disk
    <2> QED
        BY <2>1, <2>2
<1>9. CASE UNCHANGED configVars
    BY <1>9 DEF configVars, poll, applied, disk
<1> QED
    BY <1>1, <1>2, <1>3, <1>4, <1>5, <1>6, <1>7, <1>8, <1>9 DEF ConfigNext

\* Both hold in the initial state.
LEMMA NoticeInitial == ConfigInit => ConfigTypes /\ NoticeInv
<1> SUFFICES ASSUME ConfigInit PROVE ConfigTypes /\ NoticeInv
    OBVIOUS
<1>1. DOMAIN running = Parts
    BY DEF ConfigInit, Parts
<1> QED
    <2>1. link \in Nat /\ lastTarget \in Nat /\ writes \in Nat /\ lastTarget <= link
        BY DEF ConfigInit
    <2>2. /\ volume \in BOOLEAN /\ events \in BOOLEAN
          /\ timer \in BOOLEAN /\ missed \in BOOLEAN
        BY DEF ConfigInit
    <2>3. watch = "select" /\ via = "poll" /\ loaded = file
        BY DEF ConfigInit
    <2> QED
        BY <1>1, <2>1, <2>2, <2>3 DEF ConfigTypes, NoticeInv

\* No change of the file is lost between fsnotify and polling (Watcher.Start).
THEOREM ChangesAreNoticed == ConfigSpec => []ReloadNoticed
<1>1. ConfigTypes /\ NoticeInv => ReloadNoticed
    BY DEF ConfigTypes, NoticeInv, Pending, ReloadNoticed, changed
<1> QED
    BY <1>1, NoticeInitial, NoticeInductive, PTL DEF ConfigSpec

\* No sequence of reloads brings in a field that needs a restart
\* (Watcher.reload).
THEOREM RestartFieldsStay == ConfigSpec => []RestartFieldsFixed
<1>1. ConfigInit => RestartFieldsFixed
    BY DEF ConfigInit, RestartFieldsFixed
<1>2. RestartFieldsFixed /\ [ConfigNext]_configVars => RestartFieldsFixed'
    <2> SUFFICES ASSUME RestartFieldsFixed, [ConfigNext]_configVars
                 PROVE  RestartFieldsFixed'
        OBVIOUS
    <2> USE DEF RestartFieldsFixed
    <2>1. CASE Load
        BY <2>1 DEF Load, RequiresRestart, applied
    <2>2. CASE Reload
        BY <2>2 DEF Reload, applied
    <2>3. CASE UNCHANGED <<serverCfg, lastConfig>>
        BY <2>3
    <2> QED
        BY <2>1, <2>2, <2>3
        DEF ConfigNext, configVars, applied, Write, handleFSEvent, Debounced, Poll,
            SnapshotHash, SnapshotLink
<1> QED
    BY <1>1, <1>2, PTL DEF ConfigSpec

\* Every part in force is the configured one, or known to have failed
\* (Server.Reload, Chain.Reload).
THEOREM ConfigurationInForce == ConfigSpec => []InForce
<1>1. ConfigInit => InForce
    BY DEF ConfigInit, InForce
<1>2. ConfigTypes /\ InForce /\ [ConfigNext]_configVars => InForce'
    <2> SUFFICES ASSUME ConfigTypes, InForce, [ConfigNext]_configVars
                 PROVE  InForce'
        OBVIOUS
    <2>1. CASE Reload
        <3> DEFINE new == lastConfig
        <3>1. CASE UNCHANGED applied
            BY <3>1 DEF InForce, applied
        <3>2. CASE /\ running' = [running EXCEPT !.keys = new.keys]
                   /\ stuck' = stuck \cup {"keys"}
                   /\ UNCHANGED serverCfg
            BY <3>2 DEF InForce, ConfigTypes, Parts
        <3>3. ASSUME NEW failed \in SUBSET Rebuilt(serverCfg, new),
                     LET built == Rebuilt(serverCfg, new) \ failed IN
                     /\ running' = [p \in DOMAIN running |->
                                      IF \/ p \in {"keys", "limits"} \cup built
                                         \/ p = "fallback" /\ new.external # Absent
                                      THEN new[p] ELSE running[p]]
                     /\ stuck' = ((stuck \ {"keys"}) \ built) \cup failed \cup SwitchedOff(new),
                     serverCfg' = new
              PROVE  InForce'
            <4>1. running'.limits = serverCfg'.limits /\ running'.keys = serverCfg'.keys
                BY <3>3 DEF ConfigTypes, Parts
            <4>2. running'.auth = serverCfg'.auth \/ "auth" \in stuck'
                BY <3>3 DEF ConfigTypes, Parts, InForce, Rebuilt, SwitchedOff, authChanged
            <4>3. running'.external = serverCfg'.external \/ "external" \in stuck'
                BY <3>3 DEF ConfigTypes, Parts, InForce, Rebuilt, SwitchedOff
            <4>4. running'.backend = serverCfg'.backend \/ "backend" \in stuck'
                BY <3>3 DEF ConfigTypes, Parts, InForce, Rebuilt, SwitchedOff, backendChanged
            <4> QED
                BY <4>1, <4>2, <4>3, <4>4 DEF InForce
        <3> QED
            BY <2>1, <3>1, <3>2, <3>3 DEF Reload
    <2>2. CASE UNCHANGED applied
        BY <2>2 DEF InForce, applied
    <2> QED
        BY <2>1, <2>2
        DEF ConfigNext, configVars, Write, handleFSEvent, Debounced, Poll,
            SnapshotHash, SnapshotLink, Load
<1> QED
    BY <1>1, <1>2, NoticeInitial, NoticeInductive, PTL DEF ConfigSpec

(***************************************************************************)
(* The certificate.                                                        *)
(***************************************************************************)

CertTypes ==
    /\ secret \in BOOLEAN /\ cert \in Nat /\ key \in Nat /\ target \in Nat
    /\ lastCert \in Nat /\ lastKey \in Nat /\ lastLink \in Nat
    /\ inUse \in Nat /\ overwritten \in BOOLEAN
    /\ pos \in [Loaders -> {"idle", "hashCert", "hashKey", "load", "loadKey", "store"}]
    /\ DOMAIN read = Loaders
    /\ \A w \in Loaders : pos[w] \in {"loadKey", "store"} => read[w] \in Nat

\* Versions only grow, so nobody has seen a version that is not there yet.
Monotone ==
    /\ key <= cert /\ (secret => key = cert)
    /\ lastCert <= cert /\ lastKey <= key /\ lastLink <= target
    /\ inUse <= cert
    /\ \A w \in Loaders : pos[w] \in {"loadKey", "store"} => read[w] <= cert

\* The files hold a pair that the watcher has hashed.
Settled == cert = key /\ lastCert = cert /\ lastKey = key

\* The watcher hashes before it loads, so the pair it loads is not older; and
\* once an older pair was stored over it, the next one read is that pair.
FreshInv ==
    Settled =>
        /\ pos["certs"] \in {"loadKey", "store"} => read["certs"] = cert
        /\ pos["certs"] = "idle" =>
              \/ inUse = cert
              \/ /\ overwritten
                 /\ pos["config"] \in {"loadKey", "store"} => read["config"] = cert

CertInv == CertTypes /\ Monotone /\ FreshInv

\* CertInv is inductive.
LEMMA CertInductive == CertInv /\ [CertNext]_certVars => CertInv'
<1> SUFFICES ASSUME CertInv, [CertNext]_certVars PROVE CertInv'
    OBVIOUS
<1> USE DEF CertInv, CertTypes, Monotone, FreshInv, Settled, Loaders
<1>1. CASE Swap
    BY <1>1 DEF Swap, seen
<1>2. CASE WriteCert
    BY <1>2 DEF WriteCert, seen
<1>3. CASE WriteKey
    BY <1>3 DEF WriteKey, seen
<1>4. CASE PollCert
    BY <1>4 DEF PollCert, secretFiles
<1>5. CASE HashCert
    BY <1>5 DEF HashCert, secretFiles
<1>6. CASE HashKey
    BY <1>6 DEF HashKey, secretFiles
<1>7. CASE ReloadConfig
    BY <1>7 DEF ReloadConfig, secretFiles, seen
<1>8. ASSUME NEW w \in Loaders, LoadCert(w) PROVE CertInv'
    BY <1>8 DEF LoadCert, secretFiles, seen
<1>9. ASSUME NEW w \in Loaders, LoadKey(w) PROVE CertInv'
    BY <1>9 DEF LoadKey, secretFiles, seen
<1>10. ASSUME NEW w \in Loaders, StorePair(w) PROVE CertInv'
    <2> USE <1>10 DEF StorePair, secretFiles, seen
    <2>1. overwritten' \in BOOLEAN /\ read[w] \in Nat
        OBVIOUS
    <2>2. CertTypes' /\ Monotone'
        BY <2>1
    <2>3. CASE w = "certs"
        BY <2>2, <2>3
    <2>4. CASE w = "config"
        <3>1. pos'["certs"] = pos["certs"] /\ read'["certs"] = read["certs"]
            BY <2>4
        <3>2. CASE read[w] < inUse
            BY <2>2, <2>4, <3>1, <3>2
        <3>3. CASE ~(read[w] < inUse)
            <4>1. inUse <= read[w] /\ read[w] <= cert
                BY <2>1, <3>3
            <4>2. inUse' = read[w] /\ UNCHANGED <<cert, key, lastCert, lastKey>>
                OBVIOUS
            <4>3. Settled' /\ pos'["certs"] = "idle" => inUse' = cert'
                BY <2>1, <2>4, <3>1, <4>1, <4>2
            <4> QED
                BY <2>2, <3>1, <4>2, <4>3
        <3> QED
            BY <3>2, <3>3
    <2> QED
        BY <2>3, <2>4
<1>11. CASE UNCHANGED certVars
    BY <1>11 DEF certVars, secretFiles, seen
<1> QED
    BY <1>1, <1>2, <1>3, <1>4, <1>5, <1>6, <1>7, <1>8, <1>9, <1>10, <1>11 DEF CertNext

\* A renewed certificate is in use or will be noticed, however the renewal
\* interleaves with the watcher and with a reload of the configuration, but for
\* an older pair stored over it (CertWatcher.Start, certHolder.Reload).
THEOREM CertificateFresh == CertSpec => []CertFresh
<1>1. CertInit => CertInv
    <2> SUFFICES ASSUME CertInit PROVE CertInv
        OBVIOUS
    <2>1. overwritten \in BOOLEAN /\ secret \in BOOLEAN
        BY DEF CertInit
    <2>2. CertTypes
        BY <2>1 DEF CertInit, CertTypes, Loaders
    <2>3. Monotone /\ FreshInv
        BY DEF CertInit, Monotone, FreshInv, Loaders
    <2> QED
        BY <2>2, <2>3 DEF CertInv
<1>2. CertInv => CertFresh
    BY DEF CertInv, CertTypes, FreshInv, Settled, CertFresh, Changed, Loaders
<1> QED
    BY <1>1, <1>2, CertInductive, PTL DEF CertSpec
=============================================================================
