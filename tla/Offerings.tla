----------------------------- MODULE Offerings -----------------------------
(***************************************************************************)
(* How capacity errors reach the scheduler: the cache of unavailable       *)
(* offerings (pkg/cache/unavailableofferings.go), the offerings computed   *)
(* from it (pkg/providers/instancetype/offering/offering.go) and the       *)
(* region availability that UpdateInstanceTypeOfferings refreshes          *)
(* (pkg/providers/instancetype/instancetype.go), for one instance type in  *)
(* the cluster's one region.                                               *)
(*                                                                         *)
(* One action is one access to a shared cache, map or counter.  Readers    *)
(* are calls of GetInstanceTypes, which run concurrently under a read      *)
(* lock; Markers are failed launches.  A mark has a scope: the plan alone  *)
(* (MarkUnavailable) or the whole region (MarkRegionUnavailable).          *)
(*                                                                         *)
(* Left out: prices, and Delete and Flush of the unavailable offerings,    *)
(* which only tests call.                                                  *)
(***************************************************************************)
EXTENDS Naturals

CONSTANTS
    Readers,    \* concurrent GetInstanceTypes calls
    Markers,    \* concurrent launches that fail for lack of capacity
    MaxSeq,     \* bound on the sequence number, that is on marks made
    None

Scopes == {"plan", "region"}

ASSUME OfferingsAssumption ==
    /\ Readers \cap Markers = {}
    /\ MaxSeq \in Nat
    /\ None \notin Nat \cup BOOLEAN \cup Scopes

VARIABLES
    (* UnavailableOfferings *)
    entry,     \* "live", "expired" (past its TTL, not swept yet) or "none"
    seq,       \* the sum of offeringCacheSeqNum and regionCacheSeqNum
    evicting,  \* scopes the janitor removed whose OnEvicted has not run yet
    (* the offering provider *)
    cached,    \* the cached offering's Available, None when not cached
    lastSeq,   \* lastUnavailableOfferingsSeqNum, None when never stored
    (* the instance type provider *)
    offered,   \* region availability reports the plan as available
    (* the calls *)
    pc,
    marking,   \* Marker: the scope it marks
    lastSeen,  \* Reader: the sequence number stored with the cached offering
    seqSeen,   \* Reader: the sequence number of the unavailable offerings
    avail,     \* Reader: the availability it computes or returns
    (* what was true during the whole of a call, for the properties *)
    iced,      \* scopes marked, by a call that returned, when it began and since
    clear,     \* no mark existed when it began, and none was made since
    raced      \* two calls overlapped since the offering was last dropped

cacheVars  == <<entry, seq, evicting>>
offerVars  == <<cached, lastSeq, offered>>
readVars   == <<lastSeen, seqSeen, avail>>
ghosts     == <<iced, clear, raced>>
vars       == <<cacheVars, offerVars, pc, marking, readVars, ghosts>>

Init ==
    /\ entry = [s \in Scopes |-> "none"]
    /\ seq = 0
    /\ evicting = {}
    /\ cached = None
    /\ lastSeq = None
    /\ offered \in BOOLEAN
    /\ pc = [x \in Readers \cup Markers |-> "idle"]
    /\ marking = [m \in Markers |-> None]
    /\ lastSeen = [r \in Readers |-> None]
    /\ seqSeen = [r \in Readers |-> 0]
    /\ avail = [r \in Readers |-> FALSE]
    /\ iced = [r \in Readers |-> {}]
    /\ clear = [r \in Readers |-> FALSE]
    /\ raced = FALSE

-----------------------------------------------------------------------------
(* The cache of unavailable offerings *)

(* SeqNum adds the two counters while the plan's one is locked, so that    *)
(* only their sum is ever seen.                                            *)
SeqNum == seq

(* offeringCache.Get and regionCache.Get: an expired entry is not found.   *)
Found(s) == entry[s] = "live"

(* A mark of scope s whose call has not returned. *)
Pending(s) == \E m \in Markers : pc[m] = "bump" /\ marking[m] = s

(* MarkUnavailable and MarkRegionUnavailable: first the entry, which also  *)
(* extends the TTL of an existing one ...                                  *)
MarkSet(m, s) ==
    /\ pc[m] = "idle"
    /\ SeqNum < MaxSeq
    /\ entry' = [entry EXCEPT ![s] = "live"]
    /\ pc' = [pc EXCEPT ![m] = "bump"]
    /\ marking' = [marking EXCEPT ![m] = s]
    /\ clear' = [r \in Readers |-> FALSE]
    /\ UNCHANGED <<seq, evicting, offerVars, readVars, iced, raced>>

(* Mutant: the sequence number is only moved by evictions. *)
MarkBumpMissing(m) ==
    /\ pc[m] = "bump"
    /\ pc' = [pc EXCEPT ![m] = "idle"]
    /\ marking' = [marking EXCEPT ![m] = None]
    /\ UNCHANGED <<cacheVars, offerVars, readVars, ghosts>>

(* ... then the sequence number. *)
MarkBump(m) ==
    /\ pc[m] = "bump"
    /\ seq' = seq + 1
    /\ pc' = [pc EXCEPT ![m] = "idle"]
    /\ marking' = [marking EXCEPT ![m] = None]
    /\ UNCHANGED <<entry, evicting, offerVars, readVars, ghosts>>

(* UnavailableOfferingsTTL passes. *)
Expire(s) ==
    /\ entry[s] = "live"
    /\ entry' = [entry EXCEPT ![s] = "expired"]
    /\ iced' = [r \in Readers |-> iced[r] \ {s}]
    /\ UNCHANGED <<seq, evicting, offerVars, pc, marking, readVars, clear, raced>>

(* The janitor removes an expired entry and then runs OnEvicted. *)
Sweep(s) ==
    /\ entry[s] = "expired" /\ s \notin evicting
    /\ entry' = [entry EXCEPT ![s] = "none"]
    /\ evicting' = evicting \cup {s}
    /\ UNCHANGED <<seq, offerVars, pc, marking, readVars, ghosts>>

(* Mutant: no OnEvicted callback moves the sequence number. *)
OnEvictedSilent(s) ==
    /\ s \in evicting
    /\ evicting' = evicting \ {s}
    /\ UNCHANGED <<entry, seq, offerVars, pc, marking, readVars, ghosts>>

OnEvicted(s) ==
    /\ s \in evicting
    /\ evicting' = evicting \ {s}
    /\ seq' = seq + 1
    /\ UNCHANGED <<entry, offerVars, pc, marking, readVars, ghosts>>

-----------------------------------------------------------------------------
(* GetInstanceTypes: List under the read locks, createOfferings *)

Go(r, from, to) == pc[r] = from /\ pc' = [pc EXCEPT ![r] = to]

StartList(r) ==
    /\ Go(r, "idle", "load")
    /\ iced' = [iced EXCEPT ![r] = {s \in Scopes : Found(s) /\ ~Pending(s)}]
    /\ clear' = [clear EXCEPT ![r] =
                   evicting = {} /\ \A s \in Scopes : entry[s] = "none" /\ ~Pending(s)]
    /\ raced' = (raced \/ \E q \in Readers \ {r} : pc[q] # "idle")
    /\ UNCHANGED <<cacheVars, offerVars, marking, readVars>>

LoadLastSeq(r) ==
    /\ Go(r, "load", "seqnum")
    /\ lastSeen' = [lastSeen EXCEPT ![r] = lastSeq]
    /\ UNCHANGED <<cacheVars, offerVars, marking, seqSeen, avail, ghosts>>

ReadSeqNum(r) ==
    /\ Go(r, "seqnum", "get")
    /\ seqSeen' = [seqSeen EXCEPT ![r] = SeqNum]
    /\ UNCHANGED <<cacheVars, offerVars, marking, lastSeen, avail, ghosts>>

(* Mutant: the sequence numbers agree, so the cache is taken to be filled. *)
LookupUnchecked(r) ==
    LET hit == lastSeen[r] = seqSeen[r] IN
    /\ Go(r, "get", IF hit THEN "done" ELSE "plan")
    /\ avail' = [avail EXCEPT ![r] = IF hit THEN cached ELSE @]
    /\ lastSeen' = [lastSeen EXCEPT ![r] = None]
    /\ UNCHANGED <<cacheVars, offerVars, marking, seqSeen, ghosts>>

(* A cached offering counts while the sequence number has not moved.  A    *)
(* sequence number that was never stored is an int and equals no uint64.   *)
LookupCached(r) ==
    LET hit == cached # None /\ lastSeen[r] = seqSeen[r] IN
    /\ Go(r, "get", IF hit THEN "done" ELSE "plan")
    /\ avail' = [avail EXCEPT ![r] = IF hit THEN cached ELSE @]
    /\ lastSeen' = [lastSeen EXCEPT ![r] = None]
    /\ UNCHANGED <<cacheVars, offerVars, marking, seqSeen, ghosts>>

(* IsUnavailable asks for the offering first, then for the region; neither *)
(* is asked when the plan is sold out.                                     *)
CheckPlan(r) ==
    /\ Go(r, "plan", IF offered THEN "region" ELSE "set")
    /\ avail' = [avail EXCEPT ![r] = offered /\ ~Found("plan")]
    /\ UNCHANGED <<cacheVars, offerVars, marking, lastSeen, seqSeen, ghosts>>

CheckRegion(r) ==
    /\ Go(r, "region", "set")
    /\ avail' = [avail EXCEPT ![r] = @ /\ ~Found("region")]
    /\ UNCHANGED <<cacheVars, offerVars, marking, lastSeen, seqSeen, ghosts>>

SetCached(r) ==
    /\ Go(r, "set", "store")
    /\ cached' = avail[r]
    /\ UNCHANGED <<cacheVars, lastSeq, offered, marking, readVars, ghosts>>

(* The number stored is the one read before the offering was computed. *)
StoreLastSeq(r) ==
    /\ Go(r, "store", "done")
    /\ lastSeq' = seqSeen[r]
    /\ UNCHANGED <<cacheVars, cached, offered, marking, readVars, ghosts>>

(* The call returns and releases its read locks. *)
EndList(r) ==
    /\ Go(r, "done", "idle")
    /\ lastSeen' = [lastSeen EXCEPT ![r] = None]
    /\ seqSeen' = [seqSeen EXCEPT ![r] = 0]
    /\ avail' = [avail EXCEPT ![r] = FALSE]
    /\ iced' = [iced EXCEPT ![r] = {}]
    /\ clear' = [clear EXCEPT ![r] = FALSE]
    /\ UNCHANGED <<cacheVars, offerVars, marking, raced>>

ListStep(r) ==
    \/ LoadLastSeq(r)
    \/ ReadSeqNum(r)
    \/ LookupCached(r)
    \/ CheckPlan(r)
    \/ CheckRegion(r)
    \/ SetCached(r)
    \/ StoreLastSeq(r)
    \/ EndList(r)

(* Mutant: the refresh leaves the cached offerings in place. *)
UpdateKeepsCache(b) ==
    /\ \A r \in Readers : pc[r] = "idle"
    /\ offered' = b
    /\ UNCHANGED <<cacheVars, cached, lastSeq, pc, marking, readVars, ghosts>>

(* UpdateInstanceTypeOfferings takes the write lock, so no List is under   *)
(* way.  The cached offerings are dropped when the availability of this or *)
(* of any other plan changed.                                              *)
UpdateInstanceTypeOfferings(b) ==
    /\ \A r \in Readers : pc[r] = "idle"
    /\ offered' = b
    /\ cached' \in IF b = offered THEN {cached, None} ELSE {None}
    /\ raced' = (raced /\ cached' # None)
    /\ UNCHANGED <<cacheVars, lastSeq, pc, marking, readVars, iced, clear>>

(* Mutant: the offering cache is created without an expiration. *)
CachedForever == FALSE /\ UNCHANGED vars

(* InstanceTypesZonesAndOfferingsTTL passes. *)
CachedExpires ==
    /\ cached # None
    /\ cached' = None
    /\ raced' = (raced /\ \E r \in Readers : pc[r] # "idle")
    /\ UNCHANGED <<cacheVars, lastSeq, offered, pc, marking, readVars, iced, clear>>

-----------------------------------------------------------------------------
Next ==
    \/ \E m \in Markers : (\E s \in Scopes : MarkSet(m, s)) \/ MarkBump(m)
    \/ \E s \in Scopes : Expire(s) \/ Sweep(s) \/ OnEvicted(s)
    \/ \E r \in Readers : StartList(r) \/ ListStep(r)
    \/ \E b \in BOOLEAN : UpdateInstanceTypeOfferings(b)
    \/ CachedExpires

Spec == Init /\ [][Next]_vars

(* Goroutines run, the scheduler keeps asking for instance types, and time *)
(* passes for the cached offering.                                         *)
Fairness ==
    /\ \A r \in Readers : WF_vars(StartList(r) \/ ListStep(r))
    /\ \A m \in Markers : WF_vars(MarkBump(m))
    /\ \A s \in Scopes : WF_vars(Sweep(s)) /\ WF_vars(OnEvicted(s))
    /\ WF_vars(CachedExpires)

FairSpec == Spec /\ Fairness

-----------------------------------------------------------------------------
(* Properties *)

(* Types of the two caches, the counter and the calls. *)
TypeOK ==
    /\ entry \in [Scopes -> {"live", "expired", "none"}]
    /\ seq \in Nat
    /\ evicting \subseteq Scopes
    /\ cached \in BOOLEAN \cup {None}
    /\ lastSeq \in Nat \cup {None}
    /\ offered \in BOOLEAN
    /\ pc \in [Readers \cup Markers ->
                 {"idle", "bump", "load", "seqnum", "get", "plan", "region", "set", "store", "done"}]
    /\ marking \in [Markers -> Scopes \cup {None}]
    /\ lastSeen \in [Readers -> Nat \cup {None}]
    /\ seqSeen \in [Readers -> Nat]
    /\ avail \in [Readers -> BOOLEAN]
    /\ iced \in [Readers -> SUBSET Scopes]
    /\ clear \in [Readers -> BOOLEAN]
    /\ raced \in BOOLEAN

(* "These offerings are ignored as long as they are in the cache on        *)
(* GetInstanceTypes responses": a call does not offer what a finished mark *)
(* kept in the cache from before the call until its end.                   *)
NoStaleOffer == \A r \in Readers : pc[r] = "done" /\ iced[r] # {} => ~avail[r]

(* Only overlapping calls can break it, and only until the offering they   *)
(* stored is dropped.                                                      *)
StaleOfferNeedsRace == raced \/ NoStaleOffer

(* The other way round: a call that no mark was near offers the plan, so   *)
(* eviction does invalidate the cached offering.                           *)
NoStaleRefusal ==
    \A r \in Readers : pc[r] = "done" /\ clear[r] /\ ~raced => avail[r] = offered

(* A plan that the region availability reports as sold out is never        *)
(* offered, however the calls, the refresh and the two TTLs interleave.    *)
NeverOffersSoldOut == \A r \in Readers : pc[r] = "done" /\ avail[r] => offered

(* When marks stop and the plan stays in stock, it is offered again,       *)
(* although concurrent calls may have cached the opposite.                 *)
OffersRecover ==
    <>[](offered /\ \A s \in Scopes : ~Found(s)) =>
        []<>(\E r \in Readers : pc[r] = "done" /\ avail[r])

=============================================================================
