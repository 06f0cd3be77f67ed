--------------------------- MODULE OfferingsProofs ---------------------------
(* Machine-checked proofs about Offerings, for any number of readers,      *)
(* markers and marks.                                                      *)
EXTENDS Offerings, TLAPS

(* No mark exists, no call is making one and no eviction is under way. *)
Quiet == evicting = {} /\ \A s \in Scopes : entry[s] = "none" /\ ~Pending(s)

(* Every mark in the cache is by a call that has not bumped the number.    *)
Unmarked == \A s \in Scopes : Found(s) => Pending(s)

(* What is offered, cached or computed is in stock. *)
StockInv ==
    /\ cached = TRUE => offered
    /\ \A r \in Readers : /\ avail[r] => offered
                          /\ pc[r] = "idle" => ~avail[r]

(* A marker in between its two steps has a scope. *)
MarkingInv == \A m \in Markers : pc[m] = "bump" => marking[m] \in Scopes

(* Overlapping calls are noticed; the number only grows; what a call saw   *)
(* when it began holds until an entry expires or a mark comes.             *)
SeenInv ==
    /\ \A r \in Readers : \A q \in Readers \ {r} : pc[r] # "idle" /\ pc[q] # "idle" => raced
    /\ lastSeq # None => lastSeq <= seq
    /\ \A r \in Readers :
         /\ seqSeen[r] <= seq
         /\ \A s \in iced[r] : entry[s] = "live"
         /\ clear[r] => Quiet

(* A cached offering stored with the current number agrees with the marks. *)
CacheInv ==
    cached # None /\ lastSeq = seq =>
        /\ cached = TRUE => Unmarked
        /\ Quiet => cached = offered

(* A call looks up ... *)
LookupInv(r) ==
    /\ pc[r] \in {"load", "seqnum"} /\ cached = TRUE /\ iced[r] # {} => lastSeq # seq
    /\ pc[r] \in {"seqnum", "get"} => lastSeen[r] = lastSeq
    /\ pc[r] = "get" /\ cached = TRUE /\ iced[r] # {} => lastSeq # seqSeen[r]
    /\ pc[r] \in {"get", "plan", "region", "set", "store"} =>
         /\ clear[r] => seqSeen[r] = seq
         /\ lastSeq # None => lastSeq <= seqSeen[r]

(* ... and computes an offering that is right for the number it has read.  *)
ComputeInv(r) ==
    /\ pc[r] = "region" =>
         /\ avail[r] => "plan" \notin iced[r]
         /\ avail[r] /\ seqSeen[r] = seq => (Found("plan") => Pending("plan"))
         /\ seqSeen[r] = seq /\ Quiet => avail[r] = offered
    /\ pc[r] \in {"set", "store"} =>
         /\ avail[r] => iced[r] = {}
         /\ avail[r] /\ seqSeen[r] = seq => Unmarked
         /\ seqSeen[r] = seq /\ Quiet => avail[r] = offered
    /\ pc[r] = "store" => cached \in {None, avail[r]}
    /\ pc[r] = "done" =>
         /\ avail[r] => iced[r] = {}
         /\ clear[r] => avail[r] = offered

LoneInv == raced \/ (CacheInv /\ \A r \in Readers : LookupInv(r) /\ ComputeInv(r))

Inv == TypeOK /\ MarkingInv /\ StockInv /\ SeenInv /\ LoneInv

-----------------------------------------------------------------------------

(* Every step keeps the types. *)
LEMMA TypeStep ==
    ASSUME TypeOK, MarkingInv, [Next]_vars
    PROVE  TypeOK' /\ MarkingInv'
  <1> USE OfferingsAssumption DEF TypeOK, MarkingInv, SeqNum, cacheVars, offerVars, readVars, ghosts, Go
  <1>1. ASSUME NEW m \in Markers, NEW s \in Scopes, MarkSet(m, s) PROVE TypeOK' /\ MarkingInv'
    BY <1>1 DEF MarkSet
  <1>2. ASSUME NEW m \in Markers, MarkBump(m) PROVE TypeOK' /\ MarkingInv'
    BY <1>2 DEF MarkBump
  <1>3. ASSUME NEW s \in Scopes, Expire(s) PROVE TypeOK' /\ MarkingInv'
    BY <1>3 DEF Expire
  <1>4. ASSUME NEW s \in Scopes, Sweep(s) PROVE TypeOK' /\ MarkingInv'
    BY <1>4 DEF Sweep
  <1>5. ASSUME NEW s \in Scopes, OnEvicted(s) PROVE TypeOK' /\ MarkingInv'
    BY <1>5 DEF OnEvicted
  <1>6. ASSUME NEW r \in Readers, StartList(r) PROVE TypeOK' /\ MarkingInv'
    BY <1>6 DEF StartList
  <1>7. ASSUME NEW r \in Readers, LoadLastSeq(r) PROVE TypeOK' /\ MarkingInv'
    BY <1>7 DEF LoadLastSeq
  <1>8. ASSUME NEW r \in Readers, ReadSeqNum(r) PROVE TypeOK' /\ MarkingInv'
    BY <1>8 DEF ReadSeqNum
  <1>9. ASSUME NEW r \in Readers, LookupCached(r) PROVE TypeOK' /\ MarkingInv'
    BY <1>9 DEF LookupCached
  <1>10. ASSUME NEW r \in Readers, CheckPlan(r) PROVE TypeOK' /\ MarkingInv'
    BY <1>10 DEF CheckPlan
  <1>11. ASSUME NEW r \in Readers, CheckRegion(r) PROVE TypeOK' /\ MarkingInv'
    BY <1>11 DEF CheckRegion
  <1>12. ASSUME NEW r \in Readers, SetCached(r) PROVE TypeOK' /\ MarkingInv'
    BY <1>12 DEF SetCached
  <1>13. ASSUME NEW r \in Readers, StoreLastSeq(r) PROVE TypeOK' /\ MarkingInv'
    BY <1>13 DEF StoreLastSeq
  <1>14. ASSUME NEW r \in Readers, EndList(r) PROVE TypeOK' /\ MarkingInv'
    BY <1>14 DEF EndList
  <1>15. ASSUME NEW b \in BOOLEAN, UpdateInstanceTypeOfferings(b) PROVE TypeOK' /\ MarkingInv'
    BY <1>15 DEF UpdateInstanceTypeOfferings
  <1>16. CASE CachedExpires
    BY <1>16 DEF CachedExpires
  <1>17. CASE UNCHANGED vars
    BY <1>17 DEF vars
  <1> QED
    BY <1>1, <1>2, <1>3, <1>4, <1>5, <1>6, <1>7, <1>8, <1>9, <1>10, <1>11, <1>12, <1>13, <1>14,
       <1>15, <1>16, <1>17 DEF Next, ListStep

(* Only what is in stock is computed or cached, and the refresh that ends   *)
(* the stock runs when no call does.                                        *)
LEMMA StockStep ==
    ASSUME TypeOK, StockInv, [Next]_vars
    PROVE  StockInv'
  <1> USE OfferingsAssumption DEF TypeOK, StockInv, cacheVars, offerVars, readVars, ghosts, Go
  <1>1. ASSUME NEW r \in Readers, LookupCached(r) PROVE StockInv'
    BY <1>1 DEF LookupCached
  <1>2. ASSUME NEW r \in Readers, CheckPlan(r) \/ CheckRegion(r) PROVE StockInv'
    BY <1>2 DEF CheckPlan, CheckRegion
  <1>3. ASSUME NEW r \in Readers, SetCached(r) PROVE StockInv'
    BY <1>3 DEF SetCached
  <1>4. ASSUME NEW r \in Readers, EndList(r) PROVE StockInv'
    BY <1>4 DEF EndList
  <1>5. ASSUME NEW r \in Readers, StartList(r) \/ LoadLastSeq(r) \/ ReadSeqNum(r) \/ StoreLastSeq(r)
        PROVE  StockInv'
    BY <1>5 DEF StartList, LoadLastSeq, ReadSeqNum, StoreLastSeq
  <1>6. ASSUME NEW m \in Markers, MarkBump(m) \/ \E s \in Scopes : MarkSet(m, s) PROVE StockInv'
    BY <1>6 DEF MarkBump, MarkSet
  <1>7. ASSUME NEW b \in BOOLEAN, UpdateInstanceTypeOfferings(b) PROVE StockInv'
    BY <1>7 DEF UpdateInstanceTypeOfferings
  <1>8. CASE CachedExpires
    BY <1>8 DEF CachedExpires
  <1>9. CASE UNCHANGED <<cached, offered, avail, pc>>
    BY <1>9
  <1> QED
    BY <1>1, <1>2, <1>3, <1>4, <1>5, <1>6, <1>7, <1>8, <1>9
       DEF Next, ListStep, vars, Expire, Sweep, OnEvicted

(* What becomes of quiet times: a mark or an eviction always moves the      *)
(* number before they return.                                               *)
LEMMA QuietStep ==
    ASSUME TypeOK, MarkingInv, [Next]_vars
    PROVE  /\ seq' \in {seq, seq + 1}
           /\ Quiet' => seq' = seq + 1 \/ Quiet
           /\ Unmarked /\ seq' = seq => Unmarked'
           /\ Quiet /\ ~Quiet' => clear' = [r \in Readers |-> FALSE]
           /\ Quiet /\ Quiet' => seq' = seq
           /\ \A s \in Scopes : seq' = seq /\ (Found(s) => Pending(s)) => (Found(s) => Pending(s))'
  <1> DEFINE Goal ==
        /\ seq' \in {seq, seq + 1}
        /\ Quiet' => seq' = seq + 1 \/ Quiet
        /\ Quiet /\ ~Quiet' => clear' = [r \in Readers |-> FALSE]
        /\ Quiet /\ Quiet' => seq' = seq
        /\ \A s \in Scopes : seq' = seq /\ (Found(s) => Pending(s)) => (Found(s) => Pending(s))'
  <1> USE OfferingsAssumption DEF TypeOK, Quiet, Found, Pending, cacheVars, offerVars, readVars, ghosts, Go
  <1>1. ASSUME NEW m \in Markers, NEW s \in Scopes, MarkSet(m, s) PROVE Goal
    BY <1>1 DEF MarkSet
  <1>2. ASSUME NEW m \in Markers, MarkBump(m) PROVE Goal
    <2>1. marking[m] \in Scopes /\ Pending(marking[m]) /\ ~Quiet
      BY <1>2 DEF MarkBump, MarkingInv
    <2>2. seq' = seq + 1 /\ seq' # seq
      BY <1>2 DEF MarkBump
    <2> QED
      BY <2>1, <2>2
  <1>3. ASSUME NEW s \in Scopes, Expire(s) \/ Sweep(s) \/ OnEvicted(s) PROVE Goal
    BY <1>3 DEF Expire, Sweep, OnEvicted
  <1>4. ASSUME UNCHANGED <<entry, seq, evicting>>,
               \A m \in Markers : pc'[m] = pc[m] /\ marking'[m] = marking[m]
        PROVE  Goal
    BY <1>4
  <1>5. ASSUME NEW r \in Readers, StartList(r) \/ ListStep(r)
        PROVE  UNCHANGED <<entry, seq, evicting>>
               /\ \A m \in Markers : pc'[m] = pc[m] /\ marking'[m] = marking[m]
    BY <1>5 DEF StartList, ListStep, LoadLastSeq, ReadSeqNum, LookupCached, CheckPlan, CheckRegion,
                SetCached, StoreLastSeq, EndList
  <1>6. ASSUME UNCHANGED <<entry, seq, evicting, pc, marking>> PROVE Goal
    BY <1>6
  <1>7. Goal
    BY <1>1, <1>2, <1>3, <1>4, <1>5, <1>6
       DEF Next, vars, UpdateInstanceTypeOfferings, CachedExpires
  <1> QED
    BY <1>7 DEF Unmarked

(* A call begins alone or is noticed, and sees what is there. *)
LEMMA SeenStep ==
    ASSUME TypeOK, MarkingInv, SeenInv, [Next]_vars
    PROVE  SeenInv'
  <1>1. /\ Quiet /\ ~Quiet' => clear' = [r \in Readers |-> FALSE]
        /\ seq' \in {seq, seq + 1}
    BY QuietStep
  <1> DEFINE Overlap == \A r \in Readers : \A q \in Readers \ {r} :
                          pc[r] # "idle" /\ pc[q] # "idle" => raced
             Order == /\ lastSeq # None => lastSeq <= seq
                      /\ \A r \in Readers : seqSeen[r] <= seq
             Iced == \A r \in Readers : \A s \in iced[r] : entry[s] = "live"
             Clear == \A r \in Readers : clear[r] => Quiet
  <1> USE OfferingsAssumption
  <1> USE DEF TypeOK, SeenInv, cacheVars, offerVars, readVars, ghosts, Go
  <1>2. Overlap'
    <2>1. ASSUME NEW r \in Readers, StartList(r) PROVE Overlap'
      BY <2>1 DEF StartList
    <2>2. ASSUME NEW r \in Readers, ListStep(r) PROVE Overlap'
      BY <2>2 DEF ListStep, LoadLastSeq, ReadSeqNum, LookupCached, CheckPlan, CheckRegion, SetCached,
                  StoreLastSeq, EndList
    <2>3. ASSUME NEW m \in Markers, MarkBump(m) \/ \E s \in Scopes : MarkSet(m, s) PROVE Overlap'
      BY <2>3 DEF MarkBump, MarkSet
    <2>4. ASSUME NEW b \in BOOLEAN, UpdateInstanceTypeOfferings(b) PROVE Overlap'
      BY <2>4 DEF UpdateInstanceTypeOfferings
    <2>5. CASE CachedExpires
      BY <2>5 DEF CachedExpires
    <2>6. CASE UNCHANGED <<pc, raced>>
      BY <2>6
    <2> QED
      BY <2>1, <2>2, <2>3, <2>4, <2>5, <2>6 DEF Next, vars, Expire, Sweep, OnEvicted
  <1>3. Order'
    BY <1>1 DEF Next, ListStep, vars, SeqNum, MarkSet, MarkBump, Expire, Sweep, OnEvicted, StartList,
           LoadLastSeq, ReadSeqNum, LookupCached, CheckPlan, CheckRegion, SetCached, StoreLastSeq,
           EndList, UpdateInstanceTypeOfferings, CachedExpires
  <1>4. Iced'
    BY DEF Next, ListStep, vars, Found, MarkSet, MarkBump, Expire, Sweep, OnEvicted, StartList,
           LoadLastSeq, ReadSeqNum, LookupCached, CheckPlan, CheckRegion, SetCached, StoreLastSeq,
           EndList, UpdateInstanceTypeOfferings, CachedExpires
  <1>5. Clear'
    <2>1. ASSUME NEW r \in Readers, StartList(r) PROVE \A q \in Readers : clear'[q] => clear[q] \/ Quiet
      BY <2>1 DEF StartList, Quiet
    <2>2. ASSUME NEW r \in Readers, EndList(r) PROVE \A q \in Readers : clear'[q] => clear[q]
      BY <2>2 DEF EndList
    <2>3. CASE \E m \in Markers, s \in Scopes : MarkSet(m, s)
      BY <2>3 DEF MarkSet
    <2>4. CASE UNCHANGED clear
      BY <1>1, <2>4
    <2>5. \/ \E r \in Readers : StartList(r) \/ EndList(r)
          \/ \E m \in Markers, s \in Scopes : MarkSet(m, s)
          \/ UNCHANGED clear
      BY DEF Next, ListStep, vars, MarkBump, Expire, Sweep, OnEvicted, LoadLastSeq, ReadSeqNum,
             LookupCached, CheckPlan, CheckRegion, SetCached, StoreLastSeq,
             UpdateInstanceTypeOfferings, CachedExpires
    <2> QED
      BY <1>1, <2>1, <2>2, <2>3, <2>4, <2>5
  <1> QED
    BY <1>2, <1>3, <1>4, <1>5

(* What marks, evictions, refreshes and expirations leave alone. *)
LEMMA WorldStep ==
    ASSUME TypeOK, [Next]_vars
    PROVE  \/ \E r \in Readers : StartList(r) \/ ListStep(r)
           \/ raced /\ ~raced' /\ cached' = None /\ \A r \in Readers : pc'[r] = "idle"
           \/ /\ raced' = raced
              /\ cached' \in {cached, None} /\ lastSeq' = lastSeq
              /\ UNCHANGED readVars
              /\ \A r \in Readers : /\ pc'[r] = pc[r]
                                     /\ iced'[r] \subseteq iced[r] /\ (clear'[r] => clear[r])
              /\ offered' = offered \/ (cached' = None /\ \A r \in Readers : pc[r] = "idle")
  <1> DEFINE Goal ==
        \/ raced /\ ~raced' /\ cached' = None /\ \A r \in Readers : pc'[r] = "idle"
        \/ /\ raced' = raced
           /\ cached' \in {cached, None} /\ lastSeq' = lastSeq
           /\ UNCHANGED readVars
           /\ \A r \in Readers : /\ pc'[r] = pc[r]
                                  /\ iced'[r] \subseteq iced[r] /\ (clear'[r] => clear[r])
           /\ offered' = offered \/ (cached' = None /\ \A r \in Readers : pc[r] = "idle")
  <1> USE OfferingsAssumption DEF TypeOK, cacheVars, offerVars, readVars, ghosts
  <1>1. ASSUME NEW m \in Markers, MarkBump(m) \/ \E s \in Scopes : MarkSet(m, s) PROVE Goal
    BY <1>1 DEF MarkBump, MarkSet
  <1>2. ASSUME NEW s \in Scopes, Expire(s) \/ Sweep(s) \/ OnEvicted(s) PROVE Goal
    BY <1>2 DEF Expire, Sweep, OnEvicted
  <1>3. ASSUME NEW b \in BOOLEAN, UpdateInstanceTypeOfferings(b) PROVE Goal
    BY <1>3 DEF UpdateInstanceTypeOfferings
  <1>4. ASSUME CachedExpires PROVE Goal
    BY <1>4 DEF CachedExpires
  <1>5. ASSUME UNCHANGED vars PROVE Goal
    BY <1>5 DEF vars
  <1> QED
    BY <1>1, <1>2, <1>3, <1>4, <1>5 DEF Next

(* A call changes no mark, and no other call runs unless that is noticed. *)
LEMMA ReaderStep ==
    ASSUME TypeOK, SeenInv, NEW r \in Readers, StartList(r) \/ ListStep(r)
    PROVE  /\ UNCHANGED <<entry, seq, evicting, offered>>
           /\ Quiet' <=> Quiet
           /\ Unmarked' <=> Unmarked
           /\ \A s \in Scopes : (Found(s)' <=> Found(s)) /\ (Pending(s)' <=> Pending(s))
           /\ ~raced' => ~raced /\ \A q \in Readers \ {r} : pc'[q] = "idle"
           /\ ListStep(r) => UNCHANGED raced
  <1> USE OfferingsAssumption DEF TypeOK, SeenInv, cacheVars, offerVars, ghosts, Go
  <1>1. /\ UNCHANGED <<entry, seq, evicting, offered, marking>>
        /\ \A m \in Markers : pc'[m] = pc[m]
        /\ \A q \in Readers \ {r} : pc'[q] = pc[q]
        /\ raced' = raced \/ (StartList(r) /\ raced' = (raced \/ \E q \in Readers \ {r} : pc[q] # "idle"))
    BY DEF StartList, ListStep, LoadLastSeq, ReadSeqNum, LookupCached, CheckPlan, CheckRegion,
           SetCached, StoreLastSeq, EndList
  <1>2. ListStep(r) => pc[r] # "idle" /\ raced' = raced
    BY DEF ListStep, LoadLastSeq, ReadSeqNum, LookupCached, CheckPlan, CheckRegion, SetCached,
           StoreLastSeq, EndList
  <1>3. \A s \in Scopes : (Found(s)' <=> Found(s)) /\ (Pending(s)' <=> Pending(s))
    BY <1>1 DEF Found, Pending
  <1>4. (Quiet' <=> Quiet) /\ (Unmarked' <=> Unmarked)
    BY <1>1, <1>3 DEF Quiet, Unmarked
  <1>5. ~raced' => ~raced /\ \A q \in Readers \ {r} : pc'[q] = "idle"
    <2>1. CASE StartList(r)
      BY <1>1, <2>1 DEF StartList
    <2>2. CASE ListStep(r)
      BY <1>1, <1>2, <2>2
    <2> QED
      BY <2>1, <2>2
  <1> QED
    BY <1>1, <1>2, <1>3, <1>4, <1>5

(* Alone, a call stores and returns what the marks say. *)
LEMMA LoneStep ==
    ASSUME Inv, SeenInv', TypeOK', [Next]_vars
    PROVE  LoneInv'
  <1> USE OfferingsAssumption DEF Inv
  <1>1. CASE raced'
    BY <1>1 DEF LoneInv
  <1>2. CASE raced /\ ~raced' /\ cached' = None /\ \A r \in Readers : pc'[r] = "idle"
    BY <1>2 DEF LoneInv, CacheInv, LookupInv, ComputeInv
  <1>3. ASSUME ~raced', raced' = raced,
               cached' \in {cached, None}, lastSeq' = lastSeq, UNCHANGED readVars,
               \A r \in Readers : /\ pc'[r] = pc[r]
                                  /\ iced'[r] \subseteq iced[r] /\ (clear'[r] => clear[r]),
               offered' = offered \/ (cached' = None /\ \A r \in Readers : pc[r] = "idle")
        PROVE  LoneInv'
    <2>1. CacheInv /\ \A r \in Readers : LookupInv(r) /\ ComputeInv(r)
      BY <1>3 DEF LoneInv
    <2>2. /\ seq \in Nat /\ seq' \in {seq, seq + 1}
          /\ Quiet' => seq' = seq + 1 \/ Quiet
          /\ Unmarked /\ seq' = seq => Unmarked'
          /\ Quiet /\ Quiet' => seq' = seq
          /\ seq' = seq /\ (Found("plan") => Pending("plan")) => (Found("plan") => Pending("plan"))'
      BY QuietStep DEF TypeOK, Scopes
    <2>3. lastSeq \in Nat \cup {None} /\ (lastSeq # None => lastSeq <= seq)
      BY <1>3 DEF SeenInv, TypeOK
    <2>4. CacheInv'
      BY <1>3, <2>1, <2>2, <2>3 DEF CacheInv
    <2> SUFFICES ASSUME NEW r \in Readers PROVE LookupInv(r)' /\ ComputeInv(r)'
      BY <2>4 DEF LoneInv
    <2>5. /\ UNCHANGED <<lastSeen, seqSeen, avail>> /\ pc'[r] = pc[r]
          /\ iced'[r] \subseteq iced[r] /\ (clear'[r] => clear[r])
      BY <1>3 DEF readVars
    <2>6. (clear[r] => Quiet) /\ (clear'[r] => Quiet')
      BY DEF SeenInv
    <2>7. seqSeen[r] \in Nat /\ seqSeen[r] <= seq
      BY DEF SeenInv, TypeOK
    <2>8. /\ lastSeq = seq' => lastSeq = seq
          /\ cached' = TRUE => cached = TRUE
          /\ iced'[r] # {} => iced[r] # {}
          /\ clear'[r] => seq' = seq
      <3>1. lastSeq = seq' => lastSeq = seq
        <4>1. seq + 1 # None
          BY <2>2
        <4> QED
          BY <2>2, <2>3, <4>1
      <3>2. cached' = TRUE => cached = TRUE
        BY <1>3, None # TRUE
      <3>3. clear'[r] => seq' = seq
        BY <2>2, <2>5, <2>6
      <3> QED
        BY <2>5, <3>1, <3>2, <3>3
    <2>9. seqSeen[r] = seq' => seq' = seq
      BY <2>2, <2>7
    <2>10. LookupInv(r)'
      <3>1. lastSeq' = lastSeq /\ LookupInv(r)
        BY <1>3, <2>1
      <3>2. pc'[r] \in {"load", "seqnum"} /\ cached' = TRUE /\ iced'[r] # {} => lastSeq' # seq'
        BY <3>1, <2>5, <2>8 DEF LookupInv
      <3>3. pc'[r] \in {"seqnum", "get"} => lastSeen'[r] = lastSeq'
        BY <3>1, <2>5 DEF LookupInv
      <3>4. pc'[r] = "get" /\ cached' = TRUE /\ iced'[r] # {} => lastSeq' # seqSeen'[r]
        BY <3>1, <2>5, <2>8 DEF LookupInv
      <3>5. pc'[r] \in {"get", "plan", "region", "set", "store"} =>
              /\ clear'[r] => seqSeen'[r] = seq'
              /\ lastSeq' # None => lastSeq' <= seqSeen'[r]
        BY <3>1, <2>5, <2>8 DEF LookupInv
      <3> QED
        BY <3>2, <3>3, <3>4, <3>5 DEF LookupInv
    <2>11. ComputeInv(r)'
      BY <1>3, <2>1, <2>2, <2>3, <2>5, <2>9 DEF ComputeInv
    <2> QED
      BY <2>10, <2>11
  <1>4. ASSUME NEW r \in Readers, StartList(r) \/ ListStep(r), ~raced' PROVE LoneInv'
    <2>1. /\ UNCHANGED <<seq, offered>>
          /\ Quiet' <=> Quiet
          /\ Unmarked' <=> Unmarked
          /\ \A s \in Scopes : (Found(s)' <=> Found(s)) /\ (Pending(s)' <=> Pending(s))
          /\ ~raced /\ \A q \in Readers \ {r} : pc'[q] = "idle"
      BY <1>4, ReaderStep
    <2>2. CacheInv /\ LookupInv(r) /\ ComputeInv(r)
      BY <2>1 DEF LoneInv
    <2>3. \A q \in Readers \ {r} : LookupInv(q)' /\ ComputeInv(q)'
      BY <2>1 DEF LookupInv, ComputeInv
    <2>4. SUFFICES CacheInv' /\ LookupInv(r)' /\ ComputeInv(r)'
      BY <2>3 DEF LoneInv
    <2> USE <2>1, <2>2
    <2> USE DEF TypeOK, SeenInv, cacheVars, offerVars, ghosts, Go
    <2>5. CASE StartList(r)
      <3>1. /\ UNCHANGED <<cached, lastSeq, lastSeen, seqSeen, avail>>
            /\ pc'[r] = "load"
            /\ iced'[r] = {s \in Scopes : Found(s) /\ ~Pending(s)}
        BY <2>5 DEF StartList, readVars
      <3>2. CacheInv'
        BY <3>1 DEF CacheInv
      <3>3. iced'[r] # {} => ~Unmarked
        BY <3>1 DEF Unmarked
      <3>4. LookupInv(r)'
        BY <3>1, <3>3 DEF LookupInv, CacheInv
      <3>5. ComputeInv(r)'
        BY <3>1 DEF ComputeInv
      <3> QED
        BY <3>2, <3>4, <3>5
    <2>6. CASE LoadLastSeq(r)
      BY <2>6 DEF LoadLastSeq, CacheInv, LookupInv, ComputeInv
    <2>7. CASE ReadSeqNum(r)
      BY <2>7 DEF ReadSeqNum, SeqNum, CacheInv, LookupInv, ComputeInv
    <2>8. CASE LookupCached(r)
      BY <2>8 DEF LookupCached, CacheInv, LookupInv, ComputeInv
    <2>9. CASE CheckPlan(r)
      BY <2>9 DEF CheckPlan, CacheInv, LookupInv, ComputeInv, Found, Quiet, Scopes
    <2>10. CASE CheckRegion(r)
      BY <2>10 DEF CheckRegion, CacheInv, LookupInv, ComputeInv, Found, Quiet, Scopes, Unmarked
    <2>11. CASE SetCached(r)
      BY <2>11 DEF SetCached, CacheInv, LookupInv, ComputeInv, readVars
    <2>12. CASE StoreLastSeq(r)
      BY <2>12 DEF StoreLastSeq, CacheInv, LookupInv, ComputeInv, readVars
    <2>13. CASE EndList(r)
      BY <2>13 DEF EndList, CacheInv, LookupInv, ComputeInv
    <2> QED
      BY <1>4, <2>5, <2>6, <2>7, <2>8, <2>9, <2>10, <2>11, <2>12, <2>13 DEF ListStep
  <1> QED
    BY <1>1, <1>2, <1>3, <1>4, WorldStep

-----------------------------------------------------------------------------
LEMMA InitInv == Init => Inv
  <1> USE OfferingsAssumption DEF Init
  <1>1. Init => TypeOK
    <2> SUFFICES ASSUME Init PROVE TypeOK
      OBVIOUS
    <2>1. entry \in [Scopes -> {"live", "expired", "none"}] /\ evicting \subseteq Scopes
      OBVIOUS
    <2>2. seq \in Nat /\ cached \in BOOLEAN \cup {None} /\ lastSeq \in Nat \cup {None} /\ offered \in BOOLEAN
      OBVIOUS
    <2>3. pc \in [Readers \cup Markers ->
                    {"idle", "bump", "load", "seqnum", "get", "plan", "region", "set", "store", "done"}]
      OBVIOUS
    <2>4. marking \in [Markers -> Scopes \cup {None}] /\ lastSeen \in [Readers -> Nat \cup {None}]
      OBVIOUS
    <2>5. seqSeen \in [Readers -> Nat] /\ avail \in [Readers -> BOOLEAN]
      OBVIOUS
    <2>6. iced \in [Readers -> SUBSET Scopes] /\ clear \in [Readers -> BOOLEAN] /\ raced \in BOOLEAN
      OBVIOUS
    <2> QED
      BY <2>1, <2>2, <2>3, <2>4, <2>5, <2>6 DEF TypeOK
  <1>2. Init => StockInv
    <2>1. None # TRUE
      OBVIOUS
    <2> QED
      BY <2>1 DEF StockInv
  <1>3. Init => MarkingInv
    BY DEF MarkingInv
  <1>4. Init => SeenInv
    BY DEF SeenInv
  <1>5. Init => LoneInv
    BY DEF LoneInv, CacheInv, LookupInv, ComputeInv
  <1> QED
    BY <1>1, <1>2, <1>3, <1>4, <1>5 DEF Inv

LEMMA InvStep == Inv /\ [Next]_vars => Inv'
  <1> SUFFICES ASSUME Inv, [Next]_vars PROVE Inv'
    OBVIOUS
  <1>1. TypeOK' /\ MarkingInv'
    BY TypeStep DEF Inv
  <1>2. StockInv'
    BY StockStep DEF Inv
  <1>3. SeenInv'
    BY SeenStep DEF Inv
  <1>4. LoneInv'
    BY <1>1, <1>3, LoneStep
  <1> QED
    BY <1>1, <1>2, <1>3, <1>4 DEF Inv

(* The caches, the counter and the calls keep the inductive invariant,     *)
(* however marks, evictions, refreshes and concurrent calls of             *)
(* GetInstanceTypes interleave.                                            *)
THEOREM OfferingsInvariant == Spec => []Inv
  <1> QED
    BY InitInv, InvStep, PTL DEF Spec

(* The two caches, the counter and the calls keep their types. *)
THEOREM OfferingsTypeCorrect == Spec => []TypeOK
  <1>1. Inv => TypeOK
    BY DEF Inv
  <1> QED
    BY <1>1, OfferingsInvariant, PTL

(* GetInstanceTypes never offers a plan that the region availability       *)
(* reports as sold out, whatever is cached.                                *)
THEOREM NeverOffersSoldOutHolds == Spec => []NeverOffersSoldOut
  <1>1. Inv => NeverOffersSoldOut
    BY DEF Inv, StockInv, NeverOffersSoldOut
  <1> QED
    BY <1>1, OfferingsInvariant, PTL

(* A call whose offering no overlapping call touched does not offer what   *)
(* was marked unavailable before it began and until it ended.              *)
THEOREM StaleOfferNeedsRaceHolds == Spec => []StaleOfferNeedsRace
  <1>1. Inv => StaleOfferNeedsRace
    BY DEF Inv, LoneInv, ComputeInv, StaleOfferNeedsRace, NoStaleOffer
  <1> QED
    BY <1>1, OfferingsInvariant, PTL

(* Nor does it refuse a plan that no mark was near: once an entry has been *)
(* evicted, the cached refusal does not outlive it.                        *)
THEOREM NoStaleRefusalHolds == Spec => []NoStaleRefusal
  <1>1. Inv => NoStaleRefusal
    BY DEF Inv, LoneInv, ComputeInv, NoStaleRefusal
  <1> QED
    BY <1>1, OfferingsInvariant, PTL

=============================================================================
