------------------------- MODULE InstanceTypesProofs -------------------------
(* Machine-checked proofs about InstanceTypes, for any plans, catalogues,  *)
(* NodeClasses, kubelet configurations, workers with their reports,        *)
(* concurrent launches and number of events.                               *)
EXTENDS InstanceTypes, TLAPS

(* Workers of a plan whose reports are in its entry. *)
Observed(t) == {n \in observed : PlanOf[n] = t}

(* A report is, resource by resource, the least of those of some workers.  *)
IsLeast(f, N) ==
    /\ DOMAIN f = UNION {DOMAIN ReportOf[n] : n \in N}
    /\ \A x \in DOMAIN f :
         /\ \E n \in N : x \in DOMAIN ReportOf[n] /\ f[x] = ReportOf[n][x]
         /\ \A n \in N : x \in DOMAIN ReportOf[n] => f[x] <= ReportOf[n][x]

(* The entry that the running update is going to write over is the one it  *)
(* has read, or has expired since.                                         *)
UpdateInv ==
    update # NoUpdate =>
        /\ ReportOf[update.node] # NoReport
        /\ IsLeast(update.cached, update.basis)
        /\ update.basis \subseteq {n \in Nodes : PlanOf[n] = PlanOf[update.node]}
        /\ update.step = "set" =>
             \/ /\ discovered[PlanOf[update.node]] = update.cached
                /\ Observed(PlanOf[update.node]) = update.basis
             \/ /\ discovered[PlanOf[update.node]] = NoReport
                /\ Observed(PlanOf[update.node]) = {}
        /\ update.step = "drop" => update.node \in observed \cup lapsed

LeastInv == \A t \in Plans : IsLeast(discovered[t], Observed(t))

(* The types of a list are made from the current plans and from one kubelet *)
(* configuration.                                                          *)
Made(list, k) ==
    \A t \in DOMAIN list : list[t].plan = info[t] /\ list[t].kubelet = k

(* So are those that a launch is building or serving ... *)
CallMade(r) ==
    call[r] # None =>
        /\ call[r].step = "lookup" => call[r].list = NoReport
        /\ call[r].step \in {"build", "inject"} =>
             /\ DOMAIN call[r].list \subseteq DOMAIN info
             /\ Made(call[r].list, call[r].kubelet)
        /\ call[r].step = "inject" => DOMAIN call[r].list = DOMAIN info

(* ... and the cached ones. *)
MadeInv ==
    /\ \A k \in Keys : types[k] # None =>
         DOMAIN types[k] = DOMAIN info /\ Made(types[k], k[2])
    /\ \A r \in Callers : CallMade(r)

(* A type has the discovered capacity, or the running update drops it. *)
Fresh(type, t) ==
    \/ type.capacity = Discounted(type.plan, discovered[t])
    \/ update.step = "drop" /\ PlanOf[update.node] = t

(* So have those being built, unless their key is in doubt. *)
BuiltFresh ==
    \A r \in Callers :
        call[r] # None /\ call[r].step = "build" /\ KeyOf(r) \notin doubt =>
            \A t \in DOMAIN call[r].list : Fresh(call[r].list[t], t)

Inv == TypeOK /\ LeastInv /\ UpdateInv /\ NoReportLost /\ MadeInv /\ CachedTypesFresh /\ BuiltFresh

-----------------------------------------------------------------------------
(* Reports and capacity *)

LEMMA NoReportTyped == IsReport(NoReport) /\ IsTypeList(NoReport) /\ DOMAIN NoReport = {}
  BY DEF NoReport, IsReport, IsTypeList, IsPartial

LEMMA LoweredTyped ==
    ASSUME NEW f, IsReport(f), NEW g, IsReport(g)
    PROVE  IsReport(Lowered(f, g))
  BY DEF IsReport, IsPartial, Lowered, Assign

(* The capacity of a type is a quantity of every resource. *)
LEMMA DiscountedTyped ==
    ASSUME NEW plan \in PlanRecords, NEW f, IsReport(f)
    PROVE  Discounted(plan, f) \in [Kinds -> Int]
  <1>1. Predicted(plan) \in [Kinds -> Int]
    <2>1. plan.memory \in Nat /\ plan.disk \in Nat /\ plan.vcpus \in Nat
      BY DEF PlanRecords
    <2>2. plan.memory * VMMemoryOverhead \in Int
      BY <2>1, CapacityAssumption
    <2>3. CeilDiv(plan.memory * VMMemoryOverhead, 1000) \in Int
      BY <2>2 DEF CeilDiv
    <2>4. plan.memory - CeilDiv(plan.memory * VMMemoryOverhead, 1000) \in Int
      BY <2>1, <2>3
    <2> QED
      BY <2>1, <2>4 DEF Predicted, Kinds, Resources
  <1> QED
    BY <1>1 DEF Discounted, Assign, IsReport, IsPartial, Kinds

(* Without a quantity that is not above the cached one nothing changes. *)
LEMMA LoweredUnchanged ==
    ASSUME NEW f, IsReport(f), NEW g,
           ~ \E x \in DOMAIN g : x \in DOMAIN f => g[x] <= f[x]
    PROVE  Lowered(f, g) = f
  BY DEF Lowered, Assign, IsReport, IsPartial

(* What is lowered keeps every resource and grows in none. *)
LEMMA LoweredFalls ==
    ASSUME NEW f, IsReport(f), NEW g, IsReport(g)
    PROVE  \A x \in DOMAIN f : x \in DOMAIN Lowered(f, g) /\ Lowered(f, g)[x] <= f[x]
  BY DEF Lowered, Assign, IsReport, IsPartial

(* The report of one more worker makes the least of all. *)
LEMMA LoweredLeast ==
    ASSUME NEW N \in SUBSET Nodes, NEW f, IsReport(f), IsLeast(f, N), NEW n \in Nodes
    PROVE  IsLeast(Lowered(f, ReportOf[n]), N \cup {n})
  <1> DEFINE g == ReportOf[n]
             h == Lowered(f, g)
             lower == {x \in DOMAIN g : x \in DOMAIN f => g[x] <= f[x]}
  <1>1. /\ DOMAIN h = DOMAIN f \cup DOMAIN g
        /\ \A x \in lower : h[x] = g[x]
        /\ \A x \in DOMAIN h \ lower : h[x] = f[x] /\ x \in DOMAIN f
    <2>1. h = [x \in DOMAIN f \cup lower |-> IF x \in lower THEN g[x] ELSE f[x]]
      BY DEF Lowered, Assign
    <2>2. DOMAIN f \cup lower = DOMAIN f \cup DOMAIN g
      OBVIOUS
    <2> HIDE DEF h, g, lower
    <2>3. DOMAIN h = DOMAIN f \cup lower
      BY <2>1
    <2>4. \A x \in DOMAIN f \cup lower : h[x] = IF x \in lower THEN g[x] ELSE f[x]
      BY <2>1
    <2> QED
      BY <2>2, <2>3, <2>4
  <1>2. \A m \in Nodes : \A x \in DOMAIN ReportOf[m] : ReportOf[m][x] \in Nat
    BY InstanceTypesAssumption DEF IsReport, IsPartial
  <1>3. \A x \in DOMAIN f : f[x] \in Nat
    BY DEF IsReport, IsPartial
  <1>4. DOMAIN h = UNION {DOMAIN ReportOf[m] : m \in N \cup {n}}
    BY <1>1 DEF IsLeast
  <1>5. ASSUME NEW x \in DOMAIN h
        PROVE  /\ \E m \in N \cup {n} : x \in DOMAIN ReportOf[m] /\ h[x] = ReportOf[m][x]
               /\ \A m \in N \cup {n} : x \in DOMAIN ReportOf[m] => h[x] <= ReportOf[m][x]
    <2>1. CASE x \in lower
      <3>1. h[x] = g[x] /\ x \in DOMAIN g /\ g[x] \in Nat
        BY <1>1, <1>2, <2>1
      <3>2. ASSUME NEW m \in N, x \in DOMAIN ReportOf[m] PROVE h[x] <= ReportOf[m][x]
        <4>1. x \in DOMAIN f /\ f[x] <= ReportOf[m][x]
          BY <3>2 DEF IsLeast
        <4> QED
          BY <1>2, <1>3, <2>1, <3>1, <3>2, <4>1
      <3> QED
        BY <3>1, <3>2
    <2>2. CASE x \notin lower
      <3>1. h[x] = f[x] /\ x \in DOMAIN f
        BY <1>1, <2>2
      <3>2. x \in DOMAIN g => f[x] <= g[x]
        BY <1>2, <1>3, <2>2, <3>1
      <3> QED
        BY <3>1, <3>2 DEF IsLeast
    <2> QED
      BY <2>1, <2>2
  <1> QED
    BY <1>4, <1>5 DEF IsLeast

-----------------------------------------------------------------------------
(* Launches *)

(* A launch, by its fields. *)
Call(s, c, k, q, l, p) ==
    [step |-> s, class |-> c, kubelet |-> k, request |-> q, list |-> l, pick |-> p]

(* What a step of a launch sets of its record. *)
LEMMA CallUpdated ==
    ASSUME NEW x, CallTypeOK(x), NEW s \in Steps, NEW l, IsTypeList(l)
    PROVE  /\ [x EXCEPT !.step = s] = Call(s, x.class, x.kubelet, x.request, x.list, x.pick)
           /\ [x EXCEPT !.list = l] = Call(x.step, x.class, x.kubelet, x.request, l, x.pick)
           /\ [x EXCEPT !.step = s, !.list = l] = Call(s, x.class, x.kubelet, x.request, l, x.pick)
           /\ CallTypeOK(Call(s, x.class, x.kubelet, x.request, x.list, x.pick))
           /\ CallTypeOK(Call(x.step, x.class, x.kubelet, x.request, l, x.pick))
           /\ CallTypeOK(Call(s, x.class, x.kubelet, x.request, l, x.pick))
  <1>1. x = Call(x.step, x.class, x.kubelet, x.request, x.list, x.pick)
    BY DEF CallTypeOK, Call
  <1>2. [x EXCEPT !.step = s] = Call(s, x.class, x.kubelet, x.request, x.list, x.pick)
    BY <1>1 DEF Call
  <1>3. [x EXCEPT !.list = l] = Call(x.step, x.class, x.kubelet, x.request, l, x.pick)
    BY <1>1 DEF Call
  <1>4. [x EXCEPT !.step = s, !.list = l] = Call(s, x.class, x.kubelet, x.request, l, x.pick)
    <2>1. [x EXCEPT !.step = s, !.list = l] = [[x EXCEPT !.step = s] EXCEPT !.list = l]
      OBVIOUS
    <2>2. [Call(s, x.class, x.kubelet, x.request, x.list, x.pick) EXCEPT !.list = l]
            = Call(s, x.class, x.kubelet, x.request, l, x.pick)
      BY DEF Call
    <2> QED
      BY <1>2, <2>1, <2>2
  <1>5. /\ x.step \in Steps /\ CacheKey(x.class, x.kubelet) \in Keys /\ x.request \in Requests
        /\ IsTypeList(x.list) /\ x.pick \in Plans \cup {None}
    BY DEF CallTypeOK
  <1>6. ASSUME NEW s1 \in Steps, NEW l1, IsTypeList(l1)
        PROVE  CallTypeOK(Call(s1, x.class, x.kubelet, x.request, l1, x.pick))
    BY <1>5, <1>6 DEF CallTypeOK, Call
  <1> QED
    BY <1>2, <1>3, <1>4, <1>5, <1>6

LEMMA CallPicked ==
    ASSUME NEW x, CallTypeOK(x), NEW s \in Steps, NEW l, IsTypeList(l), NEW p \in Plans \cup {None}
    PROVE  LET y == Call(s, x.class, x.kubelet, x.request, l, p) IN
           [x EXCEPT !.step = s, !.list = l, !.pick = p] = y /\ CallTypeOK(y)
  <1>1. [x EXCEPT !.step = s, !.list = l, !.pick = p] = [[x EXCEPT !.step = s, !.list = l] EXCEPT !.pick = p]
    OBVIOUS
  <1>2. [x EXCEPT !.step = s, !.list = l] = Call(s, x.class, x.kubelet, x.request, l, x.pick)
    BY CallUpdated
  <1>3. [Call(s, x.class, x.kubelet, x.request, l, x.pick) EXCEPT !.pick = p]
          = Call(s, x.class, x.kubelet, x.request, l, p)
    BY DEF Call
  <1>4. CallTypeOK(Call(s, x.class, x.kubelet, x.request, l, p))
    BY DEF CallTypeOK, Call
  <1> QED
    BY <1>1, <1>2, <1>3, <1>4

(* A new launch. *)
LEMMA CallStarted ==
    ASSUME TypeOK, NEW c \in Classes, NEW q \in Requests
    PROVE  /\ CallTypeOK(NewCall(c, q))
           /\ NewCall(c, q).step = "lookup" /\ NewCall(c, q).list = NoReport
  <1>1. CacheKey(c, kubelet[c]) \in Keys
    BY InstanceTypesAssumption DEF TypeOK, CacheKey, Keys
  <1> QED
    BY <1>1, NoReportTyped DEF NewCall, CallTypeOK, Steps

(* The list of a launch grows by the type of one plan. *)
LEMMA BuiltList ==
    ASSUME NEW l, IsTypeList(l), NEW t \in Plans, NEW type \in InstanceTypeRecords
    PROVE  LET m == [u \in DOMAIN l \cup {t} |-> IF u = t THEN type ELSE l[u]] IN
           /\ IsTypeList(m)
           /\ DOMAIN m = DOMAIN l \cup {t}
           /\ m[t] = type
           /\ \A u \in DOMAIN l \ {t} : m[u] = l[u]
  BY DEF IsTypeList, IsPartial

(* The plans the provider knows. *)
LEMMA InfoTyped ==
    ASSUME TypeOK
    PROVE  DOMAIN info \subseteq Plans /\ DOMAIN info # {} /\ \A t \in DOMAIN info : info[t] \in PlanRecords
  BY InstanceTypesAssumption DEF TypeOK

(* The type that a step of a launch builds. *)
LEMMA BuiltType ==
    ASSUME TypeOK, NEW r \in Callers, call[r] # None, NEW t \in DOMAIN info
    PROVE  [plan |-> info[t], kubelet |-> call[r].kubelet,
            capacity |-> Discounted(info[t], discovered[t])] \in InstanceTypeRecords
  <1>1. CallTypeOK(call[r])
    BY DEF TypeOK
  <1>2. call[r].kubelet \in Settings
    BY <1>1 DEF CallTypeOK, CacheKey, Keys
  <1>3. info[t] \in PlanRecords /\ t \in Plans
    BY InfoTyped
  <1>4. Discounted(info[t], discovered[t]) \in [Kinds -> Int]
    BY <1>3, DiscountedTyped DEF TypeOK
  <1> QED
    BY <1>2, <1>3, <1>4 DEF InstanceTypeRecords

(* A step of launch r sets its step and its list. *)
Advances(r, s, l) ==
    /\ call[r] # None
    /\ DOMAIN call' = Callers /\ \A q \in Callers \ {r} : call'[q] = call[q]
    /\ CallTypeOK(call'[r])
    /\ call'[r].step = s /\ call'[r].list = l
    /\ call'[r].class = call[r].class /\ call'[r].kubelet = call[r].kubelet

LEMMA CallAdvances ==
    ASSUME TypeOK, NEW r \in Callers, call[r] # None,
           NEW s \in Steps, NEW l, IsTypeList(l), NEW p \in Plans \cup {None},
           call' = [call EXCEPT ![r] = Call(s, call[r].class, call[r].kubelet, call[r].request, l, p)],
           CallTypeOK(Call(s, call[r].class, call[r].kubelet, call[r].request, l, p))
    PROVE  Advances(r, s, l)
  <1> DEFINE y == Call(s, call[r].class, call[r].kubelet, call[r].request, l, p)
  <1>1. DOMAIN call = Callers
    BY DEF TypeOK
  <1>2. /\ y.step = s /\ y.list = l
        /\ y.class = call[r].class /\ y.kubelet = call[r].kubelet
    BY DEF Call
  <1> HIDE DEF y
  <1>3. DOMAIN call' = Callers /\ call'[r] = y /\ \A q \in Callers \ {r} : call'[q] = call[q]
    BY <1>1 DEF y
  <1>4. CallTypeOK(y)
    BY DEF y
  <1> QED
    BY <1>2, <1>3, <1>4 DEF Advances

LEMMA LookupEffect ==
    ASSUME TypeOK, NEW r \in Callers, Lookup(r)
    PROVE  LET cached == types[KeyOf(r)] IN
           Advances(r, IF cached # None THEN "inject" ELSE "build",
                       IF cached # None THEN cached ELSE call[r].list)
  <1> DEFINE cached == types[KeyOf(r)]
             s == IF cached # None THEN "inject" ELSE "build"
             l == IF cached # None THEN cached ELSE call[r].list
  <1>1. CallTypeOK(call[r]) /\ KeyOf(r) \in Keys
    BY DEF TypeOK, Lookup, CallTypeOK, KeyOf
  <1>2. IsTypeList(l) /\ s \in Steps
    BY <1>1 DEF TypeOK, CallTypeOK, Steps
  <1>3. call[r].pick \in Plans \cup {None}
    BY <1>1 DEF CallTypeOK
  <1>4. call' = [call EXCEPT ![r] = [call[r] EXCEPT !.step = s, !.list = l]]
    BY <1>1 DEF Lookup, CallTypeOK
  <1> HIDE DEF s, l
  <1>5. call' = [call EXCEPT ![r] = Call(s, call[r].class, call[r].kubelet, call[r].request, l, call[r].pick)]
    BY <1>1, <1>2, <1>4, CallUpdated
  <1>6. CallTypeOK(Call(s, call[r].class, call[r].kubelet, call[r].request, l, call[r].pick))
    BY <1>1, <1>2, CallUpdated
  <1>7. Advances(r, s, l)
    BY <1>2, <1>3, <1>5, <1>6, CallAdvances DEF Lookup
  <1> QED
    BY <1>7 DEF s, l

LEMMA BuildEffect ==
    ASSUME TypeOK, NEW r \in Callers, NEW t \in Plans, Build(r, t)
    PROVE  LET type == [plan |-> info[t], kubelet |-> call[r].kubelet,
                        capacity |-> Discounted(info[t], discovered[t])]
               l == call'[r].list IN
           /\ call[r].step = "build" /\ Advances(r, "build", l)
           /\ t \in DOMAIN info \ DOMAIN call[r].list
           /\ DOMAIN l = DOMAIN call[r].list \cup {t}
           /\ l[t] = type
           /\ \A u \in DOMAIN call[r].list : l[u] = call[r].list[u]
  <1> DEFINE type == [plan |-> info[t], kubelet |-> call[r].kubelet,
                      capacity |-> Discounted(info[t], discovered[t])]
             old == call[r].list
             l == [u \in DOMAIN old \cup {t} |-> IF u = t THEN type ELSE old[u]]
  <1>1. /\ call[r] # None /\ call[r].step = "build"
        /\ t \in DOMAIN info \ DOMAIN old
        /\ call' = [call EXCEPT ![r].list = l]
    BY DEF Build
  <1>2. CallTypeOK(call[r]) /\ IsTypeList(old) /\ call[r].pick \in Plans \cup {None}
    BY <1>1 DEF TypeOK, CallTypeOK
  <1>3. type \in InstanceTypeRecords
    BY <1>1, BuiltType
  <1> HIDE DEF type
  <1>4. /\ IsTypeList(l)
        /\ DOMAIN l = DOMAIN old \cup {t}
        /\ l[t] = type
        /\ \A u \in DOMAIN old \ {t} : l[u] = old[u]
    BY <1>2, <1>3, BuiltList
  <1> HIDE DEF l
  <1>5. call' = [call EXCEPT ![r] = [call[r] EXCEPT !.list = l]]
    BY <1>1
  <1>6. "build" \in Steps
    BY DEF Steps
  <1>7. /\ [call[r] EXCEPT !.list = l]
             = Call("build", call[r].class, call[r].kubelet, call[r].request, l, call[r].pick)
        /\ CallTypeOK(Call("build", call[r].class, call[r].kubelet, call[r].request, l, call[r].pick))
    BY <1>1, <1>2, <1>4, <1>6, CallUpdated
  <1>8. Advances(r, "build", l)
    BY <1>1, <1>2, <1>4, <1>5, <1>6, <1>7, CallAdvances
  <1>9. call'[r].list = l
    BY <1>8 DEF Advances
  <1> QED
    BY <1>1, <1>4, <1>8, <1>9 DEF type

LEMMA FillEffect ==
    ASSUME TypeOK, NEW r \in Callers, Fill(r)
    PROVE  Advances(r, "inject", call[r].list)
  <1>1. call[r] # None /\ call' = [call EXCEPT ![r] = [call[r] EXCEPT !.step = "inject"]]
    BY DEF Fill
  <1>2. CallTypeOK(call[r]) /\ IsTypeList(call[r].list) /\ call[r].pick \in Plans \cup {None}
    BY <1>1 DEF TypeOK, CallTypeOK
  <1>3. "inject" \in Steps
    BY DEF Steps
  <1> DEFINE y == Call("inject", call[r].class, call[r].kubelet, call[r].request, call[r].list, call[r].pick)
  <1>4. [call[r] EXCEPT !.step = "inject"] = y /\ CallTypeOK(y)
    BY <1>2, <1>3, CallUpdated
  <1> QED
    BY <1>1, <1>2, <1>3, <1>4, CallAdvances

(* The type a launch picks is one it may have. *)
LEMMA InjectEffect ==
    ASSUME TypeOK, NEW r \in Callers, Inject(r)
    PROVE  Advances(r, "done", NoReport)
  <1>1. /\ call[r] # None
        /\ \E t \in Cheapest(call[r].list, call[r].request, Priced(call[r].list)) :
             call' = [call EXCEPT ![r].step = "done", ![r].list = NoReport, ![r].pick = t]
    BY DEF Inject
  <1>2. CallTypeOK(call[r]) /\ DOMAIN call[r].list \subseteq Plans
    BY <1>1 DEF TypeOK, CallTypeOK, IsTypeList, IsPartial
  <1>3. PICK t \in Cheapest(call[r].list, call[r].request, Priced(call[r].list)) :
             call' = [call EXCEPT ![r].step = "done", ![r].list = NoReport, ![r].pick = t]
    BY <1>1
  <1>4. t \in Plans \cup {None}
    BY <1>2, <1>3 DEF Cheapest, Fitting
  <1>5. call' = [call EXCEPT ![r] = [call[r] EXCEPT !.step = "done", !.list = NoReport, !.pick = t]]
    BY <1>3
  <1>6. "done" \in Steps /\ IsTypeList(NoReport)
    BY NoReportTyped DEF Steps
  <1> DEFINE y == Call("done", call[r].class, call[r].kubelet, call[r].request, NoReport, t)
  <1>7. [call[r] EXCEPT !.step = "done", !.list = NoReport, !.pick = t] = y /\ CallTypeOK(y)
    BY <1>2, <1>4, <1>6, CallPicked
  <1> QED
    BY <1>1, <1>4, <1>5, <1>6, <1>7, CallAdvances

-----------------------------------------------------------------------------
(* Types *)

(* A step of a launch keeps the types of the launches. *)
LEMMA CallsTyped ==
    ASSUME TypeOK, NEW r \in Callers, NEW s, NEW l, Advances(r, s, l)
    PROVE  DOMAIN call' = Callers /\ \A q \in Callers : call'[q] # None => CallTypeOK(call'[q])
  BY DEF TypeOK, Advances

(* The list of a launch has types of the known plans, which have prices. *)
LEMMA PricedTyped ==
    ASSUME TypeOK, MadeInv, NEW r \in Callers, call[r] # None, call[r].step = "inject"
    PROVE  Priced(call[r].list) \in [Plans -> Nat \cup {None}]
  <1>1. \A t \in DOMAIN call[r].list : info[t].price \in Nat
    BY InfoTyped DEF MadeInv, CallMade, PlanRecords
  <1> QED
    BY <1>1 DEF Priced, TypeOK

LEMMA InitTyped == Init => TypeOK
  <1> SUFFICES ASSUME Init PROVE TypeOK
    OBVIOUS
  <1>1. plans \in Catalogues /\ info \in Catalogues
    BY InstanceTypesAssumption DEF Init
  <1>2. DOMAIN kubelet = Classes /\ \A c \in Classes : kubelet[c] \in SettingsOf[c]
    BY DEF Init
  <1>3. node \in [Nodes -> {"new", "registered", "gone"}] /\ queue \subseteq Nodes
    BY DEF Init
  <1>4. DOMAIN types = Keys /\ \A k \in Keys : types[k] # None => IsTypeList(types[k])
    BY DEF Init
  <1>5. DOMAIN discovered = Plans /\ \A t \in Plans : IsReport(discovered[t])
    BY NoReportTyped DEF Init
  <1>6. offer \in [Plans -> Nat \cup {None}]
    BY DEF Init
  <1>7. update = NoUpdate /\ DOMAIN call = Callers /\ \A r \in Callers : call[r] = None
    BY DEF Init
  <1>8. /\ events \in 0..MaxEvents /\ doubt \subseteq Keys
        /\ observed \subseteq Nodes /\ lapsed \subseteq Nodes /\ missed \subseteq Nodes
    BY InstanceTypesAssumption DEF Init
  <1> QED
    BY <1>1, <1>2, <1>3, <1>4, <1>5, <1>6, <1>7, <1>8 DEF TypeOK

(* The world and the expirations. *)
LEMMA WorldTyped ==
    ASSUME TypeOK,
           \/ \E cat \in Catalogues : ChangePlans(cat)
           \/ \E c \in Classes, k \in Settings : ChangeKubelet(c, k)
           \/ \E n \in Nodes : Register(n) \/ Remove(n) \/ MissNode(n)
           \/ Restart
           \/ UpdateInstanceTypes \/ UpdateInstanceTypeOfferings
           \/ \E k \in Keys : TypesExpire(k)
           \/ \E t \in Plans : OfferDropped(t) \/ CapacityExpires(t)
           \/ UNCHANGED vars
    PROVE  TypeOK'
  <1> USE DEF world, provider, ghosts, Event, Cleared
  <1> USE InstanceTypesAssumption, NoReportTyped
  <1>1. ASSUME NEW cat \in Catalogues, ChangePlans(cat) PROVE TypeOK'
    BY <1>1 DEF ChangePlans, TypeOK
  <1>2. ASSUME NEW c \in Classes, NEW k \in Settings, ChangeKubelet(c, k) PROVE TypeOK'
    BY <1>2 DEF ChangeKubelet, TypeOK
  <1>3. ASSUME NEW n \in Nodes, Register(n) \/ Remove(n) PROVE TypeOK'
    <2>1. /\ UNCHANGED <<plans, kubelet, info, types, discovered, offer, update, call, ghosts>>
          /\ events' = events \/ (events > 0 /\ events' = events - 1)
      BY <1>3 DEF Register, Remove
    <2>2. node' \in [Nodes -> {"new", "registered", "gone"}] /\ queue' \subseteq Nodes
      BY <1>3 DEF Register, Remove, TypeOK
    <2>3. events' \in 0..MaxEvents
      BY <2>1 DEF TypeOK
    <2> QED
      BY <2>1, <2>2, <2>3 DEF TypeOK
  <1>4. CASE Restart
    BY <1>4 DEF Restart, TypeOK
  <1>5. CASE UpdateInstanceTypes \/ UpdateInstanceTypeOfferings
    BY <1>5 DEF UpdateInstanceTypes, UpdateInstanceTypeOfferings, TypeOK
  <1>6. ASSUME NEW k \in Keys, TypesExpire(k) PROVE TypeOK'
    BY <1>6 DEF TypesExpire, TypeOK
  <1>7. ASSUME NEW t \in Plans, OfferDropped(t) PROVE TypeOK'
    BY <1>7 DEF OfferDropped, TypeOK
  <1>8. ASSUME NEW t \in Plans, CapacityExpires(t) PROVE TypeOK'
    BY <1>8 DEF CapacityExpires, TypeOK
  <1>9. CASE UNCHANGED vars
    BY <1>9 DEF vars, TypeOK
  <1>10. ASSUME NEW n \in Nodes, MissNode(n) PROVE TypeOK'
    BY <1>10 DEF MissNode, TypeOK
  <1> QED
    BY <1>1, <1>2, <1>3, <1>4, <1>5, <1>6, <1>7, <1>8, <1>9, <1>10

(* The capacity controller. *)
LEMMA CapacityTyped ==
    ASSUME TypeOK, CapacityStep
    PROVE  TypeOK'
  <1> USE DEF world, provider, ghosts
  <1>1. ASSUME NEW n \in Nodes, ReconcileNode(n) PROVE TypeOK'
    BY <1>1, InstanceTypesAssumption DEF ReconcileNode, TypeOK, UpdateTypeOK, CacheKey, Keys
  <1>2. CASE SetDiscovered
    <2>1. update.step = "set" /\ UpdateTypeOK(update)
      BY <1>2 DEF SetDiscovered, NoUpdate, TypeOK
    <2>2. IsReport(Lowered(update.cached, ReportOf[update.node])) /\ PlanOf[update.node] \in Plans
      BY <2>1, LoweredTyped, InstanceTypesAssumption DEF UpdateTypeOK
    <2> QED
      BY <1>2, <2>1, <2>2 DEF SetDiscovered, TypeOK, UpdateTypeOK
  <1>3. CASE DropTypes
    BY <1>3 DEF DropTypes, TypeOK, UpdateTypeOK
  <1> QED
    BY <1>1, <1>2, <1>3 DEF CapacityStep

(* The launches. *)
LEMMA LaunchTyped ==
    ASSUME TypeOK, MadeInv, NEW r \in Callers,
           (\E c \in Classes, q \in Requests : StartList(r, c, q)) \/ ListStep(r) \/ EndLaunch(r)
    PROVE  TypeOK'
  <1> USE DEF world, provider, ghosts
  <1>1. ASSUME NEW c \in Classes, NEW q \in Requests, StartList(r, c, q) PROVE TypeOK'
    BY <1>1, CallStarted DEF StartList, TypeOK
  <1>2. CASE Lookup(r)
    BY <1>2, LookupEffect, CallsTyped DEF Lookup, TypeOK
  <1>3. ASSUME NEW t \in Plans, Build(r, t) PROVE TypeOK'
    BY <1>3, BuildEffect, CallsTyped DEF Build, TypeOK
  <1>4. CASE Fill(r)
    <2>1. KeyOf(r) \in Keys /\ IsTypeList(call[r].list)
      BY <1>4 DEF Fill, TypeOK, CallTypeOK, KeyOf
    <2> QED
      BY <1>4, <2>1, FillEffect, CallsTyped DEF Fill, TypeOK
  <1>5. CASE Inject(r)
    <2>1. offer' \in [Plans -> Nat \cup {None}]
      BY <1>5, PricedTyped DEF Inject
    <2> QED
      BY <1>5, <2>1, InjectEffect, CallsTyped DEF Inject, TypeOK
  <1>6. CASE EndLaunch(r)
    BY <1>6 DEF EndLaunch, TypeOK
  <1> QED
    BY <1>1, <1>2, <1>3, <1>4, <1>5, <1>6 DEF ListStep

LEMMA TypeStep ==
    ASSUME TypeOK, MadeInv, [Next]_vars
    PROVE  TypeOK'
  BY WorldTyped, CapacityTyped, LaunchTyped DEF Next

-----------------------------------------------------------------------------
(* What lists are made from *)

(* The plans only change when no List runs and with the cached types. *)
LEMMA MadeStep ==
    ASSUME TypeOK, MadeInv, [Next]_vars
    PROVE  MadeInv'
  <1> USE DEF world, provider, ghosts, MadeInv
  <1>1. ASSUME UNCHANGED info, \A k \in Keys : types'[k] \in {types[k], None},
               \A r \in Callers : call'[r] \in {call[r], None}
        PROVE  MadeInv'
    BY <1>1 DEF CallMade, Made
  <1>2. CASE UNCHANGED <<info, types, call>>
    BY <1>2 DEF CallMade, Made
  <1>3. CASE Restart
    BY <1>3 DEF Restart, CallMade
  <1>4. CASE UpdateInstanceTypes
    <2>1. ASSUME NEW r \in Callers PROVE CallMade(r)'
      BY <1>4 DEF UpdateInstanceTypes, Unlocked, Listing, CallMade
    <2> QED
      BY <1>4, <2>1 DEF UpdateInstanceTypes
  <1>5. ASSUME NEW k \in Keys, TypesExpire(k) PROVE MadeInv'
    BY <1>1, <1>5 DEF TypesExpire, TypeOK
  <1>6. CASE UpdateInstanceTypeOfferings
    BY <1>1, <1>6 DEF UpdateInstanceTypeOfferings
  <1>7. CASE DropTypes
    BY <1>1, <1>7 DEF DropTypes, TypeOK
  <1>8. ASSUME NEW r \in Callers, NEW c \in Classes, NEW q \in Requests, StartList(r, c, q) PROVE MadeInv'
    <2>1. UNCHANGED <<info, types>> /\ \A p \in Callers \ {r} : call'[p] = call[p]
      BY <1>8 DEF StartList, TypeOK
    <2>2. call'[r] = NewCall(c, q)
      BY <1>8 DEF StartList, TypeOK
    <2>3. CallMade(r)'
      BY <2>2, CallStarted DEF CallMade
    <2> QED
      BY <2>1, <2>3 DEF CallMade, Made
  <1>9. ASSUME NEW r \in Callers, ListStep(r) PROVE MadeInv'
    <2> DEFINE Others == \A p \in Callers \ {r} : call'[p] = call[p]
               CachedMade == \A k \in Keys : types[k] # None =>
                                DOMAIN types[k] = DOMAIN info /\ Made(types[k], k[2])
    <2>1. UNCHANGED info /\ Others /\ CallMade(r)' /\ CachedMade' => MadeInv'
      BY DEF CallMade, Made
    <2>2. UNCHANGED <<info, types>> => CachedMade'
      BY DEF Made
    <2>3. CASE Lookup(r)
      <3>1. KeyOf(r) \in Keys /\ KeyOf(r)[2] = call[r].kubelet
        BY <2>3 DEF Lookup, TypeOK, CallTypeOK, KeyOf, CacheKey
      <3>2. UNCHANGED <<info, types>> /\ Others /\ call[r].step = "lookup" /\ call[r] # None
        BY <2>3, LookupEffect DEF Lookup, Advances
      <3>3. CASE types[KeyOf(r)] # None
        <4>1. CallMade(r)'
          BY <2>3, <3>1, <3>2, <3>3, LookupEffect DEF Advances, CallMade, Made
        <4> QED
          BY <2>1, <2>2, <3>2, <4>1
      <3>4. CASE types[KeyOf(r)] = None
        <4>1. call'[r].list = NoReport /\ call'[r].step = "build"
          BY <2>3, <3>2, <3>4, LookupEffect DEF Advances, CallMade
        <4>2. CallMade(r)'
          BY <3>2, <4>1, NoReportTyped DEF CallMade, Made
        <4> QED
          BY <2>1, <2>2, <3>2, <4>2
      <3> QED
        BY <3>3, <3>4
    <2>4. ASSUME NEW t \in Plans, Build(r, t) PROVE MadeInv'
      <3> DEFINE old == call[r].list
                 new == call'[r].list
      <3>1. UNCHANGED <<info, types>>
        BY <2>4 DEF Build
      <3>2. /\ call[r].step = "build" /\ Advances(r, "build", new)
            /\ t \in DOMAIN info \ DOMAIN old
            /\ DOMAIN new = DOMAIN old \cup {t}
            /\ new[t] = [plan |-> info[t], kubelet |-> call[r].kubelet,
                         capacity |-> Discounted(info[t], discovered[t])]
            /\ \A u \in DOMAIN old : new[u] = old[u]
        BY <2>4, BuildEffect
      <3>3. /\ Others /\ call[r] # None /\ call'[r].step = "build"
            /\ call'[r].kubelet = call[r].kubelet
        BY <3>2 DEF Advances
      <3>4. DOMAIN old \subseteq DOMAIN info /\ Made(old, call[r].kubelet)
        BY <3>2, <3>3 DEF CallMade
      <3>5. CallMade(r)'
        <4>1. new[t].plan = info[t] /\ new[t].kubelet = call[r].kubelet
          BY <3>2
        <4> QED
          BY <3>1, <3>2, <3>3, <3>4, <4>1 DEF CallMade, Made
      <3> QED
        BY <2>1, <2>2, <3>1, <3>3, <3>5
    <2>5. CASE Fill(r)
      <3>1. KeyOf(r) \in Keys /\ KeyOf(r)[2] = call[r].kubelet
        BY <2>5 DEF Fill, TypeOK, CallTypeOK, KeyOf, CacheKey
      <3>2. /\ UNCHANGED info /\ Others
            /\ call[r] # None /\ call[r].step = "build" /\ DOMAIN call[r].list = DOMAIN info
            /\ call'[r].list = call[r].list /\ call'[r].kubelet = call[r].kubelet
            /\ call'[r].step = "inject"
        BY <2>5, FillEffect DEF Fill, Advances
      <3>3. Made(call[r].list, call[r].kubelet)
        BY <3>2 DEF CallMade
      <3>4. CallMade(r)'
        BY <3>2, <3>3 DEF CallMade, Made
      <3>5. \A k \in Keys : types'[k] = IF k = KeyOf(r) THEN call[r].list ELSE types[k]
        BY <2>5 DEF Fill, TypeOK
      <3>6. CachedMade'
        BY <3>1, <3>2, <3>3, <3>5 DEF Made
      <3> QED
        BY <2>1, <3>2, <3>4, <3>6
    <2>6. CASE Inject(r)
      <3>1. UNCHANGED <<info, types>>
        BY <2>6 DEF Inject
      <3>2. Others /\ call'[r].step = "done"
        BY <2>6, InjectEffect DEF Advances
      <3>3. CallMade(r)'
        BY <3>2 DEF CallMade
      <3> QED
        BY <2>1, <2>2, <3>1, <3>2, <3>3
    <2> QED
      BY <1>9, <2>3, <2>4, <2>5, <2>6 DEF ListStep
  <1>10. ASSUME NEW r \in Callers, EndLaunch(r) PROVE MadeInv'
    BY <1>1, <1>10 DEF EndLaunch, TypeOK
  <1>11. \/ \E cat \in Catalogues : ChangePlans(cat)
         \/ \E c \in Classes, k \in Settings : ChangeKubelet(c, k)
         \/ \E n \in Nodes : Register(n) \/ Remove(n) \/ MissNode(n)
         \/ \E t \in Plans : OfferDropped(t) \/ CapacityExpires(t)
         \/ \E n \in Nodes : ReconcileNode(n)
         \/ SetDiscovered
         \/ UNCHANGED vars
         => UNCHANGED <<info, types, call>>
    BY DEF ChangePlans, ChangeKubelet, Register, Remove, MissNode, OfferDropped, CapacityExpires,
           ReconcileNode, SetDiscovered, vars
  <1> QED
    BY <1>2, <1>3, <1>4, <1>5, <1>6, <1>7, <1>8, <1>9, <1>10, <1>11 DEF Next, CapacityStep

-----------------------------------------------------------------------------
(* What an entry of the discovered capacity is the least of *)

LEMMA NoneLeast == IsLeast(NoReport, {})
  BY NoReportTyped DEF IsLeast

(* The fields of the running update, and of the one that has written. *)
LEMMA UpdateTyped ==
    ASSUME TypeOK, update # NoUpdate
    PROVE  /\ update.node \in Nodes /\ PlanOf[update.node] \in Plans
           /\ IsReport(update.cached) /\ IsReport(ReportOf[update.node])
           /\ update.step \in {"set", "drop"} /\ update.basis \in SUBSET Nodes
           /\ LET u == [update EXCEPT !.step = "drop"] IN
              /\ u.step = "drop" /\ u.node = update.node /\ u.cached = update.cached
              /\ u.basis = update.basis /\ u.key = update.key
              /\ u # NoUpdate
  <1>1. UpdateTypeOK(update)
    BY DEF TypeOK
  <1>2. update.node \in Nodes /\ IsReport(update.cached)
        /\ update.step \in {"set", "drop"} /\ update.basis \in SUBSET Nodes
    BY <1>1 DEF UpdateTypeOK
  <1> DEFINE u == [update EXCEPT !.step = "drop"]
  <1>3. u = [node |-> update.node, cached |-> update.cached, step |-> "drop",
             basis |-> update.basis, key |-> update.key]
    BY <1>1 DEF UpdateTypeOK
  <1>4. /\ u.step = "drop" /\ u.node = update.node /\ u.cached = update.cached
        /\ u.basis = update.basis /\ u.key = update.key
    BY <1>3
  <1>5. u # NoUpdate
    BY <1>4 DEF NoUpdate
  <1> HIDE DEF u
  <1>6. PlanOf[update.node] \in Plans /\ IsReport(ReportOf[update.node])
    BY <1>2, InstanceTypesAssumption
  <1> QED
    BY <1>2, <1>4, <1>5, <1>6 DEF u

(* The update writes the least of what it read and of its worker's report; *)
(* if it does not write, its worker's report is not below the entry.       *)
LEMMA SetEffect ==
    ASSUME TypeOK, LeastInv, UpdateInv, SetDiscovered
    PROVE  /\ LeastInv'
           /\ update.node \in observed' \cup lapsed'
           /\ update'.step = "drop" => update.node \in observed'
           /\ observed \cup lapsed \subseteq observed' \cup lapsed'
  <1>1. update # NoUpdate /\ update.step = "set"
    BY DEF SetDiscovered, NoUpdate
  <1>2. PICK n \in Nodes, t \in Plans : n = update.node /\ t = PlanOf[n]
    BY <1>1, UpdateTyped
  <1> DEFINE merged == Lowered(update.cached, ReportOf[n])
  <1>3. /\ n \in Nodes /\ t \in Plans /\ IsReport(update.cached) /\ IsReport(ReportOf[n])
        /\ update.basis \in SUBSET Nodes
    BY <1>1, <1>2, UpdateTyped
  <1>4. /\ IsLeast(update.cached, update.basis)
        /\ update.basis \subseteq {m \in Nodes : PlanOf[m] = t}
        /\ \/ discovered[t] = update.cached /\ Observed(t) = update.basis
           \/ discovered[t] = NoReport /\ Observed(t) = {}
    BY <1>1, <1>2 DEF UpdateInv
  <1>5. IsLeast(merged, update.basis \cup {n})
    BY <1>3, <1>4, LoweredLeast
  <1>6. DOMAIN discovered = Plans /\ observed \subseteq Nodes
    BY DEF TypeOK
  <1>7. CASE Refreshes(update)
    <2>1. /\ discovered' = [discovered EXCEPT ![t] = merged]
          /\ observed' = {m \in observed : PlanOf[m] # t} \cup update.basis \cup {n}
          /\ UNCHANGED lapsed
      BY <1>7, <1>2 DEF SetDiscovered
    <2> HIDE DEF merged
    <2>2. Observed(t)' = update.basis \cup {n}
      BY <1>2, <1>3, <1>4, <1>6, <2>1 DEF Observed
    <2>3. \A q \in Plans \ {t} : Observed(q)' = Observed(q) /\ discovered'[q] = discovered[q]
      BY <1>2, <1>3, <1>4, <1>6, <2>1 DEF Observed
    <2>4. discovered'[t] = merged
      BY <1>3, <1>6, <2>1
    <2>5. LeastInv'
      BY <1>5, <2>2, <2>3, <2>4 DEF LeastInv
    <2>6. observed \subseteq observed' /\ n \in observed'
      BY <1>4, <2>1 DEF Observed
    <2> QED
      BY <1>2, <2>1, <2>5, <2>6
  <1>8. CASE ~Refreshes(update)
    <2>1. merged = update.cached
      BY <1>2, <1>3, <1>8, LoweredUnchanged DEF Refreshes
    <2>2. update' = NoUpdate /\ UNCHANGED discovered
      BY <1>2, <1>8, <2>1 DEF SetDiscovered
    <2>3. update'.step # "drop"
      BY <2>2 DEF NoUpdate
    <2>4. CASE discovered[t] = NoReport
      <3>1. lapsed' = lapsed \cup {n} /\ UNCHANGED observed
        BY <1>2, <1>8, <2>4 DEF SetDiscovered
      <3> QED
        BY <1>2, <2>2, <2>3, <3>1 DEF LeastInv, Observed
    <2>5. CASE discovered[t] # NoReport
      <3>1. observed' = observed \cup {n} /\ UNCHANGED lapsed
        BY <1>2, <1>8, <2>5 DEF SetDiscovered
      <3>2. discovered[t] = update.cached /\ Observed(t) = update.basis
        BY <1>4, <2>5
      <3>3. Observed(t)' = update.basis \cup {n}
        BY <1>2, <3>1, <3>2 DEF Observed
      <3>4. \A q \in Plans \ {t} : Observed(q)' = Observed(q)
        BY <1>2, <3>1 DEF Observed
      <3>5. LeastInv'
        BY <1>5, <2>1, <2>2, <3>2, <3>3, <3>4 DEF LeastInv
      <3> QED
        BY <1>2, <2>3, <3>1, <3>5
    <2> QED
      BY <2>4, <2>5
  <1> QED
    BY <1>7, <1>8

LEMMA ReportStep ==
    ASSUME TypeOK, LeastInv, UpdateInv, [Next]_vars
    PROVE  LeastInv' /\ UpdateInv'
  <1> USE DEF world, provider, ghosts
  <1>1. CASE UNCHANGED <<discovered, observed, lapsed, update>>
    BY <1>1 DEF LeastInv, UpdateInv, Observed
  <1>2. CASE Restart
    <2>1. update' = NoUpdate /\ observed' = {} /\ \A t \in Plans : discovered'[t] = NoReport
      BY <1>2 DEF Restart
    <2>2. \A t \in Plans : Observed(t)' = {}
      BY <2>1 DEF Observed
    <2> QED
      BY <2>1, <2>2, NoneLeast DEF LeastInv, UpdateInv
  <1>3. ASSUME NEW t \in Plans, CapacityExpires(t) PROVE LeastInv' /\ UpdateInv'
    <2>1. /\ discovered' = [discovered EXCEPT ![t] = NoReport]
          /\ observed' = {n \in observed : PlanOf[n] # t}
          /\ observed \cup lapsed = observed' \cup lapsed' /\ UNCHANGED update
      BY <1>3 DEF CapacityExpires
    <2>2. Observed(t)' = {} /\ discovered'[t] = NoReport
      BY <2>1 DEF Observed, TypeOK
    <2>3. \A q \in Plans \ {t} : Observed(q)' = Observed(q) /\ discovered'[q] = discovered[q]
      BY <2>1 DEF Observed, TypeOK
    <2>4. LeastInv'
      BY <2>2, <2>3, NoneLeast DEF LeastInv
    <2>5. UpdateInv'
      <3>1. CASE update # NoUpdate
        <4>1. PlanOf[update.node] \in Plans
          BY <3>1, UpdateTyped
        <4> QED
          BY <2>1, <2>2, <2>3, <3>1, <4>1 DEF UpdateInv
      <3> QED
        BY <2>1, <3>1 DEF UpdateInv
    <2> QED
      BY <2>4, <2>5
  <1>4. ASSUME NEW n \in Nodes, ReconcileNode(n) PROVE LeastInv' /\ UpdateInv'
    <2>1. UNCHANGED <<discovered, observed, lapsed>>
      BY <1>4 DEF ReconcileNode
    <2>2. LeastInv'
      BY <2>1 DEF LeastInv, Observed
    <2>3. CASE ReportOf[n] = NoReport
      BY <1>4, <2>2, <2>3 DEF ReconcileNode, UpdateInv
    <2>4. CASE ReportOf[n] # NoReport
      <3>1. /\ update'.node = n /\ update'.cached = discovered[PlanOf[n]] /\ update'.step = "set"
            /\ update'.basis = Observed(PlanOf[n])
        BY <1>4, <2>4 DEF ReconcileNode, Observed
      <3>2. PlanOf[n] \in Plans /\ observed \subseteq Nodes
        BY InstanceTypesAssumption DEF TypeOK
      <3>3. IsLeast(update'.cached, update'.basis)
        BY <3>1, <3>2 DEF LeastInv
      <3>4. update'.basis \subseteq {m \in Nodes : PlanOf[m] = PlanOf[n]}
        BY <1>2, <3>1, <3>2 DEF Observed
      <3>5. Observed(PlanOf[n])' = Observed(PlanOf[n])
        BY <2>1 DEF Observed
      <3>6. UpdateInv'
        BY <2>1, <2>4, <3>1, <3>3, <3>4, <3>5 DEF UpdateInv
      <3> QED
        BY <2>2, <3>6
    <2> QED
      BY <2>3, <2>4
  <1>5. CASE SetDiscovered
    <2>1. LeastInv' /\ (update'.step = "drop" => update.node \in observed')
      BY <1>5, SetEffect
    <2>2. update # NoUpdate
      BY <1>5 DEF SetDiscovered, NoUpdate
    <2>3. update' \in {NoUpdate, [update EXCEPT !.step = "drop"]}
      BY <1>5 DEF SetDiscovered
    <2>4. CASE update' = [update EXCEPT !.step = "drop"]
      <3>1. /\ update'.step = "drop" /\ update'.node = update.node /\ update'.cached = update.cached
            /\ update'.basis = update.basis
        BY <2>2, <2>4, UpdateTyped
      <3> QED
        BY <2>1, <2>2, <3>1 DEF UpdateInv
    <2> QED
      BY <2>1, <2>3, <2>4 DEF UpdateInv
  <1>6. CASE DropTypes
    BY <1>6 DEF DropTypes, LeastInv, UpdateInv, Observed
  <1>7. \/ \E cat \in Catalogues : ChangePlans(cat)
        \/ \E c \in Classes, k \in Settings : ChangeKubelet(c, k)
        \/ \E n \in Nodes : Register(n) \/ Remove(n) \/ MissNode(n)
        \/ UpdateInstanceTypes \/ UpdateInstanceTypeOfferings
        \/ \E k \in Keys : TypesExpire(k)
        \/ \E t \in Plans : OfferDropped(t)
        \/ \E r \in Callers :
             \/ \E c \in Classes, q \in Requests : StartList(r, c, q)
             \/ ListStep(r) \/ EndLaunch(r)
        \/ UNCHANGED vars
        => UNCHANGED <<discovered, observed, lapsed, update>>
    BY DEF ChangePlans, ChangeKubelet, Register, Remove, MissNode, OfferDropped, UpdateInstanceTypes,
           UpdateInstanceTypeOfferings, TypesExpire, StartList, ListStep, EndLaunch, Lookup, Build, Fill,
           Inject, vars
  <1> QED
    BY <1>1, <1>2, <1>3, <1>4, <1>5, <1>6, <1>7 DEF Next, CapacityStep

(* No report is lost: what leaves the queue is in the update, what leaves  *)
(* the update is in the entry.                                             *)
LEMMA LostStep ==
    ASSUME TypeOK, LeastInv, UpdateInv, NoReportLost, [Next]_vars
    PROVE  NoReportLost'
  <1> USE DEF world, provider, ghosts
  <1>1. CASE UNCHANGED <<node, queue, observed, lapsed, missed, update>>
    BY <1>1 DEF NoReportLost
  <1>2. ASSUME NEW n \in Nodes, Register(n) \/ Remove(n) \/ MissNode(n) PROVE NoReportLost'
    BY <1>2 DEF Register, Remove, MissNode, NoReportLost, TypeOK
  <1>3. CASE Restart
    BY <1>3 DEF Restart, NoReportLost
  <1>4. ASSUME NEW t \in Plans, CapacityExpires(t) PROVE NoReportLost'
    BY <1>4 DEF CapacityExpires, NoReportLost
  <1>5. ASSUME NEW n \in Nodes, ReconcileNode(n) PROVE NoReportLost'
    <2>1. /\ update = NoUpdate /\ queue' = queue \ {n}
          /\ UNCHANGED <<node, observed, lapsed, missed>>
      BY <1>5 DEF ReconcileNode
    <2>2. ReportOf[n] # NoReport => update' # NoUpdate /\ update'.node = n
      BY <1>5 DEF ReconcileNode, NoUpdate
    <2> QED
      BY <2>1, <2>2 DEF NoReportLost
  <1>6. CASE SetDiscovered
    <2>1. UNCHANGED <<node, queue, missed>>
      BY <1>6 DEF SetDiscovered
    <2>2. update.node \in observed' \cup lapsed' /\ observed \cup lapsed \subseteq observed' \cup lapsed'
      BY <1>6, SetEffect
    <2> QED
      BY <2>1, <2>2 DEF NoReportLost
  <1>7. CASE DropTypes
    <2>1. update.step = "drop" /\ update # NoUpdate /\ UNCHANGED <<node, queue, observed, lapsed, missed>>
      BY <1>7 DEF DropTypes, NoUpdate
    <2>2. update.node \in observed \cup lapsed
      BY <2>1 DEF UpdateInv
    <2> QED
      BY <2>1, <2>2 DEF NoReportLost
  <1>8. \/ \E cat \in Catalogues : ChangePlans(cat)
        \/ \E c \in Classes, k \in Settings : ChangeKubelet(c, k)
        \/ UpdateInstanceTypes \/ UpdateInstanceTypeOfferings
        \/ \E k \in Keys : TypesExpire(k)
        \/ \E t \in Plans : OfferDropped(t)
        \/ \E r \in Callers :
             \/ \E c \in Classes, q \in Requests : StartList(r, c, q)
             \/ ListStep(r) \/ EndLaunch(r)
        \/ UNCHANGED vars
        => UNCHANGED <<node, queue, observed, lapsed, missed, update>>
    BY DEF ChangePlans, ChangeKubelet, OfferDropped, UpdateInstanceTypes,
           UpdateInstanceTypeOfferings, TypesExpire, StartList, ListStep, EndLaunch, Lookup, Build, Fill,
           Inject, vars
  <1> QED
    BY <1>1, <1>2, <1>3, <1>4, <1>5, <1>6, <1>7, <1>8 DEF Next, CapacityStep

-----------------------------------------------------------------------------
(* Cached types have the discovered capacity *)

(* A launch that has built a type is building for its key. *)
LEMMA BuildingKey ==
    ASSUME TypeOK, NEW r \in Callers, call[r] # None, call[r].step = "build", DOMAIN call[r].list # {}
    PROVE  KeyOf(r) \in Keys /\ Building(KeyOf(r))
  <1>1. call[r].list # NoReport
    BY NoReportTyped
  <1> QED
    BY <1>1 DEF Building, Listing, KeyOf, TypeOK, CallTypeOK

(* What is cached or being built may be anything when its key is in doubt. *)
LEMMA PassedBy ==
    ASSUME TypeOK, UNCHANGED call,
           \A k \in Keys \ doubt' : types'[k] = None, {k \in Keys : Building(k)} \subseteq doubt'
    PROVE  CachedTypesFresh' /\ BuiltFresh'
  <1>1. CachedTypesFresh'
    BY DEF CachedTypesFresh
  <1>2. ASSUME NEW r \in Callers, call[r] # None, call[r].step = "build", KeyOf(r) \notin doubt'
        PROVE  DOMAIN call[r].list = {}
    BY <1>2, BuildingKey
  <1>3. \A r \in Callers : KeyOf(r)' = KeyOf(r)
    BY DEF KeyOf
  <1> QED
    BY <1>1, <1>2, <1>3 DEF BuiltFresh

(* Entries that are dropped leave no doubt, but for the lists being built. *)
LEMMA ClearedKeeps ==
    ASSUME TypeOK, CachedTypesFresh, BuiltFresh, UNCHANGED <<discovered, update, call>>,
           NEW ks \in SUBSET Keys, doubt' = Cleared(ks),
           \A k \in ks : types'[k] = None, \A k \in Keys \ ks : types'[k] = types[k]
    PROVE  CachedTypesFresh' /\ BuiltFresh'
  <1>1. \A k \in Keys \ doubt' : types'[k] # None => k \notin doubt /\ types'[k] = types[k]
    BY DEF Cleared
  <1>2. CachedTypesFresh'
    BY <1>1 DEF CachedTypesFresh
  <1>3. ASSUME NEW r \in Callers, call[r] # None, call[r].step = "build", KeyOf(r) \notin doubt',
               DOMAIN call[r].list # {}
        PROVE  KeyOf(r) \notin doubt
    BY <1>3, BuildingKey DEF Cleared
  <1>4. \A r \in Callers : KeyOf(r)' = KeyOf(r)
    BY DEF KeyOf
  <1>5. BuiltFresh'
    BY <1>3, <1>4 DEF BuiltFresh, Fresh
  <1> QED
    BY <1>2, <1>5

(* A write of the entry puts keys in doubt only if nothing will drop types. *)
LEMMA FreshSet ==
    ASSUME TypeOK, UpdateInv, CachedTypesFresh, BuiltFresh, SetDiscovered
    PROVE  CachedTypesFresh' /\ BuiltFresh'
  <1>1. update # NoUpdate /\ update.step = "set" /\ UNCHANGED <<types, call>>
    BY DEF SetDiscovered, NoUpdate, provider
  <1>2. PICK n \in Nodes, t \in Plans : n = update.node /\ t = PlanOf[n]
    BY <1>1, UpdateTyped
  <1> DEFINE merged == Lowered(update.cached, ReportOf[n])
  <1>3. DOMAIN discovered = Plans
    BY DEF TypeOK
  <1>4. \A r \in Callers : KeyOf(r)' = KeyOf(r)
    BY <1>1 DEF KeyOf
  <1>5. ASSUME UNCHANGED doubt, \A u \in Plans : discovered'[u] = discovered[u] \/ (update'.step = "drop" /\ PlanOf[update'.node] = u)
        PROVE  CachedTypesFresh' /\ BuiltFresh'
    <2>1. \A k \in Keys : types[k] # None => DOMAIN types[k] \subseteq Plans
      BY DEF TypeOK, IsTypeList, IsPartial
    <2>2. \A r \in Callers : call[r] # None => DOMAIN call[r].list \subseteq Plans
      BY DEF TypeOK, CallTypeOK, IsTypeList, IsPartial
    <2>3. CachedTypesFresh'
      BY <1>1, <1>5, <2>1 DEF CachedTypesFresh
    <2>4. BuiltFresh'
      BY <1>1, <1>4, <1>5, <2>2 DEF BuiltFresh, Fresh
    <2> QED
      BY <2>3, <2>4
  <1>6. CASE Refreshes(update)
    <2>1. /\ discovered' = [discovered EXCEPT ![t] = merged]
          /\ doubt' = IF merged = update.cached /\ discovered[t] # merged
                      THEN doubt \cup {k \in Keys : types[k] # None \/ Building(k)} ELSE doubt
          /\ update' = IF merged # update.cached THEN [update EXCEPT !.step = "drop"] ELSE NoUpdate
      BY <1>2, <1>6 DEF SetDiscovered
    <2> HIDE DEF merged
    <2>2. \A u \in Plans \ {t} : discovered'[u] = discovered[u]
      BY <2>1, <1>3
    <2>3. CASE merged # update.cached
      <3>1. update'.step = "drop" /\ update'.node = n
        BY <1>1, <1>2, <2>1, <2>3, UpdateTyped
      <3>2. UNCHANGED doubt
        BY <2>1, <2>3
      <3> QED
        BY <1>2, <1>5, <2>2, <3>1, <3>2
    <2>4. CASE merged = update.cached /\ discovered[t] # merged
      BY <1>1, <2>1, <2>4, PassedBy
    <2>5. CASE discovered[t] = merged
      <3>1. UNCHANGED doubt /\ \A u \in Plans : discovered'[u] = discovered[u]
        BY <1>3, <2>1, <2>2, <2>5
      <3> QED
        BY <1>5, <3>1
    <2> QED
      BY <2>3, <2>4, <2>5
  <1>7. CASE ~Refreshes(update)
    BY <1>5, <1>7 DEF SetDiscovered
  <1> QED
    BY <1>6, <1>7

(* A launch reads the discovered capacity of a plan as it builds the type, *)
(* and caches the types it has built.                                      *)
LEMMA FreshList ==
    ASSUME TypeOK, MadeInv, CachedTypesFresh, BuiltFresh, NEW r \in Callers,
           (\E c \in Classes, q \in Requests : StartList(r, c, q)) \/ ListStep(r) \/ EndLaunch(r)
    PROVE  CachedTypesFresh' /\ BuiltFresh'
  <1> DEFINE BuiltBy(p) == call[p] # None /\ call[p].step = "build" /\ KeyOf(p) \notin doubt =>
                             \A t \in DOMAIN call[p].list : Fresh(call[p].list[t], t)
  <1>1. UNCHANGED <<discovered, update, doubt>>
    BY DEF StartList, ListStep, Lookup, Build, Fill, Inject, EndLaunch, world, provider, ghosts
  <1>2. UNCHANGED types => CachedTypesFresh'
    BY <1>1 DEF CachedTypesFresh
  <1>3. \A p \in Callers : call'[p] = call[p] => BuiltBy(p)'
    BY <1>1 DEF BuiltFresh, Fresh, KeyOf
  <1>4. (\A p \in Callers : BuiltBy(p)') => BuiltFresh'
    BY DEF BuiltFresh
  <1>5. (\A p \in Callers \ {r} : call'[p] = call[p]) /\ BuiltBy(r)' => BuiltFresh'
    BY <1>3, <1>4
  <1> HIDE DEF BuiltBy
  <1>6. ASSUME NEW c \in Classes, NEW q \in Requests, StartList(r, c, q) PROVE CachedTypesFresh' /\ BuiltFresh'
    <2>1. call'[r].step = "lookup" /\ (\A p \in Callers \ {r} : call'[p] = call[p]) /\ UNCHANGED types
      BY <1>6, CallStarted DEF StartList, TypeOK, provider
    <2> QED
      BY <1>2, <1>5, <2>1 DEF BuiltBy
  <1>7. CASE Lookup(r)
    <2>1. UNCHANGED types
      BY <1>7 DEF Lookup, provider
    <2>2. (\A p \in Callers \ {r} : call'[p] = call[p]) /\ (call'[r].step = "inject" \/ call'[r].list = call[r].list)
      BY <1>7, LookupEffect DEF Advances
    <2>3. call[r].list = NoReport
      BY <1>7 DEF Lookup, MadeInv, CallMade
    <2>4. BuiltBy(r)'
      BY <2>2, <2>3, NoReportTyped DEF BuiltBy
    <2> QED
      BY <1>2, <1>5, <2>1, <2>2, <2>4
  <1>8. ASSUME NEW t \in Plans, Build(r, t) PROVE CachedTypesFresh' /\ BuiltFresh'
    <2> DEFINE old == call[r].list
               new == call'[r].list
    <2>1. UNCHANGED types
      BY <1>8 DEF Build, provider
    <2>2. /\ call[r].step = "build" /\ Advances(r, "build", new)
          /\ DOMAIN new = DOMAIN old \cup {t}
          /\ new[t] = [plan |-> info[t], kubelet |-> call[r].kubelet,
                       capacity |-> Discounted(info[t], discovered[t])]
          /\ \A u \in DOMAIN old : new[u] = old[u]
      BY <1>8, BuildEffect
    <2>3. /\ call[r] # None /\ \A p \in Callers \ {r} : call'[p] = call[p]
          /\ call'[r].class = call[r].class /\ call'[r].kubelet = call[r].kubelet
      BY <2>2 DEF Advances
    <2>4. new[t].capacity = Discounted(new[t].plan, discovered[t])
      BY <2>2
    <2>5. KeyOf(r)' = KeyOf(r)
      BY <2>3 DEF KeyOf
    <2>6. KeyOf(r) \notin doubt => \A u \in DOMAIN old : Fresh(old[u], u)
      BY <2>2, <2>3 DEF BuiltFresh
    <2>7. BuiltBy(r)'
      BY <1>1, <2>2, <2>4, <2>5, <2>6 DEF BuiltBy, Fresh
    <2> QED
      BY <1>2, <1>5, <2>1, <2>3, <2>7
  <1>9. CASE Fill(r)
    <2>1. /\ call[r] # None /\ call[r].step = "build"
          /\ types' = [types EXCEPT ![KeyOf(r)] = call[r].list]
      BY <1>9 DEF Fill
    <2>2. (\A p \in Callers \ {r} : call'[p] = call[p]) /\ call'[r].step = "inject"
      BY <1>9, FillEffect DEF Advances
    <2>3. BuiltBy(r)'
      BY <2>2 DEF BuiltBy
    <2>4. \A k \in Keys : types'[k] = IF k = KeyOf(r) THEN call[r].list ELSE types[k]
      BY <2>1 DEF TypeOK
    <2>5. KeyOf(r) \notin doubt => \A t \in DOMAIN call[r].list : Fresh(call[r].list[t], t)
      BY <2>1 DEF BuiltFresh
    <2>6. ASSUME NEW k \in Keys \ doubt, types'[k] # None, NEW t \in DOMAIN types'[k]
          PROVE  Fresh(types'[k][t], t)
      BY <2>4, <2>5, <2>6 DEF CachedTypesFresh, Fresh
    <2>7. CachedTypesFresh'
      BY <1>1, <2>6 DEF CachedTypesFresh, Fresh
    <2> QED
      BY <1>5, <2>2, <2>3, <2>7
  <1>10. CASE Inject(r)
    <2>1. UNCHANGED types
      BY <1>10 DEF Inject
    <2>2. (\A p \in Callers \ {r} : call'[p] = call[p]) /\ call'[r].step = "done"
      BY <1>10, InjectEffect DEF Advances
    <2> QED
      BY <1>2, <1>5, <2>1, <2>2 DEF BuiltBy
  <1>11. CASE EndLaunch(r)
    <2>1. (\A p \in Callers \ {r} : call'[p] = call[p]) /\ call'[r] = None /\ UNCHANGED types
      BY <1>11 DEF EndLaunch, TypeOK, provider
    <2> QED
      BY <1>2, <1>5, <2>1 DEF BuiltBy
  <1> QED
    BY <1>6, <1>7, <1>8, <1>9, <1>10, <1>11 DEF ListStep

LEMMA FreshStep ==
    ASSUME TypeOK, UpdateInv, MadeInv, CachedTypesFresh, BuiltFresh, [Next]_vars
    PROVE  CachedTypesFresh' /\ BuiltFresh'
  <1> USE DEF world, provider, ghosts
  <1>1. CASE UNCHANGED <<types, discovered, update, call, doubt>>
    BY <1>1 DEF CachedTypesFresh, BuiltFresh, Fresh, KeyOf
  <1>2. CASE Restart
    BY <1>2 DEF Restart, CachedTypesFresh, BuiltFresh
  <1>3. CASE UpdateInstanceTypes
    BY <1>3, ClearedKeeps DEF UpdateInstanceTypes
  <1>4. CASE UpdateInstanceTypeOfferings
    BY <1>4, ClearedKeeps DEF UpdateInstanceTypeOfferings
  <1>5. ASSUME NEW k \in Keys, TypesExpire(k) PROVE CachedTypesFresh' /\ BuiltFresh'
    BY <1>5, ClearedKeeps DEF TypesExpire, TypeOK
  <1>6. ASSUME NEW t \in Plans, CapacityExpires(t) PROVE CachedTypesFresh' /\ BuiltFresh'
    <2>1. /\ UNCHANGED <<types, call>>
          /\ doubt' = doubt \cup {k \in Keys : types[k] # None \/ Building(k)}
      BY <1>6 DEF CapacityExpires
    <2> QED
      BY <2>1, PassedBy
  <1>7. ASSUME NEW n \in Nodes, ReconcileNode(n) PROVE CachedTypesFresh' /\ BuiltFresh'
    <2>1. update.step # "drop" /\ UNCHANGED <<types, discovered, call, doubt>>
      BY <1>7 DEF ReconcileNode, NoUpdate
    <2> QED
      BY <2>1 DEF CachedTypesFresh, BuiltFresh, Fresh, KeyOf
  <1>8. CASE SetDiscovered
    BY <1>8, FreshSet
  <1>9. CASE DropTypes
    <2>1. /\ UNCHANGED call
          /\ types' = [types EXCEPT ![update.key] = None]
          /\ doubt' = {k \in Keys : Building(k)}
                      \cup {k \in (Keys \ {update.key}) : types[k] # None}
                      \cup (doubt \ {update.key})
      BY <1>9 DEF DropTypes
    <2>2. \A k \in Keys \ doubt' : types'[k] = None
      BY <2>1 DEF TypeOK
    <2> QED
      BY <2>1, <2>2, PassedBy
  <1>10. \/ \E cat \in Catalogues : ChangePlans(cat)
         \/ \E c \in Classes, k \in Settings : ChangeKubelet(c, k)
         \/ \E n \in Nodes : Register(n) \/ Remove(n) \/ MissNode(n)
         \/ \E t \in Plans : OfferDropped(t)
         \/ UNCHANGED vars
         => UNCHANGED <<types, discovered, update, call, doubt>>
    BY DEF ChangePlans, ChangeKubelet, Register, Remove, MissNode, OfferDropped, vars
  <1> QED
    BY <1>1, <1>2, <1>3, <1>4, <1>5, <1>6, <1>7, <1>8, <1>9, <1>10, FreshList DEF Next, CapacityStep

-----------------------------------------------------------------------------
(* The theorems *)

LEMMA InitInv == Init => Inv
  <1> SUFFICES ASSUME Init PROVE Inv
    OBVIOUS
  <1>1. TypeOK
    BY InitTyped
  <1>2. LeastInv
    BY NoneLeast DEF Init, LeastInv, Observed
  <1>3. UpdateInv /\ NoReportLost
    BY DEF Init, UpdateInv, NoReportLost
  <1>4. MadeInv /\ CachedTypesFresh /\ BuiltFresh
    BY DEF Init, MadeInv, CallMade, CachedTypesFresh, BuiltFresh
  <1> QED
    BY <1>1, <1>2, <1>3, <1>4 DEF Inv

LEMMA InvStep == Inv /\ [Next]_vars => Inv'
  <1> SUFFICES ASSUME Inv, [Next]_vars PROVE Inv'
    OBVIOUS
  <1>1. TypeOK'
    BY TypeStep DEF Inv
  <1>2. LeastInv' /\ UpdateInv'
    BY ReportStep DEF Inv
  <1>3. NoReportLost'
    BY LostStep DEF Inv
  <1>4. MadeInv'
    BY MadeStep DEF Inv
  <1>5. CachedTypesFresh' /\ BuiltFresh'
    BY FreshStep DEF Inv
  <1> QED
    BY <1>1, <1>2, <1>3, <1>4, <1>5 DEF Inv

(* The inductive invariant. *)
THEOREM InstanceTypesInvariant == Spec => []Inv
  BY InitInv, InvStep, PTL DEF Spec

(* The caches, the running update and the launches keep their types; the   *)
(* price of every type in a list is that of a plan the provider knows.     *)
THEOREM InstanceTypesTypeCorrect == Spec => []TypeOK
  <1>1. Inv => TypeOK
    BY DEF Inv
  <1> QED
    BY <1>1, InstanceTypesInvariant, PTL

(* What UpdateInstanceTypeCapacityFromNode caches for a plan is, resource  *)
(* by resource, the least its workers reported, without a lock.            *)
THEOREM DiscoveredIsLeastHolds == Spec => []DiscoveredIsLeast
  <1>1. Inv => DiscoveredIsLeast
    <2> SUFFICES ASSUME Inv, NEW t \in Plans
                 PROVE  LET reports == {ReportOf[n] : n \in {m \in observed : PlanOf[m] = t}} IN
                        /\ DOMAIN discovered[t] = UNION {DOMAIN p : p \in reports}
                        /\ \A x \in DOMAIN discovered[t] :
                             LET quantities == {p[x] : p \in {o \in reports : x \in DOMAIN o}} IN
                             /\ discovered[t][x] \in quantities
                             /\ \A y \in quantities : discovered[t][x] <= y
      BY DEF DiscoveredIsLeast
    <2>1. IsLeast(discovered[t], Observed(t))
      BY DEF Inv, LeastInv
    <2> QED
      BY <2>1 DEF IsLeast, Observed
  <1> QED
    BY <1>1, InstanceTypesInvariant, PTL

(* "Later observations only lower cached capacity": as the running update  *)
(* has read what is cached, or the entry has expired since, it writes      *)
(* nothing above it.                                                       *)
THEOREM CapacityOnlyFallsHolds == Spec => CapacityOnlyFalls
  <1> DEFINE Falls(t) == discovered'[t] # NoReport =>
                           \A x \in DOMAIN discovered[t] :
                             x \in DOMAIN discovered'[t] /\ discovered'[t][x] <= discovered[t][x]
  <1>1. ASSUME Inv, [Next]_vars, NEW t \in Plans PROVE Falls(t)
    <2>1. DOMAIN discovered = Plans /\ IsReport(discovered[t])
      BY <1>1 DEF Inv, TypeOK
    <2>2. CASE discovered' = discovered
      BY <2>1, <2>2 DEF IsReport, IsPartial
    <2>3. CASE Restart \/ \E u \in Plans : CapacityExpires(u)
      BY <2>1, <2>2, <2>3 DEF Restart, CapacityExpires, IsReport, IsPartial
    <2>4. CASE SetDiscovered
      <3>1. update # NoUpdate /\ update.step = "set"
        BY <2>4 DEF SetDiscovered, NoUpdate
      <3>2. IsReport(update.cached) /\ IsReport(ReportOf[update.node])
        BY <1>1, <3>1, UpdateTyped DEF Inv
      <3>3. discovered[PlanOf[update.node]] \in {update.cached, NoReport}
        BY <1>1, <3>1 DEF Inv, UpdateInv
      <3> DEFINE merged == Lowered(update.cached, ReportOf[update.node])
      <3>4. \A x \in DOMAIN update.cached : x \in DOMAIN merged /\ merged[x] <= update.cached[x]
        BY <3>2, LoweredFalls
      <3>5. discovered' \in {discovered, [discovered EXCEPT ![PlanOf[update.node]] = merged]}
        BY <2>4 DEF SetDiscovered
      <3> HIDE DEF merged
      <3>6. CASE t = PlanOf[update.node] /\ discovered'[t] = merged
        BY <3>3, <3>4, <3>6, NoReportTyped
      <3>7. CASE discovered'[t] = discovered[t]
        BY <2>1, <3>7 DEF IsReport, IsPartial
      <3> QED
        BY <2>1, <3>5, <3>6, <3>7
    <2>5. Restart \/ (\E u \in Plans : CapacityExpires(u)) \/ SetDiscovered \/ discovered' = discovered
      BY <1>1 DEF Next, CapacityStep, ListStep, ChangePlans, ChangeKubelet, Register, Remove, MissNode, OfferDropped,
         UpdateInstanceTypes, UpdateInstanceTypeOfferings, TypesExpire, ReconcileNode, DropTypes, StartList,
         Lookup, Build, Fill, Inject, EndLaunch, vars, provider
    <2> QED
      BY <2>2, <2>3, <2>4, <2>5
  <1>2. Inv /\ [Next]_vars => [\A t \in Plans : Falls(t)]_vars
    BY <1>1
  <1> QED
    BY <1>2, InstanceTypesInvariant, PTL DEF Spec, CapacityOnlyFalls

(* One event per registered node suffices: its report is in the queue, in  *)
(* the running update or in the entry, until the entry expires.            *)
THEOREM NoReportLostHolds == Spec => []NoReportLost
  <1>1. Inv => NoReportLost
    BY DEF Inv
  <1> QED
    BY <1>1, InstanceTypesInvariant, PTL

(* List serves, under its read locks, what NewInstanceType makes of the    *)
(* current plans and of the kubelet configuration it was called with.      *)
THEOREM ServedFromInputsHolds == Spec => []ServedFromInputs
  <1>1. Inv => ServedFromInputs
    BY DEF Inv, MadeInv, CallMade, Made, ServedFromInputs
  <1> QED
    BY <1>1, InstanceTypesInvariant, PTL

(* Cached types have the discovered capacity, or the running update drops  *)
(* them, or an update or expiry is known to have passed their key by.      *)
THEOREM CachedTypesFreshHolds == Spec => []CachedTypesFresh
  <1>1. Inv => CachedTypesFresh
    BY DEF Inv
  <1> QED
    BY <1>1, InstanceTypesInvariant, PTL

=============================================================================
