--------------------------- MODULE RegistryProofs ---------------------------
(***************************************************************************)
(* Proofs about XeBORegistry, for any number of threads and buffers.  The  *)
(* invariant has three layers: what holds whatever OSArray makes of an     *)
(* overlap, what holds until two threads are inside setObject together,    *)
(* and what holds until, besides, a store falls between a setObject and    *)
(* the getCount that follows it.                                           *)
(***************************************************************************)
EXTENDS XeBORegistry, FiniteSetTheorems, TLAPS

(* A thread that owns the buffer md[t]: allocated, not yet in the array.   *)
Pending(t) == cpc[t] \in {"alloced", "storing"}
Holding(t) == Pending(t) \/ cpc[t] = "stored"

(* Whatever OSArray does: a buffer that is about to be stored has its      *)
(* creator's reference alone, is not in the array and has one creator, and *)
(* without an array there is nothing to find.                              *)
OwnedInv ==
  /\ \A t \in Threads : Holding(t) => md[t] \in BOs
  /\ \A t \in Threads : Pending(t) => refs[md[t]] = 1 /\ ~InSlots(md[t])
  /\ \A t, u \in Threads : Pending(t) /\ Pending(u) /\ md[t] = md[u] => t = u
  /\ boList = "none" => slots = << >> /\ issued = {} /\ RegistryQuiet

(* Until a race: one thread at a time is inside setObject, the array holds *)
(* buffers and none twice, a buffer in it has two references, and every    *)
(* allocated buffer is in it or on its way.                                *)
SoundInv ==
  /\ \A t, u \in Threads : cpc[t] = "storing" /\ cpc[u] = "storing" => t = u
  /\ slots \in Seq(BOs)
  /\ \A i, j \in DOMAIN slots : slots[i] = slots[j] => i = j
  /\ \A b \in BOs : InSlots(b) => refs[b] = 2
  /\ \A b \in BOs : refs[b] = 0 \/ InSlots(b) \/ \E t \in Threads : Pending(t) /\ md[t] = b
  /\ \A t \in Threads : cpc[t] = "stored" => InSlots(md[t])
  /\ \A p \in issued : InSlots(p[2])

(* Until a race or an overtaking: the buffer just stored is the last one,  *)
(* so that getCount names it, and a cookie is the place of its buffer.     *)
CookieInv ==
  /\ \A t \in Threads : cpc[t] = "stored" => Len(slots) > 0 /\ slots[Len(slots)] = md[t]
  /\ \A p \in issued : p[1] \in 1 .. Len(slots) /\ slots[p[1]] = p[2]

(* The inductive invariant.                                                *)
RegistryInv ==
  /\ RegistryTypeOK
  /\ OwnedInv
  /\ ~raced => SoundInv
  /\ ~raced /\ ~overtaken => CookieInv

(* The registry before start has created the array.                        *)
LEMMA RegistryInitInv == RegistryInit => RegistryInv
<1> SUFFICES ASSUME RegistryInit PROVE RegistryInv
  OBVIOUS
<1>1. RegistryTypeOK
  <2>1. raced \in BOOLEAN /\ overtaken \in BOOLEAN
    BY Zenon DEF RegistryInit
  <2>2. /\ boList \in {"none", "live"} /\ slots \in Seq(BOs \cup {NoBO})
        /\ refs \in [BOs -> Nat] /\ cpc \in [Threads -> CreateSteps]
        /\ md \in [Threads -> BOs \cup {NoBO}] /\ issued \subseteq Nat \X BOs
    BY DEF RegistryInit, CreateSteps
  <2> QED BY <2>1, <2>2 DEF RegistryTypeOK
<1>2. OwnedInv
  BY DEF RegistryInit, OwnedInv, RegistryQuiet, Pending, Holding
<1>3. SoundInv
  <2>1. slots = << >> /\ slots \in Seq(BOs) /\ \A b \in BOs : ~InSlots(b) /\ refs[b] = 0
    BY DEF RegistryInit, InSlots
  <2>2. \A t \in Threads : cpc[t] = "idle"
    BY DEF RegistryInit
  <2>3. \A i \in DOMAIN slots : FALSE
    BY <2>1
  <2>4. issued = {}
    BY DEF RegistryInit
  <2> QED BY <2>1, <2>2, <2>3, <2>4 DEF SoundInv
<1>4. CookieInv
  BY DEF RegistryInit, CookieInv
<1> QED BY <1>1, <1>2, <1>3, <1>4 DEF RegistryInv

(* Append puts one element at the end and leaves the others.               *)
LEMMA Appended ==
  ASSUME NEW S, NEW q \in Seq(S), NEW b \in S
  PROVE  /\ Append(q, b) \in Seq(S)
         /\ Len(q) \in Nat /\ Len(Append(q, b)) = Len(q) + 1
         /\ DOMAIN q = 1 .. Len(q) /\ DOMAIN Append(q, b) = 1 .. Len(q) + 1
         /\ \A i \in 1 .. Len(q) : Append(q, b)[i] = q[i]
         /\ Append(q, b)[Len(q) + 1] = b
  OBVIOUS

(* A buffer is in a finite number of slots, in none if it is not there.    *)
LEMMA PlacesCounted ==
  ASSUME RegistryTypeOK, NEW b \in BOs
  PROVE  /\ Places(b) \in Nat
         /\ InSlots(b) => Places(b) >= 1
         /\ ~InSlots(b) => Places(b) = 0
<1> DEFINE P == {i \in DOMAIN slots : slots[i] = b}
<1>1. Len(slots) \in Nat /\ DOMAIN slots = 1 .. Len(slots)
  BY DEF RegistryTypeOK
<1>2. IsFiniteSet(1 .. Len(slots))
  BY <1>1, FS_Interval
<1>3. IsFiniteSet(P) /\ Cardinality(P) \in Nat
  BY <1>1, <1>2, FS_Subset, FS_CardinalityType
<1>4. Cardinality(P) = 0 <=> P = {}
  BY <1>3, FS_EmptySet
<1>5. InSlots(b) <=> P # {}
  BY DEF InSlots
<1> QED
  BY <1>3, <1>4, <1>5 DEF Places

(* A buffer has a natural number of references after the loop of stop.     *)
LEMMA StopReferences ==
  ASSUME RegistryTypeOK, RegistryStop
  PROVE  /\ refs' \in [BOs -> Nat]
         /\ \A b \in BOs : refs[b] = 0 \/ (InSlots(b) /\ refs[b] = 2) => refs'[b] = 0
<1>1. \A b \in BOs : refs[b] \in Nat
  BY DEF RegistryTypeOK
<1>2. refs' = [b \in BOs |-> Released(b, 2 * Places(b))]
  BY DEF RegistryStop
<1>3. ASSUME NEW b \in BOs
      PROVE  /\ Released(b, 2 * Places(b)) \in Nat
             /\ refs[b] = 0 \/ (InSlots(b) /\ refs[b] = 2) => Released(b, 2 * Places(b)) = 0
  <2>1. Places(b) \in Nat /\ (InSlots(b) => Places(b) >= 1)
    BY PlacesCounted
  <2> QED BY <1>1, <2>1 DEF Released
<1> QED BY <1>2, <1>3

-----------------------------------------------------------------------------
(* What a store leaves of the array and of the references, raced or not.   *)
LEMMA StoreShape ==
  ASSUME RegistryTypeOK, OwnedInv, NEW t \in Threads, SetObjectStore(t)
  PROVE  /\ slots' \in Seq(BOs \cup {NoBO})
         /\ \A b \in BOs : InSlots(b)' => b = md[t] \/ InSlots(b)
         /\ refs' \in [BOs -> Nat]
         /\ \A b \in BOs : b # md[t] /\ ~InSlots(b) => refs'[b] = refs[b]
<1>0. /\ slots \in Seq(BOs \cup {NoBO}) /\ DOMAIN slots = 1 .. Len(slots)
      /\ Len(slots) \in Nat /\ refs \in [BOs -> Nat]
      /\ \A i \in DOMAIN slots : slots[i] \in BOs \cup {NoBO}
  BY DEF RegistryTypeOK
<1>1. md[t] \in BOs
  BY DEF OwnedInv, Holding, Pending, SetObjectStore
<1>2. CASE ~raced /\ StoreAlone(md[t])
  <2>1. slots' = Append(slots, md[t]) /\ refs' = [refs EXCEPT ![md[t]] = @ + 1]
    BY <1>2 DEF StoreAlone
  <2>2. /\ slots' \in Seq(BOs \cup {NoBO}) /\ DOMAIN slots' = 1 .. Len(slots) + 1
        /\ \A i \in 1 .. Len(slots) : slots'[i] = slots[i]
        /\ slots'[Len(slots) + 1] = md[t]
    <3>1. md[t] \in BOs \cup {NoBO}
      BY <1>1
    <3> QED BY <1>0, <2>1, <3>1, Appended
  <2>3. \A b \in BOs : InSlots(b)' => b = md[t] \/ InSlots(b)
    <3>1. \A i \in 1 .. Len(slots) + 1 : i \in 1 .. Len(slots) \/ i = Len(slots) + 1
      BY <1>0
    <3> QED BY <1>0, <2>2, <3>1 DEF InSlots
  <2>4. /\ refs' \in [BOs -> Nat]
        /\ \A b \in BOs : b # md[t] => refs'[b] = refs[b]
    BY <1>0, <1>1, <2>1
  <2> QED BY <2>2, <2>3, <2>4
<1>3. CASE raced /\ StoreRaced(md[t])
  <2> DEFINE held == {slots[i] : i \in DOMAIN slots} \cup {md[t], NoBO}
  <2>1. PICK n \in {Len(slots), Len(slots) + 1} : slots' \in [1 .. n -> held]
    BY <1>3 DEF StoreRaced
  <2>2. PICK lost \in SUBSET {c \in held \cap BOs : refs[c] > 0} :
          refs' = [c \in BOs |-> (IF c = md[t] THEN refs[c] + 1 ELSE refs[c])
                                 - (IF c \in lost THEN 1 ELSE 0)]
    BY <1>3 DEF StoreRaced
  <2>3. held \subseteq BOs \cup {NoBO}
    BY <1>0, <1>1
  <2>4. \A b \in BOs : b \in held => b = md[t] \/ InSlots(b)
    BY RegistryAssumption DEF InSlots
  <2>5. \A c \in lost : c \in held /\ c \in BOs /\ refs[c] > 0
    BY <2>2
  <2> HIDE DEF held
  <2>6. n \in Nat /\ DOMAIN slots' = 1 .. n /\ \A i \in 1 .. n : slots'[i] \in held
    BY <1>0, <2>1
  <2>7. slots' \in Seq(BOs \cup {NoBO})
    BY <2>1, <2>3, <2>6
  <2>8. \A b \in BOs : InSlots(b)' => b = md[t] \/ InSlots(b)
    BY <2>4, <2>6 DEF InSlots
  <2>9. refs' \in [BOs -> Nat]
    BY <1>0, <2>2, <2>5
  <2>10. \A b \in BOs : b # md[t] /\ ~InSlots(b) => refs'[b] = refs[b]
    BY <1>0, <2>2, <2>4, <2>5
  <2> QED BY <2>7, <2>8, <2>9, <2>10
<1> QED BY <1>2, <1>3 DEF SetObjectStore

(* A store that was never raced appends the buffer and retains it.         *)
LEMMA StoreAppends ==
  ASSUME RegistryTypeOK, OwnedInv, SoundInv, NEW t \in Threads, SetObjectStore(t), ~raced
  PROVE  /\ md[t] \in BOs /\ ~InSlots(md[t])
         /\ slots' \in Seq(BOs) /\ slots' = Append(slots, md[t])
         /\ Len(slots) \in Nat /\ Len(slots') = Len(slots) + 1
         /\ DOMAIN slots = 1 .. Len(slots) /\ DOMAIN slots' = 1 .. Len(slots) + 1
         /\ \A i \in 1 .. Len(slots) : slots'[i] = slots[i]
         /\ slots'[Len(slots) + 1] = md[t]
         /\ \A b \in BOs : InSlots(b)' <=> InSlots(b) \/ b = md[t]
         /\ refs'[md[t]] = 2
         /\ \A b \in BOs : b # md[t] => refs'[b] = refs[b]
<1>1. md[t] \in BOs /\ refs[md[t]] = 1 /\ ~InSlots(md[t])
  BY DEF OwnedInv, Holding, Pending, SetObjectStore
<1>2. slots' = Append(slots, md[t]) /\ refs' = [refs EXCEPT ![md[t]] = @ + 1]
  BY DEF SetObjectStore, StoreAlone
<1>3. slots \in Seq(BOs) /\ refs \in [BOs -> Nat]
  BY DEF SoundInv, RegistryTypeOK
<1>4. /\ slots' \in Seq(BOs)
      /\ Len(slots) \in Nat /\ Len(slots') = Len(slots) + 1
      /\ DOMAIN slots = 1 .. Len(slots) /\ DOMAIN slots' = 1 .. Len(slots) + 1
      /\ \A i \in 1 .. Len(slots) : slots'[i] = slots[i]
      /\ slots'[Len(slots) + 1] = md[t]
  BY <1>1, <1>2, <1>3, Appended
<1>5. \A b \in BOs : InSlots(b)' <=> InSlots(b) \/ b = md[t]
  <2>1. /\ \A i \in 1 .. Len(slots) + 1 : i \in 1 .. Len(slots) \/ i = Len(slots) + 1
        /\ 1 .. Len(slots) \subseteq 1 .. Len(slots) + 1
        /\ Len(slots) + 1 \in 1 .. Len(slots) + 1
    BY <1>4
  <2> QED BY <1>4, <2>1 DEF InSlots
<1>6. refs'[md[t]] = 2 /\ \A b \in BOs : b # md[t] => refs'[b] = refs[b]
  BY <1>1, <1>2, <1>3
<1> QED BY <1>1, <1>2, <1>4, <1>5, <1>6

-----------------------------------------------------------------------------
(* start, stop and every step of ucCreateBuffer keep the types.            *)
LEMMA TypeStep ==
  ASSUME RegistryTypeOK, OwnedInv, [RegistryNext]_registryVars
  PROVE  RegistryTypeOK'
<1> USE DEF overlapVars, CreateSteps
<1>1. CASE UNCHANGED registryVars
  BY <1>1 DEF registryVars, RegistryTypeOK
<1>2. CASE RegistryStart
  BY <1>2 DEF RegistryStart, RegistryTypeOK
<1>3. CASE RegistryStop
  <2>1. refs' \in [BOs -> Nat]
    BY <1>3, StopReferences
  <2> QED BY <1>3, <2>1 DEF RegistryStop, RegistryTypeOK
<1>4. ASSUME NEW t \in Threads, CreateBuffer(t)
      PROVE  RegistryTypeOK'
  <2>1. CASE CreateCheck(t) \/ CreateAllocFails(t)
    BY <2>1 DEF CreateCheck, CreateAllocFails, RegistryTypeOK
  <2>2. CASE CreateAlloc(t)
    <3>1. PICK b \in BOs : /\ refs' = [refs EXCEPT ![b] = 1]
                           /\ md' = [md EXCEPT ![t] = b]
      BY <2>2 DEF CreateAlloc
    <3> QED BY <2>2, <3>1 DEF CreateAlloc, RegistryTypeOK
  <2>3. CASE SetObjectFails(t)
    <3>1. md[t] \in BOs /\ refs[md[t]] = 1
      BY <2>3 DEF SetObjectFails, OwnedInv, Holding, Pending
    <3> QED BY <2>3, <3>1 DEF SetObjectFails, RegistryTypeOK
  <2>4. CASE SetObjectStore(t)
    <3>1. slots' \in Seq(BOs \cup {NoBO}) /\ refs' \in [BOs -> Nat]
      BY <2>4, StoreShape
    <3>2. overtaken' \in BOOLEAN
      BY <2>4, Zenon DEF SetObjectStore
    <3> QED BY <2>4, <3>1, <3>2 DEF SetObjectStore, RegistryTypeOK
  <2>5. CASE CreateReturn(t)
    <3>1. md[t] \in BOs /\ Len(slots) \in Nat
      BY <2>5 DEF CreateReturn, OwnedInv, Holding, RegistryTypeOK
    <3> QED BY <2>5, <3>1 DEF CreateReturn, RegistryTypeOK
  <2>6. CASE SetObjectLoad(t)
    <3>1. raced' \in BOOLEAN
      BY <2>6, Zenon DEF SetObjectLoad
    <3> QED BY <2>6, <3>1 DEF SetObjectLoad, RegistryTypeOK
  <2> QED BY <1>4, <2>1, <2>2, <2>3, <2>4, <2>5, <2>6 DEF CreateBuffer
<1> QED BY <1>1, <1>2, <1>3, <1>4 DEF RegistryNext

(* ... and the ownership of the buffers under way, even once raced.        *)
LEMMA OwnedStep ==
  ASSUME RegistryTypeOK, OwnedInv, [RegistryNext]_registryVars
  PROVE  OwnedInv'
<1> USE DEF overlapVars, CreateSteps, Pending, Holding, RegistryQuiet
<1>1. CASE UNCHANGED registryVars
  BY <1>1 DEF registryVars, OwnedInv, InSlots
<1>2. CASE RegistryQuiet /\ RegistryStart
  BY <1>2 DEF RegistryStart, OwnedInv, InSlots
<1>3. CASE RegistryQuiet /\ RegistryStop
  BY <1>3 DEF RegistryStop, OwnedInv, InSlots
<1>4. ASSUME NEW t \in Threads, CreateBuffer(t)
      PROVE  OwnedInv'
  <2>0. /\ refs \in [BOs -> Nat] /\ cpc \in [Threads -> CreateSteps]
        /\ md \in [Threads -> BOs \cup {NoBO}]
    BY DEF RegistryTypeOK
  <2>1. CASE CreateCheck(t)
    BY <2>0, <2>1 DEF CreateCheck, OwnedInv, InSlots
  <2>2. CASE CreateAlloc(t)
    BY <2>0, <2>2 DEF CreateAlloc, OwnedInv, InSlots
  <2>3. CASE CreateAllocFails(t)
    BY <2>0, <2>3 DEF CreateAllocFails, OwnedInv, InSlots
  <2>4. CASE SetObjectLoad(t)
    BY <2>0, <2>4 DEF SetObjectLoad, OwnedInv, InSlots
  <2>5. CASE SetObjectFails(t)
    BY <2>0, <2>5 DEF SetObjectFails, OwnedInv, InSlots
  <2>6. CASE SetObjectStore(t)
    <3>1. /\ \A b \in BOs : InSlots(b)' => b = md[t] \/ InSlots(b)
          /\ \A b \in BOs : b # md[t] /\ ~InSlots(b) => refs'[b] = refs[b]
      BY <2>6, StoreShape
    <3>2. cpc' = [cpc EXCEPT ![t] = "stored"] /\ UNCHANGED <<boList, md, issued>>
      BY <2>6 DEF SetObjectStore
    <3>3. boList = "live"
      BY <2>6 DEF SetObjectStore, OwnedInv, RegistryTypeOK
    <3>4. ASSUME NEW u \in Threads, Pending(u)'
          PROVE  (refs[md[u]] = 1 /\ ~InSlots(md[u]))'
      <4>1. u # t /\ Pending(u) /\ md'[u] = md[u]
        BY <2>0, <3>2, <3>4
      <4>2. PICK b \in BOs : b = md[u]
        BY <4>1 DEF OwnedInv
      <4>3. refs[b] = 1 /\ ~InSlots(b) /\ b # md[t]
        BY <2>6, <4>1, <4>2 DEF OwnedInv, SetObjectStore
      <4>4. refs'[b] = 1 /\ ~InSlots(b)'
        BY <3>1, <4>3
      <4> QED BY <4>1, <4>2, <4>4 DEF InSlots
    <3>5. \A u \in Threads : Holding(u)' => md'[u] \in BOs
      BY <2>0, <2>6, <3>2 DEF OwnedInv, SetObjectStore
    <3>6. \A u, v \in Threads : Pending(u)' /\ Pending(v)' /\ md'[u] = md'[v] => u = v
      BY <2>0, <3>2 DEF OwnedInv
    <3> QED BY <3>2, <3>3, <3>4, <3>5, <3>6 DEF OwnedInv
  <2>7. CASE CreateReturn(t)
    BY <2>0, <2>7 DEF CreateReturn, OwnedInv, InSlots, RegistryTypeOK
  <2> QED
    BY <1>4, <2>1, <2>2, <2>3, <2>4, <2>5, <2>6, <2>7 DEF CreateBuffer
<1> QED BY <1>1, <1>2, <1>3, <1>4 DEF RegistryNext

(* ... and the soundness of the array, until a race.                       *)
LEMMA SoundStep ==
  ASSUME RegistryTypeOK, OwnedInv, SoundInv, [RegistryNext]_registryVars, ~raced, ~raced'
  PROVE  SoundInv'
<1> USE DEF overlapVars, CreateSteps, Pending, RegistryQuiet
<1>0. /\ refs \in [BOs -> Nat] /\ cpc \in [Threads -> CreateSteps]
      /\ md \in [Threads -> BOs \cup {NoBO}]
  BY DEF RegistryTypeOK
<1>1. CASE UNCHANGED registryVars
  BY <1>1 DEF registryVars, SoundInv, InSlots
<1>2. CASE RegistryQuiet /\ RegistryStart
  <2>1. slots' = slots
    BY <1>2 DEF RegistryStart, OwnedInv
  <2> QED BY <1>2, <2>1 DEF RegistryStart, SoundInv, InSlots
<1>3. CASE RegistryQuiet /\ RegistryStop
  <2>1. \A b \in BOs : refs'[b] = 0
    BY <1>3, StopReferences DEF SoundInv
  <2>2. slots' = << >> /\ issued' = {} /\ \A t \in Threads : cpc'[t] = "idle"
    BY <1>3 DEF RegistryStop
  <2>3. slots' \in Seq(BOs) /\ \A i \in DOMAIN slots' : FALSE
    BY <2>2
  <2> QED BY <2>1, <2>2, <2>3 DEF SoundInv, InSlots
<1>4. ASSUME NEW t \in Threads, CreateBuffer(t)
      PROVE  SoundInv'
  <2>1. CASE CreateCheck(t)
    BY <1>0, <2>1 DEF CreateCheck, SoundInv, InSlots
  <2>2. CASE CreateAlloc(t)
    <3>1. PICK b \in BOs : /\ refs[b] = 0 /\ ~InSlots(b)
                           /\ refs' = [refs EXCEPT ![b] = 1]
                           /\ md' = [md EXCEPT ![t] = b]
      BY <2>2 DEF CreateAlloc
    <3>2. cpc' = [cpc EXCEPT ![t] = "alloced"] /\ slots' = slots /\ issued' = issued
      BY <2>2 DEF CreateAlloc
    <3>3. \A c \in BOs : InSlots(c)' <=> InSlots(c)
      BY <3>2 DEF InSlots
    <3>4. \A c \in BOs : c # b => refs'[c] = refs[c]
      BY <1>0, <3>1
    <3>5. \A u \in Threads : u # t => cpc'[u] = cpc[u] /\ md'[u] = md[u]
      BY <1>0, <3>1, <3>2
    <3>6. cpc[t] = "checked" /\ cpc'[t] = "alloced" /\ md'[t] = b
      BY <1>0, <2>2, <3>1 DEF CreateAlloc
    <3>7. ASSUME NEW c \in BOs
          PROVE  refs'[c] = 0 \/ InSlots(c)' \/ \E u \in Threads : Pending(u)' /\ md'[u] = c
      <4>1. CASE c = b
        BY <3>6, <4>1
      <4>2. CASE c # b
        <5>1. refs[c] = 0 \/ InSlots(c) \/ \E u \in Threads : Pending(u) /\ md[u] = c
          BY DEF SoundInv
        <5> QED BY <3>3, <3>4, <3>5, <3>6, <4>2, <5>1
      <4> QED BY <4>1, <4>2
    <3>8. \A c \in BOs : InSlots(c)' => refs'[c] = 2
      BY <3>1, <3>3, <3>4 DEF SoundInv
    <3>9. \A u \in Threads : cpc'[u] = "stored" => InSlots(md[u])'
      BY <3>2, <3>5, <3>6 DEF SoundInv, InSlots
    <3>10. \A u, v \in Threads : cpc'[u] = "storing" /\ cpc'[v] = "storing" => u = v
      BY <3>5, <3>6 DEF SoundInv
    <3> QED BY <3>2, <3>7, <3>8, <3>9, <3>10 DEF SoundInv, InSlots
  <2>3. CASE CreateAllocFails(t)
    BY <1>0, <2>3 DEF CreateAllocFails, SoundInv, InSlots
  <2>4. CASE SetObjectLoad(t)
    <3>1. \A u \in Threads : cpc[u] # "storing"
      BY <2>4 DEF SetObjectLoad
    <3> QED BY <1>0, <2>4, <3>1 DEF SetObjectLoad, SoundInv, InSlots
  <2>5. CASE SetObjectFails(t)
    <3>1. PICK b \in BOs : b = md[t] /\ refs[b] = 1 /\ ~InSlots(b)
      BY <2>5 DEF SetObjectFails, OwnedInv, Holding
    <3>2. refs' = [refs EXCEPT ![b] = 0]
      BY <1>0, <2>5, <3>1 DEF SetObjectFails
    <3> QED BY <1>0, <2>5, <3>1, <3>2 DEF SetObjectFails, SoundInv, InSlots
  <2>6. CASE SetObjectStore(t)
    <3>1. PICK b \in BOs : b = md[t]
      BY <2>6, StoreAppends
    <3>2. /\ slots' \in Seq(BOs) /\ Len(slots) \in Nat
          /\ DOMAIN slots = 1 .. Len(slots) /\ DOMAIN slots' = 1 .. Len(slots) + 1
          /\ \A i \in 1 .. Len(slots) : slots'[i] = slots[i]
          /\ slots'[Len(slots) + 1] = b /\ ~InSlots(b)
      BY <2>6, <3>1, StoreAppends
    <3>3. /\ \A c \in BOs : InSlots(c)' <=> InSlots(c) \/ c = b
          /\ refs'[b] = 2 /\ \A c \in BOs : c # b => refs'[c] = refs[c]
      BY <2>6, <3>1, StoreAppends
    <3>4. /\ cpc' = [cpc EXCEPT ![t] = "stored"] /\ cpc[t] = "storing"
          /\ UNCHANGED <<md, issued>>
      BY <2>6 DEF SetObjectStore
    <3>5. ASSUME NEW i \in DOMAIN slots', NEW j \in DOMAIN slots', slots'[i] = slots'[j]
          PROVE  i = j
      <4>1. \A k \in 1 .. Len(slots) : slots[k] # b
        BY <3>2 DEF InSlots
      <4>2. \A k \in DOMAIN slots' : k \in 1 .. Len(slots) \/ k = Len(slots) + 1
        BY <3>2
      <4> QED BY <3>2, <3>5, <4>1, <4>2 DEF SoundInv
    <3>6. \A c \in BOs : InSlots(c)' => refs'[c] = 2
      BY <3>3 DEF SoundInv
    <3>7. ASSUME NEW c \in BOs
          PROVE  refs'[c] = 0 \/ InSlots(c)' \/ \E u \in Threads : Pending(u)' /\ md'[u] = c
      BY <1>0, <3>1, <3>3, <3>4 DEF SoundInv
    <3>8. ASSUME NEW u \in Threads, cpc'[u] = "stored"
          PROVE  InSlots(md[u])'
      <4>1. u = t \/ cpc[u] = "stored"
        BY <1>0, <3>4, <3>8
      <4>2. PICK c \in BOs : c = md[u] /\ (c = b \/ InSlots(c))
        BY <3>1, <4>1 DEF SoundInv, OwnedInv, Holding
      <4>3. InSlots(c)'
        BY <3>3, <4>2
      <4> QED BY <3>4, <4>2, <4>3 DEF InSlots
    <3>9. ASSUME NEW p \in issued PROVE InSlots(p[2])'
      <4>1. p[2] \in BOs /\ InSlots(p[2])
        BY DEF SoundInv, RegistryTypeOK
      <4> QED BY <3>3, <4>1
    <3>10. \A u, v \in Threads : cpc'[u] = "storing" /\ cpc'[v] = "storing" => u = v
      BY <1>0, <3>4 DEF SoundInv
    <3> QED BY <3>2, <3>4, <3>5, <3>6, <3>7, <3>8, <3>9, <3>10 DEF SoundInv
  <2>7. CASE CreateReturn(t)
    <3>1. PICK b \in BOs : b = md[t] /\ InSlots(b)
      BY <2>7 DEF CreateReturn, OwnedInv, Holding, SoundInv
    <3>2. issued' = issued \cup {<<Len(slots), b>>}
      BY <2>7, <3>1 DEF CreateReturn
    <3>3. /\ slots' = slots /\ refs' = refs
          /\ cpc' = [cpc EXCEPT ![t] = "idle"] /\ md' = [md EXCEPT ![t] = NoBO]
      BY <2>7 DEF CreateReturn
    <3>4. \A c : InSlots(c)' <=> InSlots(c)
      BY <3>3 DEF InSlots
    <3>5. \A p \in issued' : InSlots(p[2])'
      BY <3>1, <3>2, <3>4 DEF SoundInv
    <3>6. \A u \in Threads : Pending(u)' /\ md'[u] = md[u] <=> Pending(u) /\ u # t
      BY <1>0, <2>7, <3>3 DEF CreateReturn, Pending
    <3>7. \A c \in BOs : refs'[c] = 0 \/ InSlots(c)' \/ \E u \in Threads : Pending(u)' /\ md'[u] = c
      BY <2>7, <3>3, <3>4, <3>6 DEF CreateReturn, SoundInv, Pending
    <3>8. ASSUME NEW u \in Threads, cpc'[u] = "stored" PROVE InSlots(md[u])'
      <4>1. cpc[u] = "stored" /\ md'[u] = md[u]
        BY <1>0, <3>3, <3>8
      <4>2. PICK c : c = md[u] /\ InSlots(c)
        BY <4>1 DEF SoundInv
      <4>3. InSlots(c)'
        BY <3>4, <4>2
      <4> QED BY <4>1, <4>2, <4>3 DEF InSlots
    <3>9. \A u, v \in Threads : cpc'[u] = "storing" /\ cpc'[v] = "storing" => u = v
      BY <1>0, <3>3 DEF SoundInv
    <3> QED BY <3>3, <3>4, <3>5, <3>7, <3>8, <3>9 DEF SoundInv
  <2> QED
    BY <1>4, <2>1, <2>2, <2>3, <2>4, <2>5, <2>6, <2>7 DEF CreateBuffer
<1> QED BY <1>1, <1>2, <1>3, <1>4 DEF RegistryNext

(* ... and the meaning of the cookies, until a store is overtaken.         *)
LEMMA CookieStep ==
  ASSUME RegistryTypeOK, OwnedInv, SoundInv, CookieInv, [RegistryNext]_registryVars,
         ~raced, ~raced', ~overtaken, ~overtaken'
  PROVE  CookieInv'
<1> USE DEF overlapVars, CreateSteps, RegistryQuiet
<1>0. /\ cpc \in [Threads -> CreateSteps] /\ md \in [Threads -> BOs \cup {NoBO}]
      /\ Len(slots) \in Nat
  BY DEF RegistryTypeOK
<1>1. CASE UNCHANGED registryVars
  BY <1>1 DEF registryVars, CookieInv
<1>2. CASE RegistryQuiet /\ RegistryStart
  BY <1>2 DEF RegistryStart, CookieInv, OwnedInv
<1>3. CASE RegistryQuiet /\ RegistryStop
  BY <1>3 DEF RegistryStop, CookieInv
<1>4. ASSUME NEW t \in Threads, CreateBuffer(t)
      PROVE  CookieInv'
  <2>1. CASE \/ CreateCheck(t) \/ CreateAlloc(t) \/ CreateAllocFails(t)
             \/ SetObjectLoad(t) \/ SetObjectFails(t)
    <3>1. /\ slots' = slots /\ issued' = issued
          /\ \A u \in Threads : cpc'[u] = "stored" => cpc[u] = "stored" /\ md'[u] = md[u]
      BY <1>0, <2>1 DEF CreateCheck, CreateAlloc, CreateAllocFails, SetObjectLoad, SetObjectFails
    <3> QED BY <3>1 DEF CookieInv
  <2>2. CASE SetObjectStore(t)
    <3>1. /\ Len(slots') = Len(slots) + 1
          /\ \A i \in 1 .. Len(slots) : slots'[i] = slots[i]
          /\ slots'[Len(slots) + 1] = md[t]
      BY <2>2, StoreAppends
    <3>2. \A u \in Threads : cpc'[u] = "stored" => u = t
      BY <1>0, <2>2 DEF SetObjectStore
    <3>3. UNCHANGED <<md, issued>>
      BY <2>2 DEF SetObjectStore
    <3>4. Len(slots') > 0 /\ 1 .. Len(slots) \subseteq 1 .. Len(slots')
      BY <1>0, <3>1
    <3> QED BY <3>1, <3>2, <3>3, <3>4 DEF CookieInv
  <2>3. CASE CreateReturn(t)
    <3>1. Len(slots) \in 1 .. Len(slots) /\ slots[Len(slots)] = md[t]
      BY <1>0, <2>3 DEF CreateReturn, CookieInv
    <3>2. issued' = issued \cup {<<Len(slots), md[t]>>} /\ slots' = slots
      BY <2>3 DEF CreateReturn
    <3>3. \A p \in issued' : p[1] \in 1 .. Len(slots) /\ slots[p[1]] = p[2]
      BY <3>1, <3>2 DEF CookieInv
    <3>4. \A u \in Threads : cpc'[u] = "stored" => cpc[u] = "stored" /\ md'[u] = md[u]
      BY <1>0, <2>3 DEF CreateReturn
    <3> QED BY <3>2, <3>3, <3>4 DEF CookieInv
  <2> QED BY <1>4, <2>1, <2>2, <2>3 DEF CreateBuffer
<1> QED BY <1>1, <1>2, <1>3, <1>4 DEF RegistryNext

(* An overlap is never forgotten.                                          *)
LEMMA OverlapsStay ==
  ASSUME [RegistryNext]_registryVars
  PROVE  (~raced' => ~raced) /\ (~overtaken' => ~overtaken)
<1>1. CASE UNCHANGED raced /\ UNCHANGED overtaken
  BY <1>1
<1>2. ASSUME NEW t \in Threads, SetObjectLoad(t) \/ SetObjectStore(t)
      PROVE  (~raced' => ~raced) /\ (~overtaken' => ~overtaken)
  <2>1. CASE SetObjectLoad(t)
    BY <2>1, Zenon DEF SetObjectLoad
  <2>2. CASE SetObjectStore(t)
    BY <2>2, Zenon DEF SetObjectStore
  <2> QED BY <1>2, <2>1, <2>2
<1>3. \/ UNCHANGED raced /\ UNCHANGED overtaken
      \/ \E t \in Threads : SetObjectLoad(t) \/ SetObjectStore(t)
  BY DEF RegistryNext, CreateBuffer, CreateCheck, CreateAlloc, CreateAllocFails,
         SetObjectFails, CreateReturn, RegistryStart, RegistryStop, registryVars, overlapVars
<1> QED BY <1>1, <1>2, <1>3

(* start, stop and every step of ucCreateBuffer keep the invariant.        *)
LEMMA RegistryStepInv ==
  ASSUME RegistryInv, [RegistryNext]_registryVars
  PROVE  RegistryInv'
<1>1. RegistryTypeOK' /\ OwnedInv'
  BY TypeStep, OwnedStep DEF RegistryInv
<1>2. (~raced' => ~raced) /\ (~overtaken' => ~overtaken)
  BY OverlapsStay
<1>3. ~raced' => SoundInv'
  BY <1>2, SoundStep DEF RegistryInv
<1>4. ~raced' /\ ~overtaken' => CookieInv'
  BY <1>2, CookieStep DEF RegistryInv
<1> QED BY <1>1, <1>3, <1>4 DEF RegistryInv

-----------------------------------------------------------------------------
(* The inductive invariant of the registry, for any number of callers.     *)
THEOREM RegistryInvariant == RegistrySpec => []RegistryInv
  BY RegistryInitInv, RegistryStepInv, PTL DEF RegistrySpec

(* A buffer is not freed while user space has a cookie for it.             *)
LEMMA InvIssuedAlive == RegistryInv => IssuedAlive
  BY DEF RegistryInv, SoundInv, IssuedAlive, RegistryTypeOK

(* No buffer is released by half, and none is in the array twice.          *)
LEMMA InvReleasesAreWhole == RegistryInv => ReleasesAreWhole
<1> SUFFICES ASSUME RegistryInv, ~raced
             PROVE  /\ RegistryQuiet => \A b \in BOs : refs[b] \in {0, 2}
                    /\ \A i, j \in DOMAIN slots : slots[i] = slots[j] => i = j
  BY DEF ReleasesAreWhole
<1>1. SoundInv
  BY DEF RegistryInv
<1> QED BY <1>1 DEF SoundInv, RegistryQuiet, Pending

(* boFromCookie finds the buffer a cookie was made for.                    *)
LEMMA InvCookieNamesBuffer == RegistryInv => CookieNamesBuffer
<1> SUFFICES ASSUME RegistryInv, ~raced, ~overtaken, NEW p \in issued
             PROVE  boFromCookie(p[1]) = p[2]
  BY DEF CookieNamesBuffer
<1>1. p[1] \in 1 .. Len(slots) /\ slots[p[1]] = p[2]
  BY DEF RegistryInv, CookieInv
<1>2. boList # "none" /\ Len(slots) \in Nat
  BY DEF RegistryInv, OwnedInv, RegistryTypeOK
<1> QED BY <1>1, <1>2 DEF boFromCookie

(* stop drops every reference to every buffer.                             *)
LEMMA InvNoBufferLeft == RegistryInv => NoBufferLeft
<1> SUFFICES ASSUME RegistryInv, boList = "none", ~raced, NEW b \in BOs
             PROVE  refs[b] = 0
  BY DEF NoBufferLeft
<1>1. slots = << >> /\ RegistryQuiet
  BY DEF RegistryInv, OwnedInv
<1>2. ~InSlots(b)
  BY <1>1 DEF InSlots
<1>3. \A t \in Threads : ~Pending(t)
  BY <1>1 DEF RegistryQuiet, Pending
<1> QED BY <1>2, <1>3 DEF RegistryInv, SoundInv

(* Nobody is in ucCreateBuffer without an array.                           *)
LEMMA InvLiveInUse == RegistryInv => RegistryLiveInUse
  BY DEF RegistryInv, OwnedInv, RegistryTypeOK, RegistryQuiet, RegistryLiveInUse

(* A buffer is not freed while user space has a cookie for it, however     *)
(* many threads create buffers, until two are inside setObject together.   *)
THEOREM IssuedStayAlive == RegistrySpec => []IssuedAlive
  BY RegistryInvariant, InvIssuedAlive, PTL

(* Until then no buffer is released by half and none is in the array twice.*)
THEOREM BuffersAreWhole == RegistrySpec => []ReleasesAreWhole
  BY RegistryInvariant, InvReleasesAreWhole, PTL

(* As long as no setObject and getCount have overlapped, boFromCookie      *)
(* inverts ucCreateBuffer, for any number of callers.                      *)
THEOREM CookiesNameBuffers == RegistrySpec => []CookieNamesBuffer
  BY RegistryInvariant, InvCookieNamesBuffer, PTL

(* Unless two threads were inside setObject together, stop drops every     *)
(* reference to every buffer.                                              *)
THEOREM StopLeavesNoBuffer == RegistrySpec => []NoBufferLeft
  BY RegistryInvariant, InvNoBufferLeft, PTL

(* Until setObject and getCount overlap, the registry implements the       *)
(* handle table: start opens it, the store in setObject publishes, the     *)
(* return hands out, stop closes.                                          *)
THEOREM RegistryImplementsTable == RegistrySpec => ImplementsTable
<1>1. RegistryInit => Table!TableInit
  BY DEF RegistryInit, Table!TableInit
<1>2. ASSUME RegistryInv, [RegistryNext]_registryVars
      PROVE  [~raced' /\ ~overtaken' => Table!TableNext]_(Table!tableVars)
  <2> SUFFICES ASSUME ~raced', ~overtaken'
               PROVE  [Table!TableNext]_(Table!tableVars)
    BY Zenon DEF Table!tableVars
  <2> USE DEF Table!tableVars
  <2>0. /\ ~raced /\ RegistryTypeOK /\ OwnedInv /\ SoundInv /\ CookieInv
    BY <1>2, OverlapsStay DEF RegistryInv
  <2>1. CASE UNCHANGED registryVars
    BY <2>1 DEF registryVars
  <2>2. CASE RegistryStart
    <3>1. slots = << >>
      BY <2>0, <2>2 DEF RegistryStart, OwnedInv
    <3> QED BY <2>2, <3>1 DEF RegistryStart, Table!TableNext, Table!Open
  <2>3. CASE RegistryStop
    BY <2>3 DEF RegistryStop, Table!TableNext, Table!Close
  <2>4. ASSUME NEW t \in Threads, CreateBuffer(t)
        PROVE  [Table!TableNext]_(Table!tableVars)
    <3>1. CASE \/ CreateCheck(t) \/ CreateAlloc(t) \/ CreateAllocFails(t)
               \/ SetObjectLoad(t) \/ SetObjectFails(t)
      BY <3>1 DEF CreateCheck, CreateAlloc, CreateAllocFails, SetObjectLoad,
                  SetObjectFails
    <3>2. CASE SetObjectStore(t)
      <4>1. md[t] \in BOs /\ ~InSlots(md[t]) /\ slots' = Append(slots, md[t])
        BY <2>0, <3>2, StoreAppends
      <4>2. boList = "live"
        BY <2>0, <3>2 DEF SetObjectStore, OwnedInv, RegistryQuiet, RegistryTypeOK
      <4>3. Table!Publish(md[t])
        BY <3>2, <4>1, <4>2 DEF SetObjectStore, Table!Publish, InSlots
      <4> QED BY <4>1, <4>3 DEF Table!TableNext
    <3>3. CASE CreateReturn(t)
      <4>1. Len(slots) \in DOMAIN slots /\ slots[Len(slots)] = md[t]
        BY <2>0, <3>3 DEF CreateReturn, CookieInv, RegistryTypeOK
      <4>2. boList = "live"
        BY <2>0, <3>3 DEF CreateReturn, OwnedInv, RegistryQuiet, RegistryTypeOK
      <4>3. Table!HandOut(Len(slots))
        BY <2>0, <3>3, <4>1, <4>2 DEF CreateReturn, Table!HandOut
      <4> QED BY <4>1, <4>3 DEF Table!TableNext
    <3> QED BY <2>4, <3>1, <3>2, <3>3 DEF CreateBuffer
  <2> QED BY <1>2, <2>1, <2>2, <2>3, <2>4 DEF RegistryNext
<1> QED
  BY <1>1, <1>2, RegistryInvariant, PTL DEF RegistrySpec, ImplementsTable

=============================================================================
