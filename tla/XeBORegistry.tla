---------------------------- MODULE XeBORegistry ----------------------------
(***************************************************************************)
(* The buffer-object registry of XeService (m_boList): its creation in     *)
(* start, ucCreateBuffer, boFromCookie, and the release loop of stop.      *)
(*                                                                         *)
(* A step of ucCreateBuffer is one access to m_boList.  OSArray is not     *)
(* protected against concurrent use (OSArray.h:85) and the kext adds no    *)
(* lock, so OSArray::setObject takes a step to enter and one to store: a   *)
(* call that stores alone appends; once two have been inside it together,  *)
(* the array's count, capacity and storage need not agree any more.        *)
(***************************************************************************)
EXTENDS Naturals, Sequences, FiniteSets, XeThreads

CONSTANTS
  BOs,                  \* buffers (IOBufferMemoryDescriptor instances)
  NoBO,                 \* a null pointer
  MaxSlots              \* bound: how far the kernel can grow the array

ASSUME RegistryAssumption == NoBO \notin BOs /\ MaxSlots \in Nat

VARIABLES
  boList,               \* m_boList: "none" (null) or "live"
  slots,                \* the array's storage, one element per counted slot
  refs,                 \* retain count of every buffer, 0 when not allocated
  cpc,                  \* per thread: progress through ucCreateBuffer
  md,                   \* per thread: the local of that name
  \* history
  issued,               \* <<cookie, buffer>> pairs returned before any race
  raced,                \* two threads have been inside setObject together
  overtaken             \* a store fell between a setObject and its getCount

overlapVars == <<raced, overtaken>>
registryVars == <<boList, slots, refs, cpc, md, issued, raced, overtaken>>

(* "checked": m_boList was seen non-null; "alloced": md is allocated;      *)
(* "storing": inside setObject; "stored": setObject returned true.         *)
CreateSteps == {"idle", "checked", "alloced", "storing", "stored"}

RegistryTypeOK ==
  /\ boList \in {"none", "live"}
  /\ slots \in Seq(BOs \cup {NoBO})
  /\ refs \in [BOs -> Nat]
  /\ cpc \in [Threads -> CreateSteps]
  /\ md \in [Threads -> BOs \cup {NoBO}]
  /\ issued \subseteq Nat \X BOs
  /\ raced \in BOOLEAN /\ overtaken \in BOOLEAN

RegistryInit ==
  /\ boList = "none"
  /\ slots = << >>
  /\ refs = [b \in BOs |-> 0]
  /\ cpc = [t \in Threads |-> "idle"]
  /\ md = [t \in Threads |-> NoBO]
  /\ issued = {}
  /\ raced = FALSE /\ overtaken = FALSE

InSlots(b) == \E i \in DOMAIN slots : slots[i] = b

(* Mutant: the cookie is compared as if it were the index.                 *)
boFromCookieOffByOne(cookie) ==
  IF cookie = 0 \/ boList = "none" \/ cookie >= Len(slots)
    THEN NoBO
    ELSE slots[cookie]

(* boFromCookie: 1-based, null when out of range.                          *)
boFromCookie(cookie) ==
  IF cookie = 0 \/ boList = "none" \/ cookie - 1 >= Len(slots)
    THEN NoBO
    ELSE slots[cookie]

-----------------------------------------------------------------------------
(* start: m_boList = OSArray::withCapacity(8).                             *)
RegistryStart ==
  /\ boList = "none"
  /\ boList' = "live"
  /\ slots' = << >>
  /\ UNCHANGED <<refs, cpc, md, issued, overlapVars>>

(* ucCreateBuffer finds m_boList set.                                      *)
CreateCheck(t) ==
  /\ cpc[t] = "idle"
  /\ boList = "live"
  /\ cpc' = [cpc EXCEPT ![t] = "checked"]
  /\ UNCHANGED <<boList, slots, refs, md, issued, overlapVars>>

(* withOptions: a new buffer, with one reference, the creator's.           *)
CreateAlloc(t) ==
  /\ cpc[t] = "checked"
  /\ \E b \in BOs :
       /\ refs[b] = 0 /\ ~InSlots(b)
       /\ refs' = [refs EXCEPT ![b] = 1]
       /\ md' = [md EXCEPT ![t] = b]
  /\ cpc' = [cpc EXCEPT ![t] = "alloced"]
  /\ UNCHANGED <<boList, slots, issued, overlapVars>>

CreateAllocFails(t) ==
  /\ cpc[t] = "checked"
  /\ cpc' = [cpc EXCEPT ![t] = "idle"]
  /\ UNCHANGED <<boList, slots, refs, md, issued, overlapVars>>

(* A call enters setObject, which makes room for one more element.         *)
SetObjectLoad(t) ==
  /\ cpc[t] = "alloced"
  /\ Len(slots) < MaxSlots
  /\ cpc' = [cpc EXCEPT ![t] = "storing"]
  /\ raced' = (raced \/ \E u \in Threads : cpc[u] = "storing")
  /\ UNCHANGED <<boList, slots, refs, md, issued, overtaken>>

(* Mutant: the error path releases the buffer once too often.              *)
SetObjectFailsTwice(t) ==
  /\ cpc[t] = "alloced"
  /\ refs' = [refs EXCEPT ![md[t]] = @ - 2]
  /\ cpc' = [cpc EXCEPT ![t] = "idle"]
  /\ md' = [md EXCEPT ![t] = NoBO]
  /\ UNCHANGED <<boList, slots, issued, overlapVars>>

(* setObject cannot grow the array: md is released, the call fails.        *)
SetObjectFails(t) ==
  /\ cpc[t] = "alloced"
  /\ refs' = [refs EXCEPT ![md[t]] = @ - 1]
  /\ cpc' = [cpc EXCEPT ![t] = "idle"]
  /\ md' = [md EXCEPT ![t] = NoBO]
  /\ UNCHANGED <<boList, slots, issued, overlapVars>>

(* setObject alone in the array (external): it retains b and appends it.   *)
StoreAlone(b) ==
  /\ slots' = Append(slots, b)
  /\ refs' = [refs EXCEPT ![b] = @ + 1]

(* setObject in an array two threads have been changing at once            *)
(* (external).  b is retained, but where it goes and what the other slots  *)
(* hold is open: overwritten or moved elements, one counted twice, a slot  *)
(* nobody filled, an update of the count lost.  An overwritten slot        *)
(* releases what it held, so any buffer of the array may lose a reference. *)
StoreRaced(b) ==
  LET held == {slots[i] : i \in DOMAIN slots} \cup {b, NoBO}
  IN  /\ \E n \in {Len(slots), Len(slots) + 1} :
           n <= MaxSlots /\ slots' \in [1 .. n -> held]
      /\ \E lost \in SUBSET {c \in held \cap BOs : refs[c] > 0} :
           refs' = [c \in BOs |-> (IF c = b THEN refs[c] + 1 ELSE refs[c])
                                 - (IF c \in lost THEN 1 ELSE 0)]

SetObjectStore(t) ==
  /\ cpc[t] = "storing"
  /\ \/ ~raced /\ StoreAlone(md[t])
     \/ raced /\ StoreRaced(md[t])
  /\ cpc' = [cpc EXCEPT ![t] = "stored"]
  /\ overtaken' = (overtaken \/ \E u \in Threads : cpc[u] = "stored")
  /\ UNCHANGED <<boList, md, issued, raced>>

(* Mutant: the cookie is the index of the slot (0..N-1).                   *)
CreateReturnZeroBased(t) ==
  /\ cpc[t] = "stored"
  /\ issued' = issued \cup IF raced THEN {} ELSE {<<Len(slots) - 1, md[t]>>}
  /\ cpc' = [cpc EXCEPT ![t] = "idle"]
  /\ md' = [md EXCEPT ![t] = NoBO]
  /\ UNCHANGED <<boList, slots, refs, overlapVars>>

(* Mutant: ucCreateBuffer gives up its own reference, as is usual once a   *)
(* collection has retained an object; stop would then release once more.   *)
CreateReturnReleases(t) ==
  /\ cpc[t] = "stored"
  /\ issued' = issued \cup IF raced THEN {} ELSE {<<Len(slots), md[t]>>}
  /\ refs' = [refs EXCEPT ![md[t]] = @ - 1]
  /\ cpc' = [cpc EXCEPT ![t] = "idle"]
  /\ md' = [md EXCEPT ![t] = NoBO]
  /\ UNCHANGED <<boList, slots, overlapVars>>

(* The cookie is getCount(), read again after setObject has returned.  The *)
(* creator's reference is kept.                                            *)
CreateReturn(t) ==
  /\ cpc[t] = "stored"
  /\ issued' = issued \cup IF raced THEN {} ELSE {<<Len(slots), md[t]>>}
  /\ cpc' = [cpc EXCEPT ![t] = "idle"]
  /\ md' = [md EXCEPT ![t] = NoBO]
  /\ UNCHANGED <<boList, slots, refs, overlapVars>>

(* The references of b left after n releases; at 0 it is freed.            *)
Released(b, n) == IF refs[b] > n THEN refs[b] - n ELSE 0

(* In how many slots of the array b is.                                    *)
Places(b) == Cardinality({i \in DOMAIN slots : slots[i] = b})

(* Mutant: stop releases the array and forgets the creator's references.   *)
RegistryStopOnce ==
  /\ boList = "live"
  /\ refs' = [b \in BOs |-> Released(b, Places(b))]
  /\ boList' = "none"
  /\ slots' = << >>
  /\ issued' = {}
  /\ UNCHANGED <<cpc, md, overlapVars>>

(* stop: the loop drops a reference for every slot, the creator's, and the *)
(* array's own release another one.  The service's clients are gone, and   *)
(* their cookies with them.                                                *)
RegistryStop ==
  /\ boList = "live"
  /\ refs' = [b \in BOs |-> Released(b, 2 * Places(b))]
  /\ boList' = "none"
  /\ slots' = << >>
  /\ issued' = {}
  /\ UNCHANGED <<cpc, md, overlapVars>>

CreateBuffer(t) ==
  \/ CreateCheck(t) \/ CreateAlloc(t) \/ CreateAllocFails(t)
  \/ SetObjectLoad(t) \/ SetObjectFails(t) \/ SetObjectStore(t)
  \/ CreateReturn(t)

(* start and stop run while no external method does; XeService shows it.   *)
RegistryQuiet == \A t \in Threads : cpc[t] = "idle"

RegistryNext ==
  \/ RegistryQuiet /\ (RegistryStart \/ RegistryStop)
  \/ \E t \in Threads : CreateBuffer(t)

RegistrySpec == RegistryInit /\ [][RegistryNext]_registryVars

-----------------------------------------------------------------------------
(* A cookie names the buffer it was returned for, as long as the registry  *)
(* lives: boFromCookie inverts ucCreateBuffer, for any number of callers   *)
(* whose setObject and getCount have not overlapped.                       *)
CookieNamesBuffer ==
  ~raced /\ ~overtaken => \A p \in issued : boFromCookie(p[1]) = p[2]

(* "Userspace sees only a `uint64_t cookie` that indexes into this array." *)
(* (README.md:140): asked of the gap between setObject and getCount alone, *)
(* where no two threads have been inside OSArray together.                 *)
CookieIndexesArray == ~raced => \A p \in issued : boFromCookie(p[1]) = p[2]

(* A buffer user space has a cookie for is not freed under it: up to the   *)
(* first overlap inside setObject it keeps the two references that stop    *)
(* will drop, even if getCount gave its cookie to another buffer.          *)
IssuedAlive == ~raced => \A p \in issued : refs[p[2]] = 2

(* Up to the first overlap inside setObject, no buffer is released once    *)
(* too often or once too rarely: between calls it has both references or   *)
(* none, and none is in the array twice, whose release loop in stop would  *)
(* then free it under the array.                                           *)
ReleasesAreWhole ==
  ~raced =>
    /\ RegistryQuiet => \A b \in BOs : refs[b] \in {0, 2}
    /\ \A i, j \in DOMAIN slots : slots[i] = slots[j] => i = j

(* stop leaves no buffer behind ("Release any BOs left around",            *)
(* XeService.cpp:288), unless setObject overlapped: every reference is     *)
(* dropped, none twice.                                                    *)
NoBufferLeft == boList = "none" /\ ~raced => \A b \in BOs : refs[b] = 0

(* ucCreateBuffer tests m_boList once and goes on using it: it must not    *)
(* have become null in the meantime.                                       *)
RegistryLiveInUse == \A t \in Threads : cpc[t] # "idle" => boList = "live"

(* Up to the first overlap the registry implements the handle table: every *)
(* step that does not end in one is a step of the table or changes nothing *)
(* of it.                                                                  *)
Table == INSTANCE BOHandleTable
           WITH open <- (boList = "live"), table <- slots, handles <- issued

ImplementsTable ==
  /\ Table!TableInit
  /\ [][~raced' /\ ~overtaken' => Table!TableNext]_(Table!tableVars)

=============================================================================
