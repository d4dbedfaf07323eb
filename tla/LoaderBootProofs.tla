-------------------------- MODULE LoaderBootProofs --------------------------
(***************************************************************************)
(* What the boot loader hands over, for any amount of memory, every order  *)
(* in which the firmware grants or refuses it, and every kernel image      *)
(* whose sections are apart.                                               *)
(***************************************************************************)
EXTENDS LoaderBoot, ScreenProofs, FiniteSetTheorems, TLAPS

-----------------------------------------------------------------------------
(* Who holds which page *)

Holding ==
    /\ fwFree \subseteq Page
    /\ entries \cup pools \cup tables \cup image \subseteq Page \ fwFree
    /\ entries \cap (pools \cup tables \cup image) = {}
    /\ pools \cap (tables \cup image) = {}
    /\ tables \cap image = {}
    /\ mapPools \subseteq pools

Typed ==
    /\ site \in {"paging", "handOver"}
    /\ file \in FileKinds
    /\ mapKey \in Nat /\ services \in BOOLEAN
    /\ events \in 0 .. MaxEvents
    /\ memMap.free \subseteq Page /\ memMap.key \in -1 .. mapKey
    /\ higher \in BOOLEAN

\* What the loader has done before it is at a step.
Looking == {"mapPool", "getMap", "entriesPool"}
Leaving == {"handOver", "sections", "exit", "kernel"}
Ordered ==
    /\ pc \in Steps
    /\ site = "handOver" => pc \in Looking \cup Leaving \cup {"panic", "fault"}
    /\ pc \in Leaving => site = "handOver"
    /\ pc \in {"imagePages", "higherHalf"} \/ (site = "handOver" /\ pc # "panic") =>
          file \in {"kernel", "uncounted"}
    /\ pc = "higherHalf" \/ (site = "handOver" /\ pc # "panic") => Cardinality(image) = ImagePages
    /\ site = "handOver" /\ pc # "panic" => higher
    /\ site = "handOver" /\ pc = "entriesPool" =>
          memMap.free \cap (image \cup tables \cup pools \cup entries) = {}
    /\ pc \in Leaving => memMap.free \cap (image \cup tables \cup pools) = {}

LoaderInv == Holding /\ Typed /\ Ordered

LEMMA TakenPages ==
    ASSUME Holding, Typed, NEW S, TakePages(S)
    PROVE  /\ S \subseteq fwFree /\ fwFree' = fwFree \ S /\ UNCHANGED services
           /\ mapKey' \in Nat /\ mapKey <= mapKey'
<1>1. S \subseteq fwFree /\ fwFree' = fwFree \ S /\ UNCHANGED services
      /\ mapKey' = mapKey + Cardinality(S)
  BY DEF TakePages
<1>2. IsFiniteSet(S)
  BY <1>1, BoundsAssumption, FS_Subset DEF Holding
<1>3. Cardinality(S) \in Nat
  BY <1>2, FS_CardinalityType
<1> QED
  BY <1>1, <1>3 DEF Typed

LEMMA InitInv == Init => LoaderInv
<1> SUFFICES ASSUME Init PROVE LoaderInv
  OBVIOUS
<1>1. Holding
  BY DEF Init, Holding
<1>2. Typed
  <2>1. memMap.free = {} /\ memMap.key = -1
    BY DEF Init, NoMap
  <2>2. services \in BOOLEAN /\ higher \in BOOLEAN
    BY Zenon DEF Init
  <2>3. site = "paging" /\ file \in FileKinds /\ mapKey = 0 /\ events = 0
    BY DEF Init
  <2> QED
    BY <2>1, <2>2, <2>3, BoundsAssumption DEF Typed
<1>3. Ordered
  BY DEF Init, Ordered, Steps, Looking, Leaving
<1> QED
  BY <1>1, <1>2, <1>3 DEF LoaderInv

\* A step that takes no pages and leaves the map alone.
LEMMA QuietHolds ==
    ASSUME Holding, UNCHANGED <<fwFree, entries, pools, mapPools, tables, image>> PROVE Holding'
  BY DEF Holding

\* Pages are taken for one thing or, by the firmware, for none.
LEMMA TakingHolds ==
    ASSUME Holding, Typed, NEW S, TakePages(S),
           \/ UNCHANGED <<entries, pools, mapPools, tables, image>>
           \/ entries' = S /\ pools' = pools \cup entries /\ mapPools' = {} /\ UNCHANGED <<tables, image>>
           \/ /\ pools' = pools \cup S /\ mapPools' \in {mapPools, S}
              /\ UNCHANGED <<entries, tables, image>>
           \/ tables' = tables \cup S /\ UNCHANGED <<entries, pools, mapPools, image>>
           \/ image' = S /\ UNCHANGED <<entries, pools, mapPools, tables>>
    PROVE  Holding'
<1>1. S \subseteq fwFree /\ fwFree' = fwFree \ S
  BY TakenPages
<1>2. CASE UNCHANGED <<entries, pools, mapPools, tables, image>>
  BY <1>1, <1>2 DEF Holding
<1>3. CASE entries' = S /\ pools' = pools \cup entries /\ mapPools' = {} /\ UNCHANGED <<tables, image>>
  BY <1>1, <1>3 DEF Holding
<1>4. CASE pools' = pools \cup S /\ mapPools' \in {mapPools, S} /\ UNCHANGED <<entries, tables, image>>
  BY <1>1, <1>4 DEF Holding
<1>5. CASE tables' = tables \cup S /\ UNCHANGED <<entries, pools, mapPools, image>>
  BY <1>1, <1>5 DEF Holding
<1>6. CASE image' = S /\ UNCHANGED <<entries, pools, mapPools, tables>>
  BY <1>1, <1>6 DEF Holding
<1> QED
  BY <1>2, <1>3, <1>4, <1>5, <1>6

LEMMA NextInv == LoaderInv /\ [Next]_vars => LoaderInv'
<1> SUFFICES ASSUME LoaderInv, [Next]_vars PROVE LoaderInv'
  OBVIOUS
<1>0. Holding /\ Typed /\ Ordered
  BY DEF LoaderInv
<1>1. CASE FirmwareEvent
  <2>1. PICK p \in fwFree : TakePages({p})
    BY <1>1 DEF FirmwareEvent
  <2>2. /\ events < MaxEvents /\ events' = events + 1
        /\ UNCHANGED <<pc, site, file, memMap, entries, pools, mapPools, tables, image, higher>>
    BY <1>1 DEF FirmwareEvent
  <2>3. Holding'
    BY <1>0, <2>1, <2>2, TakingHolds
  <2>4. mapKey' \in Nat /\ mapKey <= mapKey' /\ UNCHANGED services
    BY <1>0, <2>1, TakenPages
  <2>5. Typed'
    BY <1>0, <2>2, <2>4, BoundsAssumption DEF Typed
  <2>6. Ordered'
    BY <1>0, <2>2 DEF Ordered
  <2> QED
    BY <2>3, <2>5, <2>6 DEF LoaderInv
<1>2. CASE LdrSetupGOP
  <2>1. /\ pc = "gop" /\ pc' = "mapPool"
        /\ UNCHANGED <<site, file, events, fwFree, mapKey, services, memMap, entries, pools, mapPools, tables, image, higher>>
    BY <1>2 DEF LdrSetupGOP, firmware
  <2>2. Holding' /\ Typed'
    BY <1>0, <2>1 DEF Holding, Typed
  <2>3. Ordered'
    BY <1>0, <2>1 DEF Ordered, Steps, Looking, Leaving
  <2> QED
    BY <2>2, <2>3 DEF LoaderInv
<1>3. CASE MapPools
  <2>1. PICK S \in SUBSET fwFree : TakePages(S) /\ pools' = pools \cup S /\ mapPools' = S
    BY <1>3 DEF MapPools
  <2>2. /\ pc = "mapPool" /\ pc' = "getMap"
        /\ UNCHANGED <<site, file, events, memMap, entries, tables, image, higher>>
    BY <1>3 DEF MapPools, At
  <2>3. Holding'
    BY <1>0, <2>1, <2>2, TakingHolds
  <2>4. mapKey' \in Nat /\ mapKey <= mapKey' /\ UNCHANGED services
    BY <1>0, <2>1, TakenPages
  <2>5. Typed'
    BY <1>0, <2>2, <2>4 DEF Typed
  <2>6. Ordered'
    BY <1>0, <2>2 DEF Ordered, Steps, Looking, Leaving
  <2> QED
    BY <2>3, <2>5, <2>6 DEF LoaderInv
<1>4. CASE GetMemoryMap
  <2>1. /\ pc = "getMap" /\ pc' = "entriesPool" /\ memMap' = [free |-> fwFree, key |-> mapKey]
        /\ UNCHANGED <<site, file, events, fwFree, mapKey, services, entries, pools, mapPools, tables, image, higher>>
    BY <1>4 DEF GetMemoryMap, At, firmware
  <2>2. memMap'.free = fwFree /\ memMap'.key = mapKey
    BY <2>1
  <2>3. Holding'
    BY <1>0, <2>1, QuietHolds
  <2>4. Typed'
    BY <1>0, <2>1, <2>2 DEF Typed, Holding
  <2>5. fwFree \cap (image \cup tables \cup pools \cup entries) = {}
    BY <1>0 DEF Holding
  <2>6. Ordered'
    BY <1>0, <2>1, <2>2, <2>5 DEF Ordered, Steps, Looking, Leaving
  <2> QED
    BY <2>3, <2>4, <2>6 DEF LoaderInv
<1>5. CASE EntriesPool
  <2>1. PICK S \in SUBSET fwFree : TakePages(S) /\ entries' = S
    BY <1>5 DEF EntriesPool, TakePool
  <2>2. /\ pc = "entriesPool" /\ pc' = site
        /\ pools' = pools \cup entries /\ mapPools' = {}
        /\ UNCHANGED <<site, file, events, memMap, tables, image, higher>>
    BY <1>5 DEF EntriesPool, At
  <2>3. Holding'
    BY <1>0, <2>1, <2>2, TakingHolds
  <2>4. mapKey' \in Nat /\ mapKey <= mapKey' /\ UNCHANGED services
    BY <1>0, <2>1, TakenPages
  <2>5. Typed'
    BY <1>0, <2>2, <2>4 DEF Typed
  <2>6. Ordered'
    BY <1>0, <2>2 DEF Ordered, Typed, Steps, Looking, Leaving
  <2> QED
    BY <2>3, <2>5, <2>6 DEF LoaderInv
<1>6. CASE RetrieveFails
  <2>1. /\ pc \in Looking /\ pc' = site /\ memMap' = NoMap
        /\ pools' = pools \ mapPools /\ mapPools' = {}
        /\ UNCHANGED <<site, file, events, entries, tables, image, higher>>
    BY <1>6 DEF RetrieveFails, At, Looking
  <2>2. /\ fwFree' \subseteq fwFree \cup mapPools
        /\ mapKey' \in Nat /\ UNCHANGED services
    <3>1. CASE \E S \in SUBSET fwFree : TakePool(S)
      <4>1. PICK S \in SUBSET fwFree : TakePages(S)
        BY <3>1 DEF TakePool
      <4> QED
        BY <1>0, <4>1, TakenPages
    <3>2. CASE \E S \in SUBSET mapPools : GiveBack(S)
      <4>1. PICK S \in SUBSET mapPools : GiveBack(S)
        BY <3>2
      <4>2. S \subseteq Page
        BY <1>0, <4>1 DEF Holding
      <4>3. Cardinality(S) \in Nat
        BY <4>2, BoundsAssumption, FS_Subset, FS_CardinalityType
      <4> QED
        BY <1>0, <4>1, <4>3 DEF GiveBack, Typed
    <3> QED
      BY <1>6, <3>1, <3>2 DEF RetrieveFails
  <2>3. Holding'
    BY <1>0, <2>1, <2>2 DEF Holding
  <2>4. memMap'.free = {} /\ memMap'.key = -1
    BY <2>1 DEF NoMap
  <2>5. Typed'
    BY <1>0, <2>1, <2>2, <2>4 DEF Typed
  <2>6. Ordered'
    BY <1>0, <2>1, <2>4 DEF Ordered, Typed, Steps, Looking, Leaving
  <2> QED
    BY <2>3, <2>5, <2>6 DEF LoaderInv
<1>7. CASE MmInitPaging
  <2>1. PICK S \in SUBSET fwFree : TakePages(S) /\ tables' = tables \cup S
    BY <1>7 DEF MmInitPaging, TakeTables
  <2>2. /\ pc = "paging" /\ pc' = "sfs"
        /\ UNCHANGED <<site, file, events, memMap, entries, pools, mapPools, image, higher>>
    BY <1>7 DEF MmInitPaging, At
  <2>3. Holding'
    BY <1>0, <2>1, <2>2, TakingHolds
  <2>4. mapKey' \in Nat /\ mapKey <= mapKey' /\ UNCHANGED services
    BY <1>0, <2>1, TakenPages
  <2>5. Typed'
    BY <1>0, <2>2, <2>4 DEF Typed
  <2>6. Ordered'
    BY <1>0, <2>2 DEF Ordered, Steps, Looking, Leaving
  <2> QED
    BY <2>3, <2>5, <2>6 DEF LoaderInv
<1>8. CASE OpenKernel
  <2>1. /\ pc = "sfs" /\ pc' \in {"panic", "read"}
        /\ UNCHANGED <<site, file, events, fwFree, mapKey, services, memMap, entries, pools, mapPools, tables, image, higher>>
    BY <1>8 DEF OpenKernel, firmware
  <2>2. Holding' /\ Typed'
    BY <1>0, <2>1 DEF Holding, Typed
  <2>3. Ordered'
    BY <1>0, <2>1 DEF Ordered, Steps, Looking, Leaving
  <2> QED
    BY <2>2, <2>3 DEF LoaderInv
<1>9. CASE SFsReadFileContent
  <2>1. /\ pc = "read" /\ pc' \in {"panic", "check"}
        /\ UNCHANGED <<site, file, events, memMap, entries, mapPools, tables, image, higher>>
    BY <1>9 DEF SFsReadFileContent, At
  <2>2. PICK S \in SUBSET fwFree : TakePages(S) /\ pools' \in {pools, pools \cup S}
    BY <1>9 DEF SFsReadFileContent, TakePool
  <2>3. Holding'
    BY <1>0, <2>1, <2>2, TakingHolds
  <2>4. mapKey' \in Nat /\ mapKey <= mapKey' /\ UNCHANGED services
    BY <1>0, <2>2, TakenPages
  <2>5. Typed'
    BY <1>0, <2>1, <2>4 DEF Typed
  <2>6. Ordered'
    BY <1>0, <2>1 DEF Ordered, Steps, Looking, Leaving
  <2> QED
    BY <2>3, <2>5, <2>6 DEF LoaderInv
<1>10. CASE CheckSignatures
  <2>1. /\ pc = "check" /\ pc' \in {"imagePages", "panic"}
        /\ pc' = "imagePages" => file \in {"kernel", "uncounted"}
        /\ UNCHANGED <<site, file, events, fwFree, mapKey, services, memMap, entries, pools, mapPools, tables, image, higher>>
    BY <1>10 DEF CheckSignatures, At, firmware
  <2>2. Holding' /\ Typed'
    BY <1>0, <2>1 DEF Holding, Typed
  <2>3. Ordered'
    BY <1>0, <2>1 DEF Ordered, Steps, Looking, Leaving
  <2> QED
    BY <2>2, <2>3 DEF LoaderInv
<1>11. CASE AllocateImage
  <2>1. /\ pc = "imagePages" /\ UNCHANGED <<site, file, events, memMap, entries, pools, mapPools, tables, higher>>
    BY <1>11 DEF AllocateImage, At
  <2>2. \/ pc' = "panic" /\ UNCHANGED <<fwFree, mapKey, services, image>>
        \/ pc' = "higherHalf" /\ \E S \in SUBSET fwFree :
                TakePages(S) /\ image' = S /\ Cardinality(S) = ImagePages
    BY <1>11 DEF AllocateImage, At, firmware
  <2>3. Holding'
    BY <1>0, <2>1, <2>2, QuietHolds, TakingHolds
  <2>4. mapKey' \in Nat /\ mapKey <= mapKey' /\ UNCHANGED services
    BY <1>0, <2>2, TakenPages DEF Typed
  <2>5. Typed'
    BY <1>0, <2>1, <2>4 DEF Typed
  <2>6. Ordered'
    BY <1>0, <2>1, <2>2 DEF Ordered, Steps, Looking, Leaving
  <2> QED
    BY <2>3, <2>5, <2>6 DEF LoaderInv
<1>12. CASE MapHigherHalf
  <2>1. PICK S \in SUBSET fwFree : TakePages(S) /\ tables' = tables \cup S
    BY <1>12 DEF MapHigherHalf, TakeTables
  <2>2. /\ pc = "higherHalf" /\ site' = "handOver"
        /\ (pc' = "mapPool" /\ higher' = TRUE) \/ (pc' = "panic" /\ higher' = FALSE)
        /\ UNCHANGED <<file, events, memMap, entries, pools, mapPools, image>>
    BY <1>12 DEF MapHigherHalf, At
  <2>3. Holding'
    BY <1>0, <2>1, <2>2, TakingHolds
  <2>4. mapKey' \in Nat /\ mapKey <= mapKey' /\ UNCHANGED services
    BY <1>0, <2>1, TakenPages
  <2>5. higher' \in BOOLEAN
    BY <2>2, Zenon
  <2>6. Typed'
    BY <1>0, <2>2, <2>4, <2>5 DEF Typed
  <2>7. Ordered'
    BY <1>0, <2>2 DEF Ordered, Steps, Looking, Leaving
  <2> QED
    BY <2>3, <2>6, <2>7 DEF LoaderInv
<1>13. CASE FillBootInfo \/ LoadSection \/ SayGoodbye
  <2>1. /\ \/ pc = "handOver" /\ pc' = "sections"
           \/ pc = "sections" /\ pc' = "sections"
           \/ pc = "sections" /\ pc' = "exit"
        /\ UNCHANGED <<site, file, events, fwFree, mapKey, services, memMap, entries, pools, mapPools, tables, image, higher>>
    BY <1>13 DEF FillBootInfo, LoadSection, SayGoodbye, At, firmware
  <2>2. Holding' /\ Typed'
    BY <1>0, <2>1 DEF Holding, Typed
  <2>3. Ordered'
    BY <1>0, <2>1 DEF Ordered, Steps, Looking, Leaving
  <2> QED
    BY <2>2, <2>3 DEF LoaderInv
<1>14. CASE ExitBootServices
  <2>1. /\ pc = "exit" /\ pc' = "kernel"
        /\ UNCHANGED <<site, file, events, fwFree, mapKey, memMap, entries, pools, mapPools, tables, image, higher>>
    BY <1>14 DEF ExitBootServices, At
  <2>2. services' \in BOOLEAN
    BY <1>14, Zenon DEF ExitBootServices
  <2>3. Holding' /\ Typed'
    BY <1>0, <2>1, <2>2 DEF Holding, Typed
  <2>4. Ordered'
    BY <1>0, <2>1 DEF Ordered, Steps, Looking, Leaving
  <2> QED
    BY <2>3, <2>4 DEF LoaderInv
<1>15. CASE NullFaults
  <2>1. /\ pc \in {"paging", "exit"} /\ pc' = "fault"
        /\ UNCHANGED <<site, file, events, fwFree, mapKey, services, memMap, entries, pools, mapPools,
                       tables, image, higher>>
    BY <1>15 DEF NullFaults, firmware
  <2>2. Holding' /\ Typed'
    BY <1>0, <2>1 DEF Holding, Typed
  <2>3. Ordered'
    BY <1>0, <2>1 DEF Ordered, Steps, Looking, Leaving
  <2> QED
    BY <2>2, <2>3 DEF LoaderInv
<1>16. CASE Stopped \/ UNCHANGED vars
  BY <1>16 DEF Stopped, vars, firmware, LoaderInv, Holding, Typed, Ordered
<1> QED
  BY <1>1, <1>2, <1>3, <1>4, <1>5, <1>6, <1>7, <1>8, <1>9, <1>10, <1>11, <1>12, <1>13, <1>14,
     <1>15, <1>16 DEF Next

LEMMA SpecInv == Spec => []LoaderInv
  BY InitInv, NextInv, PTL DEF Spec

-----------------------------------------------------------------------------
(* The theorems about pages *)

LEMMA CountedApart ==
    ASSUME NEW A, NEW B, IsFiniteSet(A), IsFiniteSet(B), A \cap B = {}
    PROVE  Cardinality(A \cup B) = Cardinality(A) + Cardinality(B)
<1>1. Cardinality(A \cup B) = Cardinality(A) + Cardinality(B) - Cardinality(A \cap B)
  BY FS_Union
<1>2. Cardinality(A \cap B) = 0
  BY FS_EmptySet
<1>3. Cardinality(A) \in Nat /\ Cardinality(B) \in Nat
  BY FS_CardinalityType
<1> QED
  BY <1>1, <1>2, <1>3

\* The variables have their types, and no page is held twice or called free by the
\* firmware while the loader holds it, however the firmware grants memory.
THEOREM TypeCorrect == Spec => []TypeOK
<1>1. LoaderInv => TypeOK
  <2> SUFFICES ASSUME LoaderInv PROVE TypeOK
    OBVIOUS
  <2>0. Holding /\ Typed /\ Ordered
    BY DEF LoaderInv
  <2>1. /\ IsFiniteSet(entries) /\ IsFiniteSet(pools) /\ IsFiniteSet(tables) /\ IsFiniteSet(image)
        /\ IsFiniteSet(tables \cup image) /\ IsFiniteSet(pools \cup (tables \cup image))
    <3>1. /\ entries \subseteq Page /\ pools \subseteq Page /\ tables \subseteq Page
          /\ image \subseteq Page /\ tables \cup image \subseteq Page
          /\ pools \cup (tables \cup image) \subseteq Page
      BY <2>0 DEF Holding
    <3> QED
      BY <3>1, BoundsAssumption, FS_Subset
  <2>2. /\ Cardinality(entries) \in Nat /\ Cardinality(pools) \in Nat
        /\ Cardinality(tables) \in Nat /\ Cardinality(image) \in Nat
        /\ Cardinality({}) = 0
    BY <2>1, FS_CardinalityType, FS_EmptySet
  <2>3. Cardinality(tables \cup image) = Cardinality(tables) + Cardinality(image)
    <3>1. tables \cap image = {}
      BY <2>0 DEF Holding
    <3> QED
      BY <3>1, <2>1, CountedApart
  <2>4. Cardinality(pools \cup (tables \cup image))
          = Cardinality(pools) + Cardinality(tables \cup image)
    <3>1. pools \cap (tables \cup image) = {}
      BY <2>0 DEF Holding
    <3> QED
      BY <3>1, <2>1, CountedApart
  <2>5. Cardinality(entries \cup (pools \cup (tables \cup image)))
          = Cardinality(entries) + Cardinality(pools \cup (tables \cup image))
    <3>1. entries \cap (pools \cup (tables \cup image)) = {}
      BY <2>0 DEF Holding
    <3> QED
      BY <3>1, <2>1, CountedApart
  <2>6. entries \cup (pools \cup (tables \cup image)) = entries \cup pools \cup tables \cup image
    OBVIOUS
  <2>7. Cardinality(entries) + Cardinality(pools) + Cardinality(tables) + Cardinality(image)
          = Cardinality(entries \cup pools \cup tables \cup image)
    <3>1. Cardinality(entries \cup pools \cup tables \cup image)
            = Cardinality(entries \cup (pools \cup (tables \cup image)))
      BY <2>6, Zenon
    <3>2. PICK all, three, two : /\ all = Cardinality(entries \cup (pools \cup (tables \cup image)))
                                 /\ three = Cardinality(pools \cup (tables \cup image))
                                 /\ two = Cardinality(tables \cup image)
      OBVIOUS
    <3>3. /\ all = Cardinality(entries) + three /\ three = Cardinality(pools) + two
          /\ two = Cardinality(tables) + Cardinality(image)
      BY <2>3, <2>4, <2>5, <3>2, Zenon
    <3>4. all = Cardinality(entries) + Cardinality(pools) + Cardinality(tables) + Cardinality(image)
      BY ONLY <2>2, <3>3
    <3> QED
      BY <3>1, <3>2, <3>4, Zenon
  <2> QED
    BY <2>0, <2>7 DEF TypeOK, Holding, Typed, Ordered
<1> QED
  BY <1>1, SpecInv, PTL

\* The map for the kernel is read, and the kernel entered, only with the whole kernel
\* in memory and mapped where it runs: each refusal before that ends in a panic.
THEOREM KernelIsPlaced == Spec => []KernelPlaced
<1>1. LoaderInv => KernelPlaced
  BY DEF LoaderInv, Ordered, KernelPlaced
<1> QED
  BY <1>1, SpecInv, PTL

\* Of all the pages the loader holds, the map the kernel gets offers none but those of
\* the array of its own entries, whatever the firmware took before or after it was read.
THEOREM ImageIsKept == Spec => []ImageKept
<1>1. LoaderInv => ImageKept
  BY DEF LoaderInv, Ordered, ImageKept, Leaving
<1> QED
  BY <1>1, SpecInv, PTL

-----------------------------------------------------------------------------
(* The sections *)

Size == ImagePages * PAGE_SIZE

\* What the image says a section's byte k is.
Described(sec, k) ==
    IF sec.name = ".ldr" THEN (IF k < InfoSize THEN <<"info", k>> ELSE Zero)
    ELSE IF k < sec.SizeOfRawData THEN <<"file", sec.PointerToRawData + k>> ELSE Zero
AsDescribed(mem, sec) ==
    \A k \in 0 .. (sec.VirtualSize - 1) : mem[sec.VirtualAddress + k] = Described(sec, k)

\* The sections loaded so far are as described.
LoadedInv ==
    /\ DOMAIN memory = 0 .. (Size - 1)
    /\ sections = [of |-> sections.of, loaded |-> sections.loaded]
    /\ pc \in {"sections", "exit", "kernel"} =>
          /\ sections.of \in Layouts
          /\ sections.loaded \in 0 .. Len(sections.of)
          /\ \A i \in 1 .. sections.loaded : AsDescribed(memory, sections.of[i])
    /\ pc \in {"exit", "kernel"} => sections.loaded = Len(sections.of)

LEMMA SizeNat == Size \in Nat
  BY BoundsAssumption, LayoutsAssumption DEF Size

LEMMA ExtentCovers ==
    ASSUME NEW sec \in Section
    PROVE  Extent(sec) \in Nat /\ sec.VirtualSize <= Extent(sec) /\ sec.SizeOfRawData <= Extent(sec)
<1>1. sec.VirtualSize \in Nat /\ sec.SizeOfRawData \in Nat
  BY DEF Section
<1> DEFINE P(x) == x \in {sec.VirtualSize, sec.SizeOfRawData}
                   /\ \A y \in {sec.VirtualSize, sec.SizeOfRawData} : x >= y
<1>2. \E x : P(x)
  <2>1. CASE sec.VirtualSize >= sec.SizeOfRawData
    <3>1. P(sec.VirtualSize)
      BY <1>1, <2>1
    <3> QED
      BY <3>1
  <2>2. CASE sec.VirtualSize < sec.SizeOfRawData
    <3>1. P(sec.SizeOfRawData)
      BY <1>1, <2>2
    <3> QED
      BY <3>1
  <2> QED
    BY <1>1, <2>1, <2>2
<1>3. Extent(sec) \in {sec.VirtualSize, sec.SizeOfRawData}
      /\ \A y \in {sec.VirtualSize, sec.SizeOfRawData} : Extent(sec) >= y
  BY <1>2 DEF Extent, Max
<1> QED
  BY <1>1, <1>3

\* Loading a section leaves it as described and touches nothing beyond its extent.
LEMMA Loading ==
    ASSUME NEW mem, DOMAIN mem = 0 .. (Size - 1), NEW sec \in Section,
           sec.VirtualAddress + Extent(sec) <= Size,
           sec.name = ".ldr" => InfoSize <= sec.VirtualSize
    PROVE  /\ DOMAIN SectionLoaded(mem, sec) = 0 .. (Size - 1)
           /\ AsDescribed(SectionLoaded(mem, sec), sec)
           /\ \A a \in 0 .. (Size - 1) : a < sec.VirtualAddress =>
                  SectionLoaded(mem, sec)[a] = mem[a]
<1> DEFINE va == sec.VirtualAddress  vs == sec.VirtualSize  rs == sec.SizeOfRawData
           pr == sec.PointerToRawData
<1>1. va \in Nat /\ vs \in Nat /\ rs \in Nat /\ pr \in Nat
  BY DEF Section
<1>2. va + vs <= Size /\ va + rs <= Size
  BY <1>1, ExtentCovers, SizeNat
<1>3. InfoSize \in Nat /\ Size \in Nat
  BY LayoutsAssumption, SizeNat
<1>4. PICK out : out = SectionLoaded(mem, sec)
  OBVIOUS
<1>5. /\ DOMAIN out = 0 .. (Size - 1)
      /\ \A a \in 0 .. (Size - 1) : out[a] =
            IF sec.name = ".ldr"
            THEN IF a \in va .. (va + InfoSize - 1) THEN <<"info", 0 + a - va>>
                 ELSE IF a \in va .. (va + vs - 1) THEN Zero ELSE mem[a]
            ELSE IF a \in va .. (va + rs - 1) THEN <<"file", pr + a - va>>
                 ELSE IF a \in va .. (va + vs - 1) THEN Zero ELSE mem[a]
  BY <1>4, Zenon DEF SectionLoaded, Zeroed, Copied
<1> HIDE DEF va, vs, rs, pr
<1>6. ASSUME NEW k \in 0 .. (vs - 1) PROVE out[va + k] = Described(sec, k)
  <2>1. va + k \in 0 .. (Size - 1)
    BY <1>1, <1>2, <1>3
  <2>2. /\ 0 + (va + k) - va = k /\ pr + (va + k) - va = pr + k
        /\ va + k \in va .. (va + InfoSize - 1) <=> k < InfoSize
        /\ va + k \in va .. (va + rs - 1) <=> k < rs
        /\ va + k \in va .. (va + vs - 1)
    BY <1>1, <1>3
  <2> QED
    BY <1>5, <2>1, <2>2 DEF Described, rs, pr
<1>7. \A a \in 0 .. (Size - 1) : a < va => out[a] = mem[a]
  BY <1>1, <1>3, <1>5
<1> QED
  BY <1>4, <1>5, <1>6, <1>7 DEF AsDescribed, va, vs

LEMMA InitLoaded == Init => LoadedInv
<1> SUFFICES ASSUME Init PROVE LoadedInv
  OBVIOUS
<1>1. DOMAIN memory = 0 .. (Size - 1)
  BY DEF Init, Size
<1>2. sections = [of |-> sections.of, loaded |-> sections.loaded] /\ pc = "gop"
  BY DEF Init
<1> QED
  BY <1>1, <1>2 DEF LoadedInv

LEMMA NextLoaded == LoaderInv /\ LoadedInv /\ [Next]_vars => LoadedInv'
<1> SUFFICES ASSUME LoaderInv, LoadedInv, [Next]_vars PROVE LoadedInv'
  OBVIOUS
<1>1. CASE FillBootInfo
  <2>1. PICK l \in Layouts : sections' = [of |-> l, loaded |-> 0]
    BY <1>1 DEF FillBootInfo
  <2>2. pc' = "sections" /\ memory' = memory
    BY <1>1 DEF FillBootInfo, At
  <2>3. sections'.of = l /\ sections'.loaded = 0
        /\ sections' = [of |-> sections'.of, loaded |-> sections'.loaded]
    BY <2>1
  <2>4. l \in Seq(Section)
    BY LayoutsAssumption
  <2>5. Len(l) \in Nat
    BY <2>4
  <2> QED
    BY <2>2, <2>3, <2>5 DEF LoadedInv
<1>2. CASE LoadSection
  <2>1. /\ pc = "sections" /\ pc' = "sections" /\ sections.loaded < Len(sections.of)
        /\ memory' = SectionLoaded(memory, sections.of[sections.loaded + 1])
        /\ sections' = [sections EXCEPT !.loaded = @ + 1]
    BY <1>2 DEF LoadSection, At
  <2>2. PICK l, n : l = sections.of /\ n = sections.loaded
    OBVIOUS
  <2>3. /\ l \in Layouts /\ n \in 0 .. Len(l) /\ n < Len(l)
        /\ \A i \in 1 .. n : AsDescribed(memory, l[i])
        /\ DOMAIN memory = 0 .. (Size - 1)
    BY <2>1, <2>2 DEF LoadedInv
  <2>4. sections' = [of |-> l, loaded |-> n + 1]
    BY <2>1, <2>2 DEF LoadedInv
  <2>5. l \in Seq(Section)
    BY <2>3, LayoutsAssumption
  <2>6. Len(l) \in Nat /\ n \in Nat /\ n + 1 \in DOMAIN l /\ DOMAIN l = 1 .. Len(l)
    BY <2>3, <2>5
  <2>7. PICK sec : sec = l[n + 1]
    OBVIOUS
  <2>8. sec \in Section
    BY <2>5, <2>6, <2>7
  <2>9. /\ sec.VirtualAddress + Extent(sec) <= Size
        /\ sec.name = ".ldr" => InfoSize <= sec.VirtualSize
    BY <2>3, <2>6, <2>7, LayoutsAssumption DEF Size
  <2>10. /\ DOMAIN memory' = 0 .. (Size - 1)
         /\ AsDescribed(memory', sec)
         /\ \A a \in 0 .. (Size - 1) : a < sec.VirtualAddress => memory'[a] = memory[a]
    BY <2>1, <2>2, <2>3, <2>7, <2>8, <2>9, Loading
  <2>11. ASSUME NEW i \in 1 .. n PROVE AsDescribed(memory', l[i])
    <3>1. l[i] \in Section /\ i \in DOMAIN l /\ n + 1 \in (i + 1) .. Len(l)
      BY <2>5, <2>6
    <3>2. /\ l[i].VirtualAddress + Extent(l[i]) <= sec.VirtualAddress
          /\ l[i].VirtualAddress + Extent(l[i]) <= Size
      BY <3>1, <2>3, <2>7, LayoutsAssumption DEF Size
    <3>3. /\ l[i].VirtualAddress \in Nat /\ l[i].VirtualSize \in Nat
          /\ sec.VirtualAddress \in Nat
      BY <3>1, <2>8 DEF Section
    <3>4. Extent(l[i]) \in Nat /\ l[i].VirtualSize <= Extent(l[i])
      BY <3>1, ExtentCovers
    <3>5. \A k \in 0 .. (l[i].VirtualSize - 1) :
             /\ l[i].VirtualAddress + k \in 0 .. (Size - 1)
             /\ l[i].VirtualAddress + k < sec.VirtualAddress
      BY <3>2, <3>3, <3>4, SizeNat
    <3>6. AsDescribed(memory, l[i])
      BY <2>3
    <3> QED
      BY <3>5, <3>6, <2>10 DEF AsDescribed
  <2>12. \A i \in 1 .. (n + 1) : AsDescribed(memory', l[i])
    BY <2>6, <2>7, <2>10, <2>11
  <2>13. sections'.of = l /\ sections'.loaded = n + 1
         /\ sections' = [of |-> sections'.of, loaded |-> sections'.loaded]
    BY <2>4
  <2>14. n + 1 \in 0 .. Len(l)
    BY <2>3, <2>6
  <2> QED
    BY <2>1, <2>3, <2>10, <2>12, <2>13, <2>14 DEF LoadedInv
<1>3. CASE SayGoodbye
  BY <1>3 DEF SayGoodbye, loadVars, LoadedInv
<1>4. CASE ExitBootServices
  BY <1>4 DEF ExitBootServices, At, loadVars, LoadedInv
<1>5. ASSUME UNCHANGED <<sections, memory>>,
             pc' = pc \/ pc' \notin {"sections", "exit", "kernel"}
      PROVE  LoadedInv'
  BY <1>5 DEF LoadedInv
<1>6. CASE FirmwareEvent \/ LdrSetupGOP \/ MapPools \/ GetMemoryMap \/ NullFaults
           \/ MmInitPaging \/ OpenKernel
  BY <1>5, <1>6 DEF FirmwareEvent, LdrSetupGOP, MapPools, GetMemoryMap, NullFaults, MmInitPaging,
     OpenKernel, At, loadVars
<1>7. CASE SFsReadFileContent \/ CheckSignatures \/ AllocateImage \/ MapHigherHalf
  BY <1>5, <1>7 DEF SFsReadFileContent, CheckSignatures, AllocateImage, MapHigherHalf, At, loadVars
<1>8. CASE Stopped \/ UNCHANGED vars
  BY <1>5, <1>8 DEF Stopped, vars, loadVars
<1>9. CASE EntriesPool \/ RetrieveFails
  BY <1>5, <1>9 DEF EntriesPool, RetrieveFails, At, loadVars, LoaderInv, Typed
<1> QED
  BY <1>1, <1>2, <1>3, <1>4, <1>6, <1>7, <1>8, <1>9 DEF Next

\* The kernel is entered with every byte of every section as its image describes it,
\* for every image whose sections are apart and any number of them.
THEOREM SectionsArePlaced == Spec => []SectionsPlaced
<1>1. LoadedInv => SectionsPlaced
  <2> SUFFICES ASSUME LoadedInv, pc = "kernel", NEW i \in DOMAIN sections.of
               PROVE  AsDescribed(memory, sections.of[i])
    BY DEF SectionsPlaced, AsDescribed, Described
  <2>1. sections.of \in Layouts /\ sections.loaded = Len(sections.of)
        /\ \A j \in 1 .. sections.loaded : AsDescribed(memory, sections.of[j])
    BY DEF LoadedInv
  <2>2. sections.of \in Seq(Section)
    BY <2>1, LayoutsAssumption
  <2>3. DOMAIN sections.of = 1 .. Len(sections.of)
    BY <2>2
  <2> QED
    BY <2>1, <2>3
<1> QED
  BY <1>1, SpecInv, InitLoaded, NextLoaded, PTL DEF Spec

-----------------------------------------------------------------------------
(* The loader's screen *)

\* The terminal is not full, and nothing is shown without a screen.
Open(s) ==
    /\ IsScreen(s) /\ Sized(s) /\ (~s.init => s.shown = {})
    /\ Legible(s) /\ (s.height > 10 => s.y < s.height)

LEMMA LdrCleared ==
    ASSUME NEW s, IsScreen(s), Sized(s), ~s.init => s.shown = {}, NEW t, t = LdrTermClear(s)
    PROVE  Open(t)
<1>1. PICK color : color = "dark green"
  OBVIOUS
<1>2. PICK u : u = IF s.init THEN Wipe(s, color) ELSE s
  OBVIOUS
<1>3. IsScreen(u) /\ Sized(u) /\ SameFrame(s, u) /\ u.shown = {}
  <2>1. CASE s.init
    <3>1. u = Wipe(s, color)
      BY <1>2, <2>1
    <3> QED
      BY ONLY <3>1, IsScreen(s), Sized(s), Wiped
  <2>2. CASE ~s.init
    BY <1>2, <2>2 DEF SameFrame
  <2> QED
    BY <2>1, <2>2
<1>4. PICK first \in Nat : first = 10
  OBVIOUS
<1>5. t = CursorAt(u, first, first)
  BY <1>1, <1>2, <1>4 DEF LdrTermClear, CursorAt
<1>6. /\ IsScreen(t) /\ Sized(t) /\ t.shown = u.shown /\ t.y = first
  <2>1. IsScreen(u) /\ Sized(u)
    BY <1>3
  <2> QED
    BY ONLY <1>5, <2>1, first \in Nat, Moved
<1>7. t.shown = {} /\ t.y = 10 /\ t.height \in Nat
  BY <1>3, <1>4, <1>6 DEF Sized
<1>8. Legible(t)
  BY <1>7 DEF Legible
<1> QED
  BY <1>6, <1>7, <1>8 DEF Open

LEMMA LdrPutKeeps ==
    ASSUME NEW s, Open(s), NEW newLine \in BOOLEAN, NEW what,
           NEW t, t = LdrTermPuts(s, newLine, what)
    PROVE  Open(t)
<1>1. PICK color : color = "white"
  OBVIOUS
<1>2. PICK box : box = Box(what, s.x, s.y, 1, color)
  OBVIOUS
<1>3. PICK v : v = DrawString(s, {box})
  OBVIOUS
<1>4. PICK w \in Nat : w = 8 * Length(what)
  BY LengthNat
<1>5. s.x \in Nat /\ s.y \in Nat /\ s.height \in Nat /\ s.init \in BOOLEAN
  BY DEF Open, Sized
<1>6. box.x = s.x /\ box.y = s.y /\ box.w = w /\ box.h = 12
  <2>1. Length(what) \in Nat
    BY LengthNat
  <2> QED
    BY <1>2, <1>4, <2>1 DEF Box
<1>7. /\ IsScreen(v) /\ Sized(v) /\ SameFrame(s, v) /\ v.x = s.x /\ v.y = s.y
      /\ s.init => v.shown = s.shown \cup {box}
      /\ ~s.init => v.shown = {}
  <2>1. CASE s.init
    <3>1. PICK boxes : boxes = {box}
      OBVIOUS
    <3>2. boxes # {} /\ \A b \in boxes : b.x \in Nat /\ b.y \in Nat /\ b.w \in Nat /\ b.h \in Nat
      BY <1>5, <1>6, <3>1
    <3>3. v = DrawString(s, boxes) /\ IsScreen(s) /\ Sized(s)
      BY <1>3, <3>1 DEF Open
    <3>4. /\ IsScreen(v) /\ Sized(v) /\ SameFrame(s, v)
          /\ v.shown = s.shown \cup boxes /\ v.x = s.x /\ v.y = s.y
      BY ONLY <2>1, <3>2, <3>3, Drawn
    <3> QED
      BY <2>1, <3>1, <3>4
  <2>2. CASE ~s.init
    <3>1. v = s
      BY <1>3, <2>2 DEF DrawString
    <3> QED
      BY <2>2, <3>1 DEF Open, SameFrame
  <2> QED
    BY <2>1, <2>2
<1>8. v.init = s.init /\ v.height = s.height
  BY <1>7 DEF SameFrame
<1>9. ASSUME NEW x \in Nat, NEW y \in Nat, NEW u, u = CursorAt(v, x, y),
             (x = s.x + w /\ y = s.y) \/ y = s.y + 12 \/ (~s.init /\ y = s.y)
      PROVE  /\ IsScreen(u) /\ Sized(u) /\ (~u.init => u.shown = {})
             /\ u.y = y /\ u.height = s.height
             /\ Legible(u)
  <2>1. /\ IsScreen(u) /\ Sized(u) /\ SameFrame(v, u)
        /\ u.shown = v.shown /\ u.x = x /\ u.y = y
    <3>1. IsScreen(v) /\ Sized(v)
      BY <1>7
    <3> QED
      BY ONLY u = CursorAt(v, x, y), <3>1, x \in Nat, y \in Nat, Moved
  <2>2. u.height = s.height /\ u.init = s.init
    BY <1>8, <2>1 DEF SameFrame
  <2>3. CASE s.init
    <3>1. Sized(s) /\ Legible(s) /\ (s.height > 10 => s.y < s.height)
      BY DEF Open
    <3>2. u.shown = s.shown \cup {box}
      BY <1>7, <2>1, <2>3
    <3>3. (u.x = s.x + w /\ u.y = s.y) \/ u.y = s.y + 12
      BY <1>9, <2>1, <2>3
    <3>4. Legible(u)
      BY <1>6, <2>2, <3>1, <3>2, <3>3, OneMore
    <3> QED
      BY <2>1, <2>2, <2>3, <3>4
  <2>4. CASE ~s.init
    <3>1. u.shown = {}
      BY <1>7, <2>1, <2>4
    <3>2. u.height > 10 => u.y < u.height + 12
      BY <1>5, <1>9, <2>1, <2>2 DEF Open
    <3>3. Legible(u)
      BY <3>1, <3>2 DEF Legible
    <3> QED
      BY <2>1, <2>2, <3>1, <3>3
  <2> QED
    BY <1>5, <2>3, <2>4
<1>10. CASE newLine
  <2>1. PICK x \in Nat : x = 10
    OBVIOUS
  <2>2. PICK y \in Nat : y = s.y + 12
    BY <1>5
  <2>3. PICK u : u = CursorAt(v, x, y)
    OBVIOUS
  <2>4. t = IF Full(u) THEN LdrTermClear(u) ELSE u
    BY <1>1, <1>2, <1>3, <1>7, <1>10, <2>1, <2>2, <2>3 DEF LdrTermPuts, CursorAt
  <2>5. /\ IsScreen(u) /\ Sized(u) /\ (~u.init => u.shown = {})
        /\ u.y = y /\ u.height = s.height
        /\ Legible(u)
    BY <1>9, <2>2, <2>3
  <2>6. CASE Full(u)
    <3>1. t = LdrTermClear(u)
      BY <2>4, <2>6
    <3> QED
      BY <2>5, <3>1, LdrCleared
  <2>7. CASE ~Full(u)
    <3>1. t = u /\ u.y < u.height
      BY <1>5, <2>4, <2>5, <2>7 DEF Full
    <3> QED
      BY <2>5, <3>1 DEF Open
  <2> QED
    BY <2>6, <2>7
<1>11. CASE ~newLine
  <2>1. PICK x \in Nat : x = IF s.init THEN s.x + w ELSE s.x
    BY <1>5
  <2>2. PICK y \in Nat : y = s.y
    BY <1>5
  <2>3. PICK u : u = CursorAt(v, x, y)
    OBVIOUS
  <2>4. t = u
    <3>1. t = [v EXCEPT !.x = IF s.init THEN v.x + 8 * Length(what) ELSE v.x]
      BY <1>1, <1>2, <1>3, <1>11 DEF LdrTermPuts
    <3>2. t = [v EXCEPT !.x = x]
      BY <1>4, <1>7, <2>1, <3>1
    <3>3. u = [v EXCEPT !.x = x, !.y = v.y]
      BY <1>7, <2>2, <2>3 DEF CursorAt
    <3> QED
      BY <1>7, <3>2, <3>3 DEF IsScreen
  <2>5. /\ IsScreen(u) /\ Sized(u) /\ (~u.init => u.shown = {})
        /\ u.y = y /\ u.height = s.height
        /\ Legible(u)
    BY <1>5, <1>9, <2>1, <2>2, <2>3
  <2> QED
    BY <2>2, <2>4, <2>5 DEF Open
<1> QED
  BY <1>10, <1>11

\* One more line, and screens line by line.
LdrLine(t) == LdrTermPuts(LdrTermPuts(t, FALSE, T("[ ] ")), TRUE, T("log"))
LdrPrinted(f, s, n) ==
    f = [i \in 0 .. n |-> IF i = 0 THEN {s} ELSE {LdrLine(t) : t \in f[i - 1]}]

LEMMA LdrPrintedThere == ASSUME NEW s, NEW n \in Nat PROVE \E f : LdrPrinted(f, s, n)
<1> DEFINE Bad == {m \in Nat : ~\E f : LdrPrinted(f, s, m)}
<1> SUFFICES ASSUME Bad # {} PROVE FALSE
  OBVIOUS
<1>1. PICK m \in Nat : m \in Bad /\ \A k \in Bad : m <= k
  BY LeastNumber
<1>2. CASE m = 0
  <2>1. PICK g : g = [i \in 0 .. 0 |-> {s}]
    OBVIOUS
  <2>2. LdrPrinted(g, s, 0)
    BY <2>1 DEF LdrPrinted
  <2> QED
    BY <1>1, <1>2, <2>2
<1>3. CASE m # 0
  <2>1. m - 1 \in Nat /\ m - 1 \notin Bad
    BY <1>1, <1>3
  <2>2. PICK f : LdrPrinted(f, s, m - 1)
    BY <2>1
  <2>3. PICK g : g = [i \in 0 .. m |-> IF i = m THEN {LdrLine(t) : t \in f[m - 1]} ELSE f[i]]
    OBVIOUS
  <2>4. \A i \in 0 .. (m - 1) : f[i] = IF i = 0 THEN {s} ELSE {LdrLine(t) : t \in f[i - 1]}
    BY <2>2 DEF LdrPrinted
  <2>5. \A i \in 0 .. m : g[i] = IF i = 0 THEN {s} ELSE {LdrLine(t) : t \in g[i - 1]}
    <3> SUFFICES ASSUME NEW i \in 0 .. m
                 PROVE  g[i] = IF i = 0 THEN {s} ELSE {LdrLine(t) : t \in g[i - 1]}
      OBVIOUS
    <3>1. CASE i = m
      <4>1. g[m] = {LdrLine(t) : t \in f[m - 1]} /\ g[m - 1] = f[m - 1]
        BY <1>1, <1>3, <2>1, <2>3
      <4> QED
        BY <1>3, <3>1, <4>1
    <3>2. CASE i # m /\ i = 0
      <4>1. i \in 0 .. (m - 1)
        BY <1>1, <3>2
      <4>2. g[i] = f[i] /\ f[i] = {s}
        BY <2>3, <2>4, <3>2, <4>1
      <4> QED
        BY <3>2, <4>2
    <3>3. CASE i # m /\ i # 0
      <4>1. i \in 0 .. (m - 1) /\ i - 1 \in 0 .. (m - 1)
        BY <1>1, <3>3
      <4>2. g[i] = f[i] /\ g[i - 1] = f[i - 1]
        BY <2>3, <4>1
      <4> QED
        BY <2>4, <3>3, <4>1, <4>2
    <3> QED
      BY <3>1, <3>2, <3>3
  <2>6. g = [i \in 0 .. m |-> IF i = 0 THEN {s} ELSE {LdrLine(t) : t \in g[i - 1]}]
    <3>1. g = [i \in 0 .. m |-> g[i]]
      BY <2>3
    <3> QED
      BY <2>5, <3>1
  <2>7. LdrPrinted(g, s, m)
    BY <2>6 DEF LdrPrinted
  <2> QED
    BY <1>1, <2>7
<1> QED
  BY <1>2, <1>3

LEMMA LdrPrintIs ==
    ASSUME NEW s, NEW n \in Nat, NEW t \in LdrTermPrint(s, n)
    PROVE  \E f : LdrPrinted(f, s, n) /\ t \in f[n]
<1>1. PICK f : f = CHOOSE g : LdrPrinted(g, s, n)
  OBVIOUS
<1>2. LdrPrinted(f, s, n)
  BY <1>1, LdrPrintedThere
<1>3. LdrTermPrint(s, n) = f[n]
  <2> DEFINE Two(X) == {LdrTermPuts(u, TRUE, T("log")) : u \in {LdrTermPuts(v, FALSE, T("[ ] ")) : v \in X}}
             Rec(g) == g = [i \in 0 .. n |-> IF i = 0 THEN {s} ELSE Two(g[i - 1])]
  <2>1. LdrTermPrint(s, n) = (CHOOSE g : Rec(g))[n]
    BY DEF LdrTermPrint
  <2>2. \A X : Two(X) = {LdrLine(v) : v \in X}
    BY DEF LdrLine
  <2>3. \A g : Rec(g) <=> LdrPrinted(g, s, n)
    <3> HIDE DEF Two
    <3> QED
      BY <2>2 DEF LdrPrinted
  <2>4. (CHOOSE g : Rec(g)) = CHOOSE g : LdrPrinted(g, s, n)
    <3> HIDE DEF Rec
    <3> QED
      BY <2>3
  <2> QED
    BY <1>1, <2>1, <2>4
<1> QED
  BY <1>2, <1>3

LEMMA LdrLineKeeps == ASSUME NEW s, Open(s), NEW t, t = LdrLine(s) PROVE Open(t)
<1>1. PICK no \in BOOLEAN : no = FALSE
  OBVIOUS
<1>2. PICK yes \in BOOLEAN : yes = TRUE
  OBVIOUS
<1>3. PICK tag, log : tag = T("[ ] ") /\ log = T("log")
  OBVIOUS
<1>4. PICK u : u = LdrTermPuts(s, no, tag)
  OBVIOUS
<1>5. t = LdrTermPuts(u, yes, log)
  BY <1>1, <1>2, <1>3, <1>4 DEF LdrLine
<1>6. Open(u)
  BY ONLY <1>4, Open(s), no \in BOOLEAN, LdrPutKeeps
<1> QED
  BY ONLY <1>5, <1>6, yes \in BOOLEAN, LdrPutKeeps

LEMMA LdrPrintKeeps ==
    ASSUME NEW s, Open(s), NEW n \in Nat, NEW t \in LdrTermPrint(s, n)
    PROVE  Open(t)
<1>1. PICK f : LdrPrinted(f, s, n) /\ t \in f[n]
  BY LdrPrintIs
<1>2. \A i \in 0 .. n : f[i] = IF i = 0 THEN {s} ELSE {LdrLine(u) : u \in f[i - 1]}
  BY <1>1 DEF LdrPrinted
<1>3. \A u : Open(u) => Open(LdrLine(u))
  BY LdrLineKeeps
<1> DEFINE Bad == {i \in 0 .. n : \E u \in f[i] : ~Open(u)}
<1>4. Bad = {}
  <2> SUFFICES ASSUME Bad # {} PROVE FALSE
    OBVIOUS
  <2>1. Bad \subseteq Nat
    OBVIOUS
  <2>2. PICK m \in Bad : \A k \in Bad : m <= k
    <3> HIDE DEF Bad
    <3> QED
      BY <2>1, LeastNumber
  <2>3. PICK u \in f[m] : ~Open(u)
    BY <2>2
  <2>4. CASE m = 0
    <3>1. f[m] = {s}
      BY <1>2, <2>4
    <3> QED
      BY <2>3, <3>1
  <2>5. CASE m # 0
    <3>1. m - 1 \in 0 .. n /\ m - 1 \notin Bad /\ m \in 0 .. n
      BY <2>2, <2>5
    <3>2. f[m] = {LdrLine(v) : v \in f[m - 1]}
      BY <1>2, <2>5, <3>1
    <3>3. PICK v \in f[m - 1] : u = LdrLine(v)
      BY <2>3, <3>2
    <3>4. Open(v)
      BY <3>1, <3>3
    <3> QED
      BY <1>3, <2>3, <3>3, <3>4
  <2> QED
    BY <2>4, <2>5
<1>5. n \in 0 .. n
  OBVIOUS
<1> QED
  BY <1>1, <1>4, <1>5

\* A panic's two messages.
LEMMA LdrPanicShows ==
    ASSUME NEW s, Open(s), NEW t, t = LdrPanic(s)
    PROVE  /\ IsScreen(t) /\ Sized(t)
           /\ \A a, b \in t.shown : a # b => Apart(a, b)
           /\ t.init /\ t.height >= 62 /\ t.width >= 10 + 8 * MessageLength =>
                \E b \in t.shown : b.what = T("message") /\ Inside(t, b)
<1>1. CASE ~s.init
  BY <1>1 DEF LdrPanic, Open
<1>2. CASE s.init
  <2>1. PICK color : color = "blue"
    OBVIOUS
  <2>2. PICK u : u = Wipe(s, color)
    OBVIOUS
  <2>3. PICK large, small : /\ large = Box(T("message"), 10, 10, 2, "white")
                            /\ small = Box(T("message"), 10, 50, 1, "white")
    OBVIOUS
  <2>4. PICK boxes : boxes = {large, small}
    OBVIOUS
  <2>5. t = DrawString(u, boxes)
    BY <1>2, <2>1, <2>2, <2>3, <2>4 DEF LdrPanic
  <2>6. IsScreen(u) /\ Sized(u) /\ SameFrame(s, u) /\ u.shown = {}
    <3>1. IsScreen(s) /\ Sized(s)
      BY DEF Open
    <3> QED
      BY ONLY <2>2, <3>1, Wiped
  <2>7. PICK length \in Nat : length = Length(T("message"))
    BY LengthNat
  <2>8. /\ large.x = 10 /\ large.y = 10 /\ large.w = 16 * length /\ large.h = 24
        /\ small.x = 10 /\ small.y = 50 /\ small.w = 8 * length /\ small.h = 12
        /\ small.what = T("message")
    BY <2>3, <2>7 DEF Box
  <2>9. boxes # {} /\ \A b \in boxes : b.x \in Nat /\ b.y \in Nat /\ b.w \in Nat /\ b.h \in Nat
    BY <2>4, <2>8
  <2>10. IsScreen(t) /\ Sized(t) /\ SameFrame(u, t) /\ t.shown = u.shown \cup boxes
    <3>1. IsScreen(u) /\ Sized(u)
      BY <2>6
    <3>2. u.init
      BY <1>2, <2>6 DEF SameFrame
    <3> QED
      BY ONLY <2>5, <2>9, <3>1, <3>2, Drawn
  <2>11. t.shown = {large, small}
    BY <2>4, <2>6, <2>10
  <2>12. Apart(large, small) /\ Apart(small, large)
    BY <2>8 DEF Apart
  <2>13. Length(T("message")) = MessageLength
    <3>1. PICK what : what = T("message")
      OBVIOUS
    <3>2. \A a, b : T(a) = T(b) => a = b
      BY DEF T
    <3>3. what \notin {T("[ ] "), T("      "), T("PANIC"), T("has panicked"), T("INFO"),
                      T("Please report"), T("Starting Nearlands"), T("/"), T("log")}
      BY <3>1, <3>2
    <3>4. Length(what) = MessageLength
      BY <3>3 DEF Length
    <3> QED
      BY <3>1, <3>4
  <2>14. ASSUME t.height >= 62, t.width >= 10 + 8 * MessageLength PROVE Inside(t, small)
    <3>1. t.height \in Nat /\ t.width \in Nat
      BY <2>10 DEF Sized
    <3> QED
      BY <2>7, <2>8, <2>13, <2>14, <3>1 DEF Inside
  <2> QED
    BY <2>8, <2>10, <2>11, <2>12, <2>14
<1> QED
  BY <1>1, <1>2

\* The screen of a panic.
Panicked(s) ==
    /\ IsScreen(s) /\ Sized(s)
    /\ \A a, b \in s.shown : a # b => Apart(a, b)
    /\ s.init /\ s.height >= 62 /\ s.width >= 10 + 8 * MessageLength =>
         \E b \in s.shown : b.what = T("message") /\ Inside(s, b)

\* Nothing is printed after a panic.
ReadInv ==
    /\ pc = "gop" => scr = NoScreen
    /\ pc # "panic" => Open(scr)
    /\ pc = "panic" => Panicked(scr)

LEMMA NoScreenOpen == Open(NoScreen)
<1>1. IsScreen(NoScreen)
  BY DEF IsScreen, NoScreen
<1>2. /\ Sized(NoScreen) /\ NoScreen.shown = {} /\ NoScreen.height = 0
  BY DEF Sized, NoScreen
<1>3. Legible(NoScreen)
  BY <1>2 DEF Legible
<1> QED
  BY <1>1, <1>2, <1>3 DEF Open

LEMMA GopReads == ASSUME ReadInv, LdrSetupGOP PROVE ReadInv'
<1>1. pc = "gop" /\ pc' = "mapPool" /\ scr = NoScreen
  BY DEF LdrSetupGOP, ReadInv
<1>2. CASE UNCHANGED scr
  BY <1>1, <1>2, NoScreenOpen DEF ReadInv
<1>3. ASSUME NEW data \in Screens, scr' = GraphicsSetup(scr, data, "term") PROVE ReadInv'
  <2>1. PICK t : t = GraphicsSetup(NoScreen, data, "term")
    OBVIOUS
  <2>2. /\ data.width \in Nat /\ data.height \in Nat /\ data.pixelsPerScanLine \in Nat
        /\ data.size \in Nat /\ data.width <= data.pixelsPerScanLine
        /\ data.height * data.pixelsPerScanLine <= data.size
    BY ScreensAssumption DEF Framebuffer
  <2>3. /\ t.init = TRUE /\ t.width = data.width /\ t.height = data.height /\ t.size = data.size
        /\ t.pixelsPerScanLine = data.pixelsPerScanLine
        /\ t.x = 10 /\ t.y = 10 /\ t.reach = 0 /\ t.shown = {}
    BY <2>1 DEF GraphicsSetup, NoScreen
  <2>4. IsScreen(t)
    BY <2>1 DEF GraphicsSetup, NoScreen, IsScreen
  <2>5. Sized(t)
    <3>1. t.init \in BOOLEAN
      BY <2>3
    <3>2. t.reach <= t.size
      BY <2>2, <2>3
    <3> QED
      BY <2>2, <2>3, <3>1, <3>2 DEF Sized
  <2>6. Legible(t) /\ (t.height > 10 => t.y < t.height)
    BY <2>2, <2>3 DEF Legible
  <2>7. Open(t)
    BY <2>3, <2>4, <2>5, <2>6 DEF Open
  <2>8. scr' = t
    BY <1>1, <1>3, <2>1
  <2> QED
    BY <1>1, <2>7, <2>8 DEF ReadInv
<1> QED
  BY <1>2, <1>3 DEF LdrSetupGOP

LEMMA PrintReads ==
    ASSUME ReadInv, pc # "panic", pc' \notin {"gop", "panic"}, NEW lines \in Nat,
           NEW s, s = scr \/ s = LdrTermClear(scr), scr' \in LdrTermPrint(s, lines)
    PROVE  ReadInv'
<1>1. Open(scr)
  BY DEF ReadInv
<1>2. Open(s)
  <2>1. CASE s = LdrTermClear(scr)
    <3>1. PICK u : u = scr
      OBVIOUS
    <3>2. IsScreen(u) /\ Sized(u) /\ (~u.init => u.shown = {}) /\ s = LdrTermClear(u)
      BY <1>1, <2>1, <3>1 DEF Open
    <3> QED
      BY ONLY <3>2, LdrCleared
  <2> QED
    BY <1>1, <2>1
<1>3. PICK t : t = scr'
  OBVIOUS
<1>4. t \in LdrTermPrint(s, lines)
  BY <1>3
<1>5. Open(t)
  BY ONLY <1>2, <1>4, lines \in Nat, LdrPrintKeeps
<1> QED
  BY <1>3, <1>5 DEF ReadInv

LEMMA PanicReads ==
    ASSUME ReadInv, pc # "panic", pc' = "panic", scr' = LdrPanic(scr) PROVE ReadInv'
<1>1. PICK s : s = scr
  OBVIOUS
<1>2. PICK t : t = scr'
  OBVIOUS
<1>3. Open(s) /\ t = LdrPanic(s)
  BY <1>1, <1>2 DEF ReadInv
<1>4. /\ IsScreen(t) /\ Sized(t)
      /\ \A a, b \in t.shown : a # b => Apart(a, b)
      /\ t.init /\ t.height >= 62 /\ t.width >= 10 + 8 * MessageLength =>
           \E b \in t.shown : b.what = T("message") /\ Inside(t, b)
  BY ONLY <1>3, LdrPanicShows
<1>5. Panicked(t)
  BY <1>4 DEF Panicked
<1> QED
  BY <1>2, <1>5 DEF ReadInv

LEMMA AtReads ==
    ASSUME ReadInv, NEW here, NEW there, NEW lines \in Nat, At(here, there, lines),
           here # "panic", there # "gop"
    PROVE  ReadInv'
<1>1. pc = here /\ pc' = there
  BY DEF At
<1>2. CASE there = "panic"
  <2>1. scr' = LdrPanic(scr)
    BY <1>2 DEF At
  <2> QED
    BY <1>1, <1>2, <2>1, PanicReads
<1>3. CASE there # "panic"
  <2>1. scr' \in LdrTermPrint(scr, lines)
    BY <1>3 DEF At
  <2>2. PICK s : s = scr
    OBVIOUS
  <2> QED
    BY <1>1, <1>3, <2>1, <2>2, PrintReads
<1> QED
  BY <1>2, <1>3

\* A step of the loader that prints.
Prints == \E here \in Steps \ {"panic"}, there \in Steps \ {"gop"}, lines \in 0 .. 4 :
             At(here, there, lines)

LEMMA StepsPrint ==
    ASSUME Typed,
           MapPools \/ GetMemoryMap \/ EntriesPool \/ RetrieveFails \/ MmInitPaging
             \/ SFsReadFileContent \/ CheckSignatures \/ AllocateImage \/ MapHigherHalf
             \/ FillBootInfo \/ LoadSection \/ ExitBootServices
    PROVE  Prints
<1>1. ASSUME NEW here \in Steps \ {"panic"}, NEW there \in Steps \ {"gop"},
             NEW lines \in 0 .. 4, At(here, there, lines)
      PROVE  Prints
  BY <1>1 DEF Prints
<1> USE DEF Steps
<1>2. CASE MapPools
  BY <1>1, <1>2 DEF MapPools
<1>3. CASE GetMemoryMap
  BY <1>1, <1>3 DEF GetMemoryMap
<1>4. CASE EntriesPool
  <2>1. site \in Steps \ {"gop"}
    BY DEF Typed
  <2> QED
    BY <1>1, <1>4, <2>1 DEF EntriesPool
<1>5. CASE MmInitPaging
  BY <1>1, <1>5 DEF MmInitPaging
<1>6. CASE SFsReadFileContent
  BY <1>1, <1>6 DEF SFsReadFileContent
<1>7. CASE CheckSignatures
  BY <1>1, <1>7 DEF CheckSignatures
<1>8. CASE AllocateImage
  BY <1>1, <1>8 DEF AllocateImage
<1>9. CASE MapHigherHalf
  BY <1>1, <1>9 DEF MapHigherHalf
<1>10. CASE FillBootInfo
  <2>1. PICK lines \in 0 .. 4 : At("handOver", "sections", lines)
    BY <1>10 DEF FillBootInfo
  <2> QED
    BY <1>1, <2>1
<1>11. CASE LoadSection
  BY <1>1, <1>11 DEF LoadSection
<1>12. CASE RetrieveFails
  <2>1. site \in Steps \ {"gop"}
    BY DEF Typed
  <2> QED
    BY <1>1, <1>12, <2>1 DEF RetrieveFails
<1>13. CASE ExitBootServices
  BY <1>1, <1>13 DEF ExitBootServices
<1> QED
  BY <1>2, <1>3, <1>4, <1>5, <1>6, <1>7, <1>8, <1>9, <1>10, <1>11, <1>12, <1>13

LEMMA ReadNext == LoaderInv /\ ReadInv /\ [Next]_vars => ReadInv'
<1> SUFFICES ASSUME LoaderInv, ReadInv, [Next]_vars PROVE ReadInv'
  OBVIOUS
<1>1. CASE FirmwareEvent \/ Stopped \/ UNCHANGED vars
  BY <1>1 DEF FirmwareEvent, Stopped, vars, ReadInv
<1>2. CASE LdrSetupGOP
  BY <1>2, GopReads
<1>3. CASE SayGoodbye
  <2>1. PICK u \in LdrTermPrint(scr, 2) :
          scr' = LdrTermPuts(LdrTermPuts(u, TRUE, T("log")), TRUE, T("log"))
    BY <1>3 DEF SayGoodbye
  <2>2. pc = "sections" /\ pc' = "exit"
    BY <1>3 DEF SayGoodbye
  <2>3. Open(u)
    <3>1. PICK s, n : s = scr /\ n = 2
      OBVIOUS
    <3>2. Open(s) /\ n \in Nat /\ u \in LdrTermPrint(s, n)
      BY <2>1, <2>2, <3>1 DEF ReadInv
    <3> QED
      BY ONLY <3>2, LdrPrintKeeps
  <2>4. PICK yes, log : yes = TRUE /\ log = T("log")
    OBVIOUS
  <2>5. PICK v : v = LdrTermPuts(u, yes, log)
    OBVIOUS
  <2>6. PICK w : w = LdrTermPuts(v, yes, log)
    OBVIOUS
  <2>7. yes \in BOOLEAN
    BY <2>4
  <2>8. Open(v)
    BY ONLY <2>3, <2>5, <2>7, LdrPutKeeps
  <2>9. Open(w)
    BY ONLY <2>6, <2>7, <2>8, LdrPutKeeps
  <2>10. scr' = w
    BY <2>1, <2>4, <2>5, <2>6
  <2> QED
    BY <2>2, <2>9, <2>10 DEF ReadInv
<1>4. CASE OpenKernel
  <2>1. CASE pc = "sfs" /\ pc' = "panic" /\ scr' = LdrPanic(scr)
    BY <2>1, PanicReads
  <2>2. CASE pc = "sfs" /\ pc' = "read" /\ scr' \in LdrTermPrint(LdrTermClear(scr), 1)
    <3>1. PICK s : s = LdrTermClear(scr)
      OBVIOUS
    <3>2. PICK lines \in Nat : lines = 1
      OBVIOUS
    <3>3. scr' \in LdrTermPrint(s, lines)
      BY <2>2, <3>1, <3>2
    <3> QED
      BY <2>2, <3>1, <3>3, PrintReads
  <2> QED
    BY <1>4, <2>1, <2>2 DEF OpenKernel
<1>5. CASE Prints
  <2>1. PICK here \in Steps \ {"panic"}, there \in Steps \ {"gop"}, lines \in 0 .. 4 :
          At(here, there, lines)
    BY <1>5 DEF Prints
  <2>2. here # "panic" /\ there # "gop" /\ lines \in Nat
    OBVIOUS
  <2> QED
    BY <2>1, <2>2, AtReads
<1>6. Typed
  BY DEF LoaderInv
<1>7. CASE NullFaults
  BY <1>7 DEF NullFaults, ReadInv
<1> QED
  BY <1>1, <1>2, <1>3, <1>4, <1>5, <1>6, <1>7, StepsPrint DEF Next

\* The loader draws only into the framebuffer, on any screen the firmware reports, no text
\* over another, and where there is room the message of a panic can be read in full.
THEOREM LoaderIsReadable == Spec => []LoaderReadable
<1>1. Init => ReadInv
  BY NoScreenOpen DEF Init, ReadInv
<1>2. ReadInv => LoaderReadable
  <2>1. CASE pc = "panic"
    BY <2>1 DEF ReadInv, Panicked, Sized, LoaderReadable
  <2>2. CASE pc # "panic"
    BY <2>2 DEF ReadInv, Open, Sized, Legible, LoaderReadable
  <2> QED
    BY <2>1, <2>2
<1> QED
  BY <1>1, <1>2, SpecInv, ReadNext, PTL DEF Spec
=============================================================================
