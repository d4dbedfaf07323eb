---------------------------- MODULE KernelStart ----------------------------
(***************************************************************************)
(* The start of the kernel: KeSystemStartup (narnify/src/entry.c) sets up  *)
(* one part after the other (mm.c, ke.c, acpi.c, apic.c) and panics when   *)
(* one of them fails; exceptions of the CPU panic as well (idt.c).  What   *)
(* a panic says is printed on a terminal that shares the screen with the   *)
(* splash screen (panic.c, term.c).                                        *)
(*                                                                         *)
(* uACPI (narnify/src/extern/uACPI) is the environment of this module:    *)
(* what it does while it is being set up is not followed, only that it     *)
(* calls the kernel through uacpiwrap.c, one call after the other, and     *)
(* that the calls that allocate take the allocator's spin lock.  There is  *)
(* one CPU.                                                                *)
(***************************************************************************)
EXTENDS Screen, FiniteSets

CONSTANTS
    Screens,        \* what the loader may report of the screen
    MaxLog,         \* bound: lines a step of the start prints
    MaxRow,         \* bound: uACPI calls while the cursor is above this row
    Vectors         \* vectors of exceptions and interrupts that may strike

ASSUME ScreensAssumption == Screens \subseteq Framebuffer
ASSUME BoundsAssumption == MaxLog \in Nat \ {0} /\ MaxRow \in Nat
ASSUME VectorsAssumption == Vectors \subseteq 0 .. 255

VARIABLES
    pc,         \* the next step of KeSystemStartup
    mapped,     \* areas outside of memory that the page tables in use map
    call,       \* uACPI's call of the allocator: its kind and how far it is
    lock,       \* allocSpinLock is set
    spin,       \* uACPI's spin lock: "none", "clear" or "set"
    scr,        \* the screen
    serial,     \* history: what a panic has written to the serial line
    panic,      \* the next step of a panic; 0 when there is none
    cause       \* history: the status or the vector of the last panic

callVars == <<call, lock, spin>>
vars == <<pc, mapped, callVars, scr, serial, panic, cause>>

Areas == {"framebuffer", "lapic"}

\* Some lines are printed, with the tag of TERM_STATUS_PASS.
Logs(lines) == \E n \in lines : scr' \in KeTermPrint(scr, 4, n)

-----------------------------------------------------------------------------
(* Panics *)

\* Statuses that have a text in statusToString.
Named == {"OUT_OF_MEMORY", "NO_VALID_MEMORY", "PMM_FAIL", "GALLOC_FAIL",
          "CANT_CREATE_ECS_COMP", "UACPI_INIT_FAIL", "ACPI_NAMESPACE_FAIL",
          "ACPI_GPE_FAIL", "NOT_FOUND"}

\* A status without a text is printed as a number.
KeNrStatusToString(status) ==
    IF status \in Named THEN T(status) ELSE [number |-> status]

PanicPalette == <<"navy", "white", "maroon", "office green", "olive", "white", "brown">>

\* Mutant of PanicInitialize: the screen is not taken over.
PanicInitializeHidden == scr' = KeTermClear(KeTermChangePalette(scr, PanicPalette))

\* A panic takes the screen over, in its own colours, and wipes it.
PanicInitialize ==
    scr' = KeTermClear(KeTermChangePalette([scr EXCEPT !.owner = "term"], PanicPalette))

\* What a panic prints, call by call: a tag, the rest of a line, or two lines down.
Tag(c) == [newLine |-> FALSE, text |-> "[ ] ", color |-> c]
Line(text) == [newLine |-> TRUE, text |-> text, color |-> TEXT]
Down == [newLine |-> TRUE, text |-> "", color |-> TEXT]
Script ==
    <<Line("PANIC"), Tag(3), Line("has panicked"), Down, Tag(6), Line("INFO"), Down,
      Tag(6), Line("message"), Down, Tag(6), Line("Please report"), Line("PANIC")>>
Halted == Len(Script) + 1

\* Drawing faults where the framebuffer, or a part of it, is not mapped.
Blind == scr.height > 0 /\ scr.width > 0 /\ "framebuffer" \notin mapped
Lost == Halted + 1

\* KePanic and KePanicStr never return.  They wipe the whole screen first: if that
\* faults, so does the panic of the page fault, over and over, before a word is said.
\* (How much of the screen is wiped until then is not followed.)
KePanic(message) ==
    /\ PanicInitialize
    /\ serial' = <<>>
    /\ \/ ~Blind /\ panic' = 1 /\ cause' = message
       \/ Blind /\ panic' = Lost /\ cause' = T("PageFault")

\* What a panic is about is indented by blanks, a number by a tag.
Say(i) == IF Script[i].text = "message" THEN cause
          ELSE IF i < Len(Script) /\ Script[i + 1].text = "message" /\ "number" \notin DOMAIN cause
               THEN T("      ") ELSE T(Script[i].text)

PanicStep ==
    /\ panic \in 1 .. (Halted - 1)
    /\ panic' = panic + 1
    /\ \/ /\ Script[panic] = Down
          /\ scr' = KeTermMoveDown(scr, 2)
          /\ UNCHANGED serial
       \/ /\ Script[panic] # Down
          /\ scr' = KeTermPuts(scr, Script[panic].newLine, Say(panic),
                               scr.palette[Script[panic].color])
          /\ serial' = Append(serial, Say(panic))
    /\ UNCHANGED <<pc, mapped, callVars, cause>>

\* The exceptions whose entries (idtasm.S) call a handler; no handler returns.
Entries ==
    <<"DivideByZero", "DebugException", "NMI", "Breakpoint", "Overflow", "BoundRange",
      "InvalidOpcode", "NoMathProc", "DoubleFault", "", "InvalidTSS", "SegmentNotPresent",
      "StackSegmentFault", "GeneralProtection", "PageFault", "", "FloatingPointError",
      "AlignmentCheck", "MachineCheck", "SIMDFloatingPointError", "VirtualizationError",
      "ControlProtectionException">>

\* The handler behind a gate of Amd64SetupIDT: the loop starts at 31 and ends before
\* 255.  Without a gate the CPU raises a general protection fault.
Gate(v) == IF v + 1 \in DOMAIN Entries /\ Entries[v + 1] # "" THEN Entries[v + 1]
           ELSE IF v \in 31 .. 254 THEN "UnknownSoftware" ELSE "GeneralProtection"

\* An exception or an interrupt strikes, at any time once the table has been loaded:
\* also in a panic, which then starts anew, and while a lock is held.  Interrupts are
\* off only from the cli of KiInitApic on.
Exception(v) ==
    /\ pc \notin {"start", "gdt", "idt"}
    /\ v >= 32 => pc # "idle"
    /\ KePanic(T(Gate(v)))
    /\ UNCHANGED <<pc, mapped, callVars>>

\* A print reaches a part of the framebuffer that is not mapped.
DrawFaults ==
    /\ Blind /\ Owns(scr)
    /\ panic = 0 /\ call.at # "acquire"
    /\ pc \notin {"start", "gdt", "idt", "pmm", "pmmTest", "vmm", "idle"}
    /\ KePanic(T("PageFault"))
    /\ UNCHANGED <<pc, mapped, callVars>>

-----------------------------------------------------------------------------
(* The steps of KeSystemStartup *)

Running(here) == pc = here /\ panic = 0 /\ call.at = "none" /\ spin # "set"

Passes(here, there) ==
    /\ Running(here)
    /\ pc' = there
    /\ Logs(1 .. MaxLog)
    /\ UNCHANGED <<callVars, serial, panic, cause>>
Fails(here, message) ==
    /\ Running(here)
    /\ KePanic(message)
    /\ UNCHANGED <<pc, mapped, callVars>>

\* A step passes, or fails with one of some statuses, and then KeSystemStartup panics.
Step(here, there, fails) ==
    \/ Passes(here, there) /\ UNCHANGED mapped
    \/ \E status \in fails : Fails(here, KeNrStatusToString(status))

\* The loader's tables map the framebuffer.
Init == /\ pc = "start"
        /\ mapped = {"framebuffer"}
        /\ call = [of |-> "none", at |-> "none"]
        /\ lock = FALSE /\ spin = "none"
        /\ scr = NoScreen /\ serial = <<>>
        /\ panic = 0 /\ cause = T("none")

\* typeOfBoot says who owns the screen.
KeGraphicsSetup ==
    /\ Running("start")
    /\ pc' = "gdt"
    /\ \E data \in Screens, owner \in {"term", "splash"} :
       \E begun \in {KeBeginSplashScreen(GraphicsSetup(scr, data, owner), 10)} :
       \E phase0 \in KeTermPrint(KeTermClear(begun), 0, 1) :
       \E dotted \in {KeAddToBootScreen(phase0)} : scr' \in KeTermPrint(dotted, 4, 1)
    /\ UNCHANGED <<mapped, callVars, serial, panic, cause>>

\* ArInitSystem.
Amd64SetupGDT == Step("gdt", "idt", {})
Amd64SetupIDT ==
    /\ Running("idt")
    /\ pc' = "pmm"
    /\ \E dotted \in {KeAddToBootScreen(scr)}, n \in 1 .. MaxLog :
         scr' \in KeTermPrint(dotted, 4, n)
    /\ UNCHANGED <<mapped, callVars, serial, panic, cause>>

MmInitPhysicalMemoryManager == Step("pmm", "pmmTest", {"NO_VALID_MEMORY"})
MmTestPhysicalMemoryManager == Step("pmmTest", "vmm", {"PMM_FAIL"})

\* Whether the framebuffer and the APIC could be mapped is not looked at, nor whether
\* there was a page for the root of the tables, which is cleared at once.
MmInitVirtualMemoryManager ==
    \/ Passes("vmm", "galloc") /\ mapped' \in SUBSET Areas
    \/ Fails("vmm", KeNrStatusToString("OUT_OF_MEMORY"))
    \/ Fails("vmm", T("PageFault"))

MmInitGeneralAllocator == Step("galloc", "threads", {"GALLOC_FAIL"})

KeInitializeThreadComponent == Step("threads", "locks", {"CANT_CREATE_ECS_COMP"})
KeInitializeSpinlockComponent == Step("locks", "binfo", {"CANT_CREATE_ECS_COMP"})
KeStoreBootInformationAddress == Step("binfo", "acpi", {})

\* AcpiInitSystem: a function of uACPI returns, between its calls of the kernel.
uacpi_initialize == Step("acpi", "load", {"UACPI_INIT_FAIL"})
uacpi_namespace_load == Step("load", "init", {"ACPI_NAMESPACE_FAIL"})
uacpi_namespace_initialize == Step("init", "gpe", {"ACPI_NAMESPACE_FAIL"})
uacpi_finalize_gpe_initialization == Step("gpe", "apic", {"ACPI_GPE_FAIL"})

\* The APIC's registers are written wherever they are.
KiInitApic ==
    \/ Passes("apic", "idle") /\ "lapic" \in mapped /\ UNCHANGED mapped
    \/ Fails("apic", KeNrStatusToString("NOT_FOUND"))
    \/ Fails("apic", T("PageFault")) /\ "lapic" \notin mapped

-----------------------------------------------------------------------------
(* The kernel as uACPI calls it: uacpiwrap.c *)

\* uACPI makes one call at a time.  On the terminal's own screen the cursor comes back
\* to the top, so that MaxRow bounds nothing there if it lies below the screen.
Calls ==
    /\ pc \in {"acpi", "load", "init", "gpe"}
    /\ panic = 0 /\ call.at = "none"
    /\ scr.y < MaxRow
CallUnchanged == UNCHANGED <<pc, mapped>>
NoPanic == UNCHANGED <<serial, panic, cause>>

\* The calls of the general allocator: uacpi_kernel_alloc, _alloc_zeroed and _free,
\* and those that make and free spin locks.  Mutexes and events are spin locks.
uacpi_kernel_alloc ==
    /\ Calls
    /\ \E kind \in {"alloc", "alloc_zeroed", "free", "create_spinlock", "free_spinlock"} :
         /\ kind = "create_spinlock" => spin = "none"
         /\ kind = "free_spinlock" => spin = "clear"
         /\ call' = [of |-> kind, at |-> "acquire"]
    /\ UNCHANGED <<lock, spin, scr>> /\ CallUnchanged /\ NoPanic

\* Test and set of allocSpinLock, over and over.
KeAcquireSpinLock ==
    /\ panic = 0 /\ call.at = "acquire"
    /\ lock' = TRUE
    /\ call' = [call EXCEPT !.at = IF lock THEN "acquire" ELSE "inside"]
    /\ UNCHANGED <<spin, scr>> /\ CallUnchanged /\ NoPanic

\* Mutant of Released: the lock is not released on failure.
ReleasedOnSuccess(found) == lock' = (lock /\ ~found)
Released(found) == lock' = FALSE

Frees == {"free", "free_spinlock"}

\* MmAllocateGeneralMemory or MmFreeGeneralMemory succeeds.
MmAllocateGeneralMemory ==
    /\ panic = 0 /\ call.at = "inside"
    /\ Released(TRUE)
    /\ call' = [of |-> "none", at |-> "none"]
    /\ spin' = CASE call.of = "create_spinlock" -> "clear"
                 [] call.of = "free_spinlock" -> "none" [] OTHER -> spin
    /\ UNCHANGED scr /\ CallUnchanged /\ NoPanic

\* There is no memory: the allocator and its caller print it.
OutOfMemory ==
    /\ panic = 0 /\ call.at = "inside" /\ call.of \notin Frees
    /\ Released(FALSE)
    /\ call' = [of |-> "none", at |-> "none"]
    /\ Logs({IF call.of = "alloc_zeroed" THEN 1 ELSE 2})
    /\ UNCHANGED spin /\ CallUnchanged /\ NoPanic

\* uacpi_kernel_alloc_zeroed clears the memory without a look at it: at address 0,
\* which it may or may not be able to write.
ZeroesNull ==
    /\ panic = 0 /\ call = [of |-> "alloc_zeroed", at |-> "inside"]
    /\ Released(FALSE)
    /\ call' = [of |-> "none", at |-> "none"]
    /\ KePanic(T("PageFault"))
    /\ UNCHANGED spin /\ CallUnchanged

\* uACPI's spin lock; acquiring a mutex or an event does nothing.  uACPI never takes a
\* spin lock that it holds (it would wait for ever).
uacpi_kernel_lock_spinlock ==
    /\ Calls
    /\ spin = "clear" /\ spin' = "set"
    /\ UNCHANGED <<call, lock, scr>> /\ CallUnchanged /\ NoPanic
uacpi_kernel_unlock_spinlock ==
    /\ panic = 0 /\ call.at = "none"
    /\ spin = "set" /\ spin' = "clear"
    /\ UNCHANGED <<call, lock, scr>> /\ CallUnchanged /\ NoPanic

\* Calls that print that they are not implemented and return 0: success for most,
\* a time-out for wait_for_event, and a clock that stands still.
TimeCalls == {"get_nanoseconds_since_boot", "stall", "sleep"}
EventCalls == {"wait_for_event", "signal_event", "reset_event"}
InterruptCalls == {"handle_firmware_request", "install_interrupt_handler",
                   "uninstall_interrupt_handler"}
PciCalls == {"pci_device_open", "pci_device_close", "pci_read", "pci_write"}
PortCalls == {"io_read32", "io_write32", "io_unmap"}
WorkCalls == {"schedule_work", "wait_for_work_completion"}
Unimplemented ==
    TimeCalls \cup EventCalls \cup InterruptCalls \cup PciCalls \cup PortCalls \cup WorkCalls

\* Calls that change nothing: maps, 8 and 16 bit ports, mutexes, the RSDP.
Silent == {"map", "unmap", "io_map", "io_access", "acquire_mutex", "release_mutex",
           "get_thread_id", "get_rsdp"}

\* uacpi_kernel_log and the calls above.
uacpi_kernel_log ==
    /\ Calls
    /\ \E f \in Unimplemented \cup Silent \cup {"log"} :
         \/ f \notin Silent /\ Logs({1})
         \/ f \notin Unimplemented /\ UNCHANGED scr
    /\ UNCHANGED <<call, lock, spin>> /\ CallUnchanged /\ NoPanic

-----------------------------------------------------------------------------

\* KeSystemStartup and PanicEnd end in loops; a panic that cannot draw faults for ever.
Loops == (panic \in {Halted, Lost} \/ Running("idle")) /\ UNCHANGED vars

Start == \/ KeGraphicsSetup \/ Amd64SetupGDT \/ Amd64SetupIDT
         \/ MmInitPhysicalMemoryManager \/ MmTestPhysicalMemoryManager
         \/ MmInitVirtualMemoryManager \/ MmInitGeneralAllocator
         \/ KeInitializeThreadComponent \/ KeInitializeSpinlockComponent
         \/ KeStoreBootInformationAddress
         \/ uacpi_initialize \/ uacpi_namespace_load
         \/ uacpi_namespace_initialize \/ uacpi_finalize_gpe_initialization
         \/ KiInitApic
Glue == \/ uacpi_kernel_alloc \/ KeAcquireSpinLock \/ MmAllocateGeneralMemory
        \/ OutOfMemory \/ ZeroesNull
        \/ uacpi_kernel_lock_spinlock \/ uacpi_kernel_unlock_spinlock \/ uacpi_kernel_log

Next == \/ Start \/ Glue \/ PanicStep \/ Loops
        \/ DrawFaults \/ \E v \in Vectors : Exception(v)

\* The CPU keeps executing instructions; uACPI's functions return, and it releases its
\* locks, however many calls of the kernel they make.
Fairness == /\ WF_vars(Start \/ Glue \/ PanicStep)
            /\ SF_vars(Start)
            /\ SF_vars(uacpi_kernel_unlock_spinlock)
Spec == Init /\ [][Next]_vars /\ Fairness

-----------------------------------------------------------------------------
(* Properties *)

\* The variables have their types.
TypeOK ==
    /\ pc \in {"start", "gdt", "idt", "pmm", "pmmTest", "vmm", "galloc", "threads", "locks",
               "binfo", "acpi", "load", "init", "gpe", "apic", "idle"}
    /\ mapped \subseteq Areas
    /\ call.at \in {"none", "acquire", "inside"}
    /\ lock \in BOOLEAN /\ spin \in {"none", "clear", "set"}
    /\ scr.owner \in {"term", "splash"}
    /\ scr.x \in Nat /\ scr.y \in Nat /\ scr.reach \in Nat
    /\ panic \in 0 .. Lost

\* Nobody ever waits for the allocator's lock: on one CPU nobody would release it.  Each
\* call of MmAllocateGeneralMemory and MmFreeGeneralMemory finds the lock released by
\* the one before, also if there was no memory, and after a fault there is no next call.
NeverWaits == lock /\ panic = 0 => call.at # "acquire"

\* KeGraphicsDrawRect writes only into the framebuffer, also where the loader found
\* no screen, and a text of the terminal always has its first row on the screen, where
\* the cursor stays.
OnScreen ==
    /\ TypeOK
    /\ scr.reach <= scr.size
    /\ Owns(scr) /\ scr.height > 10 =>
         /\ scr.y < scr.height + 12
         /\ \A box \in scr.shown : box.y < scr.height

\* Texts of the terminal never lie over one another, wherever a line was broken off.
LinesApart ==
    Owns(scr) => \A a, b \in scr.shown : a # b => Apart(a, b)

\* While the splash screen owns the screen nothing else is drawn on it, and its
\* progress stays on the dashes it was begun with.
SplashKept ==
    scr.init /\ scr.owner = "splash" =>
        \E done \in 0 .. 10 :
            scr.shown = {Title} \cup {Dash(10 * i, "white") : i \in 1 .. 10}
                                \cup {Dash(10 * i, "cyan") : i \in 1 .. done}

\* When the kernel has stopped in a panic the serial line has got the panic in full,
\* and the screen, if it has room for one, shows it from its top and in its colours,
\* with a text for what failed last, wherever the terminal was, whoever owned the
\* screen, and also if another panic was cut short.
PanicComplete ==
    panic = Halted =>
        LET texts == <<T("PANIC"), T("has panicked"), T("INFO"), cause, T("Please report"),
                       T("PANIC")>>
            isText(what) == what \notin {T("[ ] "), T("      ")}
            heard == {i \in DOMAIN serial : isText(serial[i])}
            lines == {b \in scr.shown : isText(b.what)}
        IN /\ Cardinality(heard) = Len(texts)
           /\ \A i \in heard : serial[i] = texts[Cardinality({j \in heard : j <= i})]
           /\ scr.height >= 154 /\ scr.width >= 10 + 8 * Max({45, 6 + MessageLength}) =>
                /\ Cardinality(lines) = Len(texts)
                /\ \A b \in lines : b.what = texts[Cardinality({a \in lines : a.y < b.y}) + 1]
                /\ scr.back = "navy" /\ \A b \in scr.shown : Inside(scr, b)

\* The start comes to its end, or to a panic that is printed to its end, whichever
\* allocations fail, if uACPI's functions return and exceptions do not strike for ever.
\* The one way it never ends is a framebuffer that MmInitVirtualMemoryManager failed to
\* map: the first panic after that faults without end and says nothing.
StartEnds ==
    <>[][\A v \in Vectors : ~Exception(v)]_vars =>
        <>[]\/ pc = "idle" /\ panic = 0 /\ "lapic" \in mapped
            \/ panic = Halted
            \/ panic = Lost /\ "framebuffer" \notin mapped
=============================================================================
