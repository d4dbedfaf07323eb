------------------------- MODULE KernelStartProofs -------------------------
(***************************************************************************)
(* The lock, the screen and the panics of the start, for every screen,     *)
(* whatever uACPI calls, whichever areas could be mapped and whenever      *)
(* exceptions strike.                                                      *)
(***************************************************************************)
EXTENDS KernelStart, ScreenProofs, SequenceTheorems, FiniteSetTheorems

-----------------------------------------------------------------------------
(* What the steps have in common *)

Steps == {"start", "gdt", "idt", "pmm", "pmmTest", "vmm", "galloc", "threads", "locks",
          "binfo", "acpi", "load", "init", "gpe", "apic", "idle"}

\* The splash screen has got its first dash, and not its second.
Early == {"gdt", "idt"}

\* What a panic may be about.
Messages == Named \cup {"DivideByZero", "DebugException", "NMI", "Breakpoint", "Overflow",
      "BoundRange", "InvalidOpcode", "NoMathProc", "DoubleFault", "InvalidTSS",
      "SegmentNotPresent", "StackSegmentFault", "GeneralProtection", "PageFault",
      "FloatingPointError", "AlignmentCheck", "MachineCheck", "SIMDFloatingPointError",
      "VirtualizationError", "ControlProtectionException", "UnknownSoftware"}

LEMMA StatusMessage == \A status \in Named : \E m \in Messages : KeNrStatusToString(status) = T(m)
BY DEF KeNrStatusToString, Messages

\* A step of the start after the screen's, except that of the IDT.
Advance ==
    /\ panic = 0 /\ call.at = "none"
    /\ pc \in Steps \ {"start"}
    /\ UNCHANGED callVars
    /\ mapped' \in SUBSET Areas \/ UNCHANGED mapped
    /\ \/ /\ pc' \in Steps \ {"start"} /\ (pc' \in Early <=> pc \in Early)
          /\ Logs(1 .. MaxLog)
          /\ UNCHANGED <<serial, panic, cause>>
       \/ /\ \E m \in Messages : KePanic(T(m))
          /\ UNCHANGED pc

LEMMA StartAdvances == Start => KeGraphicsSetup \/ Amd64SetupIDT \/ Advance
<1> SUFFICES ASSUME Start PROVE KeGraphicsSetup \/ Amd64SetupIDT \/ Advance
  OBVIOUS
<1>1. ASSUME NEW here \in Steps \ {"start"}, NEW there \in Steps \ {"start"},
             there \in Early <=> here \in Early, Passes(here, there),
             mapped' \in SUBSET Areas \/ UNCHANGED mapped
      PROVE  Advance
  BY <1>1 DEF Passes, Running, Advance
<1>2. ASSUME NEW here \in Steps \ {"start"}, NEW m \in Messages, Fails(here, T(m))
      PROVE  Advance
  BY <1>2 DEF Fails, Running, Advance
<1>3. ASSUME NEW here \in Steps \ {"start"}, NEW there \in Steps \ {"start"},
             there \in Early <=> here \in Early, NEW fails \in SUBSET Named,
             Step(here, there, fails)
      PROVE  Advance
  <2>1. CASE Passes(here, there) /\ UNCHANGED mapped
    BY <1>1, <1>3, <2>1
  <2>2. ASSUME NEW status \in fails, Fails(here, KeNrStatusToString(status)) PROVE Advance
    <3>1. PICK m \in Messages : KeNrStatusToString(status) = T(m)
      BY StatusMessage
    <3>2. Fails(here, T(m))
      BY <2>2, <3>1
    <3> QED
      BY <1>2, <3>2
  <2> QED
    BY <1>3, <2>1, <2>2 DEF Step
<1> USE DEF Steps, Early, Named
<1>4. CASE Amd64SetupGDT
  BY <1>3, <1>4 DEF Amd64SetupGDT
<1>5. CASE MmInitPhysicalMemoryManager
  BY <1>3, <1>5 DEF MmInitPhysicalMemoryManager
<1>6. CASE MmTestPhysicalMemoryManager
  BY <1>3, <1>6 DEF MmTestPhysicalMemoryManager
<1>7. CASE MmInitGeneralAllocator
  BY <1>3, <1>7 DEF MmInitGeneralAllocator
<1>8. CASE KeInitializeThreadComponent
  BY <1>3, <1>8 DEF KeInitializeThreadComponent
<1>9. CASE KeInitializeSpinlockComponent
  BY <1>3, <1>9 DEF KeInitializeSpinlockComponent
<1>10. CASE KeStoreBootInformationAddress
  BY <1>3, <1>10 DEF KeStoreBootInformationAddress
<1>11. CASE uacpi_initialize
  BY <1>3, <1>11 DEF uacpi_initialize
<1>12. CASE uacpi_namespace_load
  BY <1>3, <1>12 DEF uacpi_namespace_load
<1>13. CASE uacpi_namespace_initialize
  BY <1>3, <1>13 DEF uacpi_namespace_initialize
<1>14. CASE uacpi_finalize_gpe_initialization
  BY <1>3, <1>14 DEF uacpi_finalize_gpe_initialization
<1>15. CASE MmInitVirtualMemoryManager
  <2>1. CASE Passes("vmm", "galloc") /\ mapped' \in SUBSET Areas
    BY <1>1, <2>1
  <2>2. KeNrStatusToString("OUT_OF_MEMORY") = T("OUT_OF_MEMORY")
    BY DEF KeNrStatusToString
  <2>3. "OUT_OF_MEMORY" \in Messages /\ "PageFault" \in Messages
    BY DEF Messages
  <2> QED
    BY <1>2, <1>15, <2>1, <2>2, <2>3 DEF MmInitVirtualMemoryManager
<1>16. CASE KiInitApic
  <2>1. CASE Passes("apic", "idle") /\ UNCHANGED mapped
    BY <1>1, <2>1
  <2>2. KeNrStatusToString("NOT_FOUND") = T("NOT_FOUND")
    BY DEF KeNrStatusToString
  <2>3. "NOT_FOUND" \in Messages /\ "PageFault" \in Messages
    BY DEF Messages
  <2> QED
    BY <1>2, <1>16, <2>1, <2>2, <2>3 DEF KiInitApic
<1> QED
  BY <1>4, <1>5, <1>6, <1>7, <1>8, <1>9, <1>10, <1>11, <1>12, <1>13, <1>14, <1>15, <1>16 DEF Start

\* A call by uACPI, or a step of one.
Called ==
    /\ panic = 0
    /\ pc \in {"acpi", "load", "init", "gpe"} \/ call.at # "none" \/ UNCHANGED <<call, scr, panic>>
    /\ UNCHANGED <<pc, mapped>>
    /\ \/ /\ UNCHANGED <<serial, panic, cause>>
          /\ UNCHANGED scr \/ Logs({1}) \/ Logs({2})
       \/ KePanic(T("PageFault"))

LEMMA GlueCalls == Glue => Called
<1> SUFFICES ASSUME Glue PROVE Called
  OBVIOUS
<1> USE DEF Called, CallUnchanged
<1>1. CASE uacpi_kernel_alloc
  BY <1>1 DEF uacpi_kernel_alloc, Calls, NoPanic
<1>2. CASE KeAcquireSpinLock
  BY <1>2 DEF KeAcquireSpinLock, NoPanic
<1>3. CASE MmAllocateGeneralMemory
  BY <1>3 DEF MmAllocateGeneralMemory, NoPanic
<1>4. CASE OutOfMemory
  <2>1. Logs({1}) \/ Logs({2})
    BY <1>4 DEF OutOfMemory
  <2> QED
    BY <1>4, <2>1 DEF OutOfMemory, NoPanic
<1>5. CASE ZeroesNull
  BY <1>5 DEF ZeroesNull
<1>6. CASE uacpi_kernel_lock_spinlock
  BY <1>6 DEF uacpi_kernel_lock_spinlock, Calls, NoPanic
<1>7. CASE uacpi_kernel_unlock_spinlock
  BY <1>7 DEF uacpi_kernel_unlock_spinlock, NoPanic
<1>8. CASE uacpi_kernel_log
  BY <1>8 DEF uacpi_kernel_log, Calls, NoPanic
<1> QED
  BY <1>1, <1>2, <1>3, <1>4, <1>5, <1>6, <1>7, <1>8 DEF Glue

-----------------------------------------------------------------------------
(* The screen *)

\* The start's screen.  Panics take it over from the splash screen, which gets a dash in
\* the step of the screen and another in that of the IDT.
ShowInv ==
    /\ ScreenInv(scr)
    /\ scr.owner \in {"term", "splash"}
    /\ scr.palette \in {Palette, PanicPalette}
    /\ pc = "start" => scr = NoScreen /\ panic = 0 /\ call.at = "none"
    /\ pc # "start" => scr.init
    /\ panic # 0 => scr.owner = "term" /\ scr.palette = PanicPalette
    /\ pc # "start" /\ scr.owner = "splash" =>
          \E done \in {1, 2} : /\ done = 1 <=> pc \in Early
                               /\ scr.dotX = 10 * (done + 1)
                               /\ scr.shown = Splash(done)

Hues == {"dark green", "white", "red", "green", "yellow", "light blue", "orange", "navy",
         "maroon", "office green", "olive", "brown"}

LEMMA Palettes == \A p \in {Palette, PanicPalette} : p \in Seq(Hues) /\ Len(p) = 7
<1>1. Palette \in Seq(Hues) /\ PanicPalette \in Seq(Hues)
  BY DEF Palette, PanicPalette, Hues
<1>2. Len(Palette) = 7 /\ Len(PanicPalette) = 7
  BY DEF Palette, PanicPalette
<1> QED
  BY <1>1, <1>2

LEMMA NewPalette ==
    ASSUME NEW s, IsScreen(s), Sized(s), s.palette \in {Palette, PanicPalette},
           NEW t, t = KeTermChangePalette([s EXCEPT !.owner = "term"], PanicPalette)
    PROVE  /\ IsScreen(t) /\ Sized(t) /\ t.palette = PanicPalette /\ t.owner = "term"
           /\ t.init = s.init /\ t.width = s.width /\ t.height = s.height /\ t.dotX = s.dotX
<1>1. PICK u : u = [s EXCEPT !.owner = "term"]
  OBVIOUS
<1>2. /\ IsScreen(u) /\ u.owner = "term" /\ u.palette = s.palette
      /\ u.init = s.init /\ u.width = s.width /\ u.height = s.height /\ u.dotX = s.dotX
      /\ u.pixelsPerScanLine = s.pixelsPerScanLine /\ u.size = s.size
      /\ u.x = s.x /\ u.y = s.y /\ u.reach = s.reach
  BY <1>1 DEF IsScreen
<1>3. Sized(u)
  BY <1>2 DEF Sized
<1>4. /\ u.palette \in Seq(Hues) /\ Len(u.palette) = 7
      /\ PanicPalette \in Seq(Hues) /\ Len(PanicPalette) = 7
  <2>1. u.palette \in {Palette, PanicPalette}
    BY <1>2
  <2> QED
    BY <2>1, Palettes
<1>5. PICK tail : tail = SubSeq(u.palette, Len(PanicPalette) + 1, Len(u.palette))
  OBVIOUS
<1>6. PICK new : new = PanicPalette \o tail
  OBVIOUS
<1>7. new = PanicPalette
  <2>1. Len(PanicPalette) + 1 = 8
    BY <1>4
  <2>2. tail = SubSeq(u.palette, 8, 7)
    BY ONLY <1>4, <1>5, <2>1
  <2>3. tail = <<>>
    BY <1>4, <2>2
  <2> QED
    BY <1>4, <1>6, <2>3, ConcatEmptySeq
<1>8. t = [u EXCEPT !.palette = new]
  <2>1. t = IF Len(PanicPalette) > Len(u.palette) THEN u
            ELSE [u EXCEPT !.palette =
                     PanicPalette \o SubSeq(@, Len(PanicPalette) + 1, Len(@))]
    BY <1>1 DEF KeTermChangePalette
  <2>2. ~(Len(PanicPalette) > Len(u.palette))
    BY <1>4
  <2> QED
    BY ONLY <1>5, <1>6, <2>1, <2>2
<1>9. /\ IsScreen(t) /\ t.owner = u.owner /\ t.palette = new
      /\ t.init = u.init /\ t.width = u.width /\ t.height = u.height /\ t.dotX = u.dotX
      /\ t.pixelsPerScanLine = u.pixelsPerScanLine /\ t.size = u.size
      /\ t.x = u.x /\ t.y = u.y /\ t.reach = u.reach
  BY <1>2, <1>8 DEF IsScreen
<1>10. Sized(t)
  BY <1>3, <1>9 DEF Sized
<1> QED
  BY <1>2, <1>7, <1>9, <1>10

\* A panic begins on an empty screen of its own.
LEMMA PanicBegins ==
    ASSUME ScreenInv(scr), scr.palette \in {Palette, PanicPalette}, PanicInitialize
    PROVE  /\ ScreenInv(scr') /\ scr'.owner = "term" /\ scr'.palette = PanicPalette
           /\ scr'.init = scr.init /\ scr'.height = scr.height /\ scr'.width = scr.width
           /\ scr'.x = 10 /\ scr'.y = 10
           /\ scr.init => scr'.shown = {} /\ scr'.back = "navy"
<1>1. PICK s : s = scr
  OBVIOUS
<1>2. PICK u : u = KeTermChangePalette([s EXCEPT !.owner = "term"], PanicPalette)
  OBVIOUS
<1>3. PICK t : t = KeTermClear(u)
  OBVIOUS
<1>4. scr' = t
  BY <1>1, <1>2, <1>3 DEF PanicInitialize
<1>5. /\ IsScreen(u) /\ Sized(u) /\ u.palette = PanicPalette /\ u.owner = "term"
      /\ u.init = s.init /\ u.width = s.width /\ u.height = s.height /\ u.dotX = s.dotX
  BY <1>1, <1>2, NewPalette DEF ScreenInv
<1>6. /\ SameFrame(u, t) /\ t.x = 10 /\ t.y = 10
      /\ Owns(u) => t.shown = {} /\ t.back = u.palette[BACKGROUND]
  BY <1>3, <1>5, Cleared
<1>7. ScreenInv(t)
  <2>1. u.dotX \in Nat
    BY <1>1, <1>5 DEF ScreenInv
  <2> QED
    BY <1>3, <1>5, <2>1, ClearKeeps
<1>8. s.init => Owns(u)
  BY <1>5 DEF Owns
<1>9. u.palette[BACKGROUND] = "navy"
  <2>1. PanicPalette[1] = "navy"
    BY DEF PanicPalette
  <2> QED
    BY <1>5, <2>1 DEF BACKGROUND
<1> QED
  BY <1>1, <1>4, <1>5, <1>6, <1>7, <1>8, <1>9 DEF SameFrame

LEMMA SetUpScreen ==
    ASSUME NEW data \in Screens, NEW owner \in {"term", "splash"},
           NEW s, s = GraphicsSetup(NoScreen, data, owner)
    PROVE  /\ IsScreen(s) /\ Sized(s) /\ s.init /\ s.owner = owner
           /\ s.dotX = 10 /\ s.palette = Palette
<1>1. /\ data.width \in Nat /\ data.height \in Nat /\ data.pixelsPerScanLine \in Nat
      /\ data.size \in Nat /\ data.width <= data.pixelsPerScanLine
      /\ data.height * data.pixelsPerScanLine <= data.size
  BY ScreensAssumption DEF Framebuffer
<1>2. /\ s.init = TRUE /\ s.owner = owner /\ s.dotX = 10 /\ s.palette = Palette
      /\ s.width = data.width /\ s.height = data.height /\ s.size = data.size
      /\ s.pixelsPerScanLine = data.pixelsPerScanLine
      /\ s.x = 10 /\ s.y = 10 /\ s.reach = 0
  BY DEF GraphicsSetup, NoScreen
<1>3. IsScreen(s)
  BY DEF GraphicsSetup, NoScreen, IsScreen
<1>4. Sized(s)
  <2>1. s.init \in BOOLEAN
    BY <1>2
  <2>2. s.reach <= s.size
    BY <1>1, <1>2
  <2> QED
    BY <1>1, <1>2, <2>1, <2>2 DEF Sized
<1> QED
  BY <1>2, <1>3, <1>4

\* A dash, if there is a splash screen.
LEMMA Dashed ==
    ASSUME NEW s, ScreenInv(s), s.init, s.owner \in {"term", "splash"}, NEW n \in Nat,
           s.owner = "splash" => s.dotX = 10 * (n + 1) /\ s.shown = Splash(n),
           NEW t, t = KeAddToBootScreen(s)
    PROVE  /\ ScreenInv(t) /\ t.init /\ t.owner = s.owner /\ t.palette = s.palette
           /\ t.owner = "splash" => t.dotX = 10 * (n + 2) /\ t.shown = Splash(n + 1)
<1>1. CASE s.owner # "splash"
  BY <1>1 DEF KeAddToBootScreen
<1>2. CASE s.owner = "splash"
  <2>1. /\ ScreenInv(t) /\ t.init = s.init /\ t.owner = s.owner /\ t.palette = s.palette
        /\ t.shown = s.shown \cup {Dash(s.dotX, "cyan")}
        /\ t.dotX = s.dotX + 10
    BY <1>2, AddKeeps
  <2>2. t.shown = Splash(n + 1)
    BY <1>2, <2>1, SplashGrows
  <2> QED
    BY <1>2, <2>1, <2>2
<1> QED
  BY <1>1, <1>2

LEMMA SetupShows ==
    ASSUME ShowInv, KeGraphicsSetup
    PROVE  /\ ScreenInv(scr') /\ scr'.init
           /\ scr'.owner \in {"term", "splash"} /\ scr'.palette = Palette
           /\ scr'.owner = "splash" => scr'.dotX = 20 /\ scr'.shown = Splash(1)
<1>1. scr = NoScreen
  BY DEF ShowInv, KeGraphicsSetup, Running
<1>2. PICK data \in Screens, owner \in {"term", "splash"} :
        \E begun \in {KeBeginSplashScreen(GraphicsSetup(NoScreen, data, owner), 10)} :
        \E phase0 \in KeTermPrint(KeTermClear(begun), 0, 1) :
        \E dotted \in {KeAddToBootScreen(phase0)} : scr' \in KeTermPrint(dotted, 4, 1)
  BY <1>1 DEF KeGraphicsSetup
<1>3. PICK s : s = GraphicsSetup(NoScreen, data, owner)
  OBVIOUS
<1>4. PICK begun : begun = KeBeginSplashScreen(s, 10)
  OBVIOUS
<1>5. PICK clear : clear = KeTermClear(begun)
  OBVIOUS
<1>6. PICK phase0 \in KeTermPrint(clear, 0, 1) :
        \E dotted \in {KeAddToBootScreen(phase0)} : scr' \in KeTermPrint(dotted, 4, 1)
  BY <1>2, <1>3, <1>4, <1>5
<1>7. PICK dotted : dotted = KeAddToBootScreen(phase0)
  OBVIOUS
<1>8. scr' \in KeTermPrint(dotted, 4, 1)
  BY <1>6, <1>7
<1>9. /\ IsScreen(s) /\ Sized(s) /\ s.init /\ s.owner = owner
      /\ s.dotX = 10 /\ s.palette = Palette
  BY <1>3, SetUpScreen
<1>10. /\ IsScreen(begun) /\ Sized(begun) /\ SameFrame(s, begun)
       /\ s.owner = "splash" => begun.shown = Splash(0)
  BY <1>4, <1>9, BeginKeeps
<1>11. /\ SameFrame(begun, clear) /\ (~Owns(begun) => clear.shown = begun.shown)
  BY <1>5, <1>10, Cleared
<1>12. ScreenInv(clear)
  <2>1. begun.dotX \in Nat
    BY <1>9, <1>10 DEF SameFrame
  <2> QED
    BY <1>5, <1>10, <2>1, ClearKeeps
<1>13. PICK one \in Nat : one = 1
  OBVIOUS
<1>14. PICK tag : tag = 0
  OBVIOUS
<1>15. /\ ScreenInv(phase0) /\ SameFrame(clear, phase0)
       /\ ~Owns(clear) => phase0.shown = clear.shown
  <2>1. phase0 \in KeTermPrint(clear, tag, one)
    BY <1>13, <1>14
  <2> QED
    BY ONLY <1>12, <2>1, one \in Nat, PrintKeeps
<1>16. /\ phase0.init /\ phase0.owner = owner /\ phase0.palette = Palette
       /\ phase0.dotX = 10
       /\ owner = "splash" => phase0.shown = Splash(0)
  <2>1. /\ clear.init /\ clear.owner = owner /\ clear.palette = Palette /\ clear.dotX = 10
    BY <1>9, <1>10, <1>11 DEF SameFrame
  <2>2. owner = "splash" => ~Owns(begun) /\ ~Owns(clear)
    BY <1>9, <1>10, <1>11 DEF SameFrame, Owns
  <2> QED
    BY <1>9, <1>10, <1>11, <1>15, <2>1, <2>2 DEF SameFrame
<1>17. /\ ScreenInv(dotted) /\ dotted.init /\ dotted.owner = owner /\ dotted.palette = Palette
       /\ owner = "splash" => dotted.dotX = 20 /\ dotted.shown = Splash(1)
  <2>1. PICK n \in Nat : n = 0
    OBVIOUS
  <2>2. owner = "splash" => phase0.dotX = 10 * (n + 1) /\ phase0.shown = Splash(n)
    BY <1>16, <2>1
  <2>3. /\ ScreenInv(dotted) /\ dotted.init /\ dotted.owner = phase0.owner
        /\ dotted.palette = phase0.palette
        /\ dotted.owner = "splash" => dotted.dotX = 10 * (n + 2) /\ dotted.shown = Splash(n + 1)
    BY <1>7, <1>15, <1>16, <2>2, Dashed
  <2> QED
    BY <1>16, <2>1, <2>3
<1>18. PICK u : u = scr'
  OBVIOUS
<1>19. /\ ScreenInv(u) /\ SameFrame(dotted, u)
       /\ ~Owns(dotted) => u.shown = dotted.shown
  <2>1. PICK pass : pass = 4
    OBVIOUS
  <2>2. u \in KeTermPrint(dotted, pass, one)
    BY <1>8, <1>13, <1>18, <2>1
  <2>3. ScreenInv(dotted)
    BY <1>17
  <2> QED
    BY ONLY <2>2, <2>3, one \in Nat, PrintKeeps
<1>20. owner = "splash" => ~Owns(dotted)
  BY <1>17 DEF Owns
<1> QED
  BY <1>17, <1>18, <1>19, <1>20 DEF SameFrame

\* Printing changes nothing else.
LEMMA LogShows ==
    ASSUME ShowInv, NEW lines, lines \subseteq Nat, Logs(lines)
    PROVE  /\ ScreenInv(scr') /\ SameFrame(scr, scr')
           /\ ~Owns(scr) => scr'.shown = scr.shown
<1>1. PICK n \in Nat : scr' \in KeTermPrint(scr, 4, n)
  BY DEF Logs
<1>2. PICK s : s = scr
  OBVIOUS
<1>3. PICK t : t = scr'
  OBVIOUS
<1>4. PICK tag : tag = 4
  OBVIOUS
<1>5. t \in KeTermPrint(s, tag, n)
  BY <1>1, <1>2, <1>3, <1>4
<1>6. ScreenInv(s)
  BY <1>2 DEF ShowInv
<1>7. ScreenInv(t) /\ SameFrame(s, t) /\ (~Owns(s) => t.shown = s.shown)
  BY ONLY <1>5, <1>6, n \in Nat, PrintKeeps
<1> QED
  BY <1>2, <1>3, <1>7

LEMMA ShowLogged ==
    ASSUME ShowInv, NEW lines, lines \subseteq Nat, Logs(lines), pc # "start", pc' # "start",
           pc' \in Early <=> pc \in Early, UNCHANGED panic
    PROVE  ShowInv'
<1>1. /\ ScreenInv(scr') /\ SameFrame(scr, scr')
      /\ ~Owns(scr) => scr'.shown = scr.shown
  BY LogShows
<1>2. scr.owner = "splash" => ~Owns(scr)
  BY DEF Owns
<1>3. ASSUME scr'.owner = "splash"
      PROVE  \E done \in {1, 2} : /\ done = 1 <=> pc' \in Early
                                  /\ scr'.dotX = 10 * (done + 1)
                                  /\ scr'.shown = Splash(done)
  <2>1. scr.owner = "splash" /\ scr'.dotX = scr.dotX /\ scr'.shown = scr.shown
    BY <1>1, <1>2, <1>3 DEF SameFrame
  <2>2. PICK done \in {1, 2} : /\ done = 1 <=> pc \in Early
                               /\ scr.dotX = 10 * (done + 1)
                               /\ scr.shown = Splash(done)
    BY <2>1 DEF ShowInv
  <2> QED
    BY <2>1, <2>2
<1> QED
  BY <1>1, <1>3 DEF ShowInv, SameFrame

LEMMA ShowPanicked ==
    ASSUME ShowInv, NEW message, KePanic(message), pc # "start", UNCHANGED pc
    PROVE  ShowInv'
<1>1. PanicInitialize
  BY DEF KePanic
<1>2. /\ ScreenInv(scr') /\ scr'.owner = "term" /\ scr'.palette = PanicPalette
      /\ scr'.init = scr.init
  BY <1>1, PanicBegins DEF ShowInv
<1> QED
  BY <1>2 DEF ShowInv

\* What a panic prints, one by one.
LEMMA ScriptLength == Len(Script) = 13 /\ Halted = 14
<1>1. Len(Script) = 13
  BY DEF Script
<1> QED
  BY <1>1 DEF Halted

LEMMA ScriptLines ==
    /\ Script[1] = Line("PANIC") /\ Script[2] = Tag(3) /\ Script[3] = Line("has panicked")
    /\ Script[4] = Down /\ Script[5] = Tag(6) /\ Script[6] = Line("INFO")
    /\ Script[7] = Down /\ Script[8] = Tag(6) /\ Script[9] = Line("message")
    /\ Script[10] = Down /\ Script[11] = Tag(6) /\ Script[12] = Line("Please report")
    /\ Script[13] = Line("PANIC")
BY DEF Script

LEMMA ScriptNewLines == \A i \in 1 .. 13 : Script[i].newLine \in BOOLEAN
<1> SUFFICES ASSUME NEW i \in 1 .. 13 PROVE Script[i].newLine \in BOOLEAN
  OBVIOUS
<1>1. /\ \A text : Line(text).newLine \in BOOLEAN
      /\ \A c : Tag(c).newLine \in BOOLEAN
      /\ Down.newLine \in BOOLEAN
  BY DEF Line, Tag, Down
<1>2. \/ i = 1 \/ i = 2 \/ i = 3 \/ i = 4 \/ i = 5 \/ i = 6 \/ i = 7 \/ i = 8 \/ i = 9
      \/ i = 10 \/ i = 11 \/ i = 12 \/ i = 13
  OBVIOUS
<1>3. (\E text : Script[i] = Line(text)) \/ (\E c : Script[i] = Tag(c)) \/ Script[i] = Down
  BY <1>2, ScriptLines
<1> QED
  BY <1>1, <1>3

\* A step of a panic: a text, or two lines down.
LEMMA ShowPanicStep == ASSUME ShowInv, PanicStep PROVE ShowInv' /\ SameFrame(scr, scr')
<1>1. panic # 0 /\ UNCHANGED <<pc, call>>
  BY DEF PanicStep, callVars
<1>2. pc # "start" /\ scr.owner = "term"
  BY <1>1 DEF ShowInv
<1>3. PICK s : s = scr
  OBVIOUS
<1>4. PICK t : t = scr'
  OBVIOUS
<1>5. ScreenInv(s)
  BY <1>3 DEF ShowInv
<1>6. ScreenInv(t) /\ SameFrame(s, t)
  <2>1. CASE scr' = KeTermMoveDown(scr, 2)
    BY <1>3, <1>4, <1>5, <2>1, MoveKeeps
  <2>2. CASE Script[panic] # Down
    <3>1. PICK newLine, what, color : /\ newLine = Script[panic].newLine
                                      /\ what = Say(panic)
                                      /\ color = scr.palette[Script[panic].color]
      OBVIOUS
    <3>2. t = KeTermPuts(s, newLine, what, color)
      BY <1>3, <1>4, <2>2, <3>1 DEF PanicStep
    <3>3. newLine \in BOOLEAN
      <4>1. panic \in 1 .. 13
        BY ScriptLength DEF PanicStep
      <4> QED
        BY <3>1, <4>1, ScriptNewLines
    <3> QED
      BY ONLY <1>5, <3>2, <3>3, PutKeeps
  <2> QED
    BY <2>1, <2>2 DEF PanicStep
<1>7. ScreenInv(scr') /\ SameFrame(scr, scr')
  BY <1>3, <1>4, <1>6
<1> QED
  BY <1>1, <1>2, <1>7 DEF ShowInv, SameFrame

LEMMA ShowNext == ShowInv /\ [Next]_vars => ShowInv'
<1> SUFFICES ASSUME ShowInv, [Next]_vars PROVE ShowInv'
  OBVIOUS
<1>1. CASE KeGraphicsSetup
  <2>1. pc' = "gdt" /\ pc = "start" /\ UNCHANGED panic
    BY <1>1 DEF KeGraphicsSetup, Running
  <2>2. panic = 0 /\ panic' = 0
    BY <2>1 DEF ShowInv
  <2>3. /\ ScreenInv(scr') /\ scr'.init
        /\ scr'.owner \in {"term", "splash"} /\ scr'.palette = Palette
        /\ scr'.owner = "splash" => scr'.dotX = 20 /\ scr'.shown = Splash(1)
    BY <1>1, SetupShows
  <2>4. ASSUME scr'.owner = "splash"
        PROVE  \E done \in {1, 2} : /\ done = 1 <=> pc' \in Early
                                    /\ scr'.dotX = 10 * (done + 1)
                                    /\ scr'.shown = Splash(done)
    BY <2>1, <2>3, <2>4 DEF Early
  <2> QED
    BY <2>1, <2>2, <2>3, <2>4 DEF ShowInv
<1>2. CASE Amd64SetupIDT
  <2>1. pc = "idt" /\ pc' = "pmm" /\ panic = 0 /\ panic' = 0
    BY <1>2 DEF Amd64SetupIDT, Running
  <2>2. PICK s : s = scr
    OBVIOUS
  <2>3. PICK dotted : dotted = KeAddToBootScreen(s)
    OBVIOUS
  <2>4. PICK n \in Nat : scr' \in KeTermPrint(dotted, 4, n)
    BY <1>2, <2>2, <2>3 DEF Amd64SetupIDT
  <2>5. PICK one \in Nat : one = 1
    OBVIOUS
  <2>6. /\ ScreenInv(s) /\ s.init /\ s.owner \in {"term", "splash"}
        /\ s.palette \in {Palette, PanicPalette}
        /\ s.owner = "splash" => s.dotX = 10 * (one + 1) /\ s.shown = Splash(one)
    BY <2>1, <2>2, <2>5 DEF ShowInv, Early
  <2>7. /\ ScreenInv(dotted) /\ dotted.init /\ dotted.owner = s.owner
        /\ dotted.palette = s.palette
        /\ dotted.owner = "splash" => dotted.dotX = 10 * (one + 2) /\ dotted.shown = Splash(one + 1)
    BY <2>3, <2>6, Dashed
  <2>8. PICK t : t = scr'
    OBVIOUS
  <2>9. ScreenInv(t) /\ SameFrame(dotted, t) /\ (~Owns(dotted) => t.shown = dotted.shown)
    <3>1. PICK tag : tag = 4
      OBVIOUS
    <3>2. t \in KeTermPrint(dotted, tag, n) /\ ScreenInv(dotted)
      BY <2>4, <2>7, <2>8, <3>1
    <3> QED
      BY ONLY <3>2, n \in Nat, PrintKeeps
  <2>10. dotted.owner = "splash" => ~Owns(dotted)
    BY DEF Owns
  <2>11. /\ t.init /\ t.owner = s.owner /\ t.palette = s.palette
         /\ t.owner = "splash" => t.dotX = 30 /\ t.shown = Splash(2)
    BY <2>5, <2>7, <2>9, <2>10 DEF SameFrame
  <2>12. ASSUME scr'.owner = "splash"
         PROVE  \E done \in {1, 2} : /\ done = 1 <=> pc' \in Early
                                     /\ scr'.dotX = 10 * (done + 1)
                                     /\ scr'.shown = Splash(done)
    BY <2>1, <2>8, <2>11, <2>12 DEF Early
  <2> QED
    BY <2>1, <2>6, <2>8, <2>9, <2>11, <2>12 DEF ShowInv
<1>3. CASE Advance
  <2>1. ASSUME NEW message, KePanic(message), UNCHANGED pc PROVE ShowInv'
    BY <1>3, <2>1, ShowPanicked DEF Advance
  <2>2. 1 .. MaxLog \subseteq Nat
    BY BoundsAssumption
  <2>3. PICK lines : lines = 1 .. MaxLog
    OBVIOUS
  <2>4. CASE Logs(lines) /\ pc' # "start" /\ (pc' \in Early <=> pc \in Early) /\ UNCHANGED panic
    BY <1>3, <2>2, <2>3, <2>4, ShowLogged DEF Advance
  <2> QED
    BY <1>3, <2>1, <2>3, <2>4 DEF Advance
<1>4. ASSUME UNCHANGED <<pc, call, scr, panic>> PROVE ShowInv'
  BY <1>4 DEF ShowInv
<1>5. CASE Called
  <2>1. CASE pc = "start"
    <3>1. UNCHANGED <<pc, call, scr, panic>>
      BY <1>5, <2>1 DEF Called, ShowInv
    <3> QED
      BY <1>4, <3>1
  <2>2. CASE pc # "start"
    <3>0. UNCHANGED pc
      BY <1>5 DEF Called
    <3>1. ASSUME NEW message, KePanic(message) PROVE ShowInv'
      BY <2>2, <3>0, <3>1, ShowPanicked
    <3>2. ASSUME NEW n \in {1, 2}, Logs({n}), UNCHANGED panic PROVE ShowInv'
      <4>1. {n} \subseteq Nat
        OBVIOUS
      <4> QED
        BY <2>2, <3>0, <3>2, <4>1, ShowLogged
    <3>3. ASSUME UNCHANGED <<scr, panic>> PROVE ShowInv'
      BY <2>2, <3>0, <3>3 DEF ShowInv
    <3> QED
      BY <1>5, <3>1, <3>2, <3>3 DEF Called
  <2> QED
    BY <2>1, <2>2
<1>6. CASE PanicStep
  BY <1>6, ShowPanicStep
<1>7. ASSUME NEW v \in Vectors, Exception(v) PROVE ShowInv'
  <2>1. pc # "start" /\ KePanic(T(Gate(v))) /\ UNCHANGED pc
    BY <1>7 DEF Exception
  <2>2. PICK message : message = T(Gate(v))
    OBVIOUS
  <2> QED
    BY <2>1, <2>2, ShowPanicked
<1>8. CASE Loops \/ UNCHANGED vars
  BY <1>4, <1>8 DEF Loops, vars, callVars
<1>9. CASE DrawFaults
  <2>1. pc # "start" /\ KePanic(T("PageFault")) /\ UNCHANGED pc
    BY <1>9 DEF DrawFaults
  <2>2. PICK message : message = T("PageFault")
    OBVIOUS
  <2> QED
    BY <2>1, <2>2, ShowPanicked
<1> QED
  BY <1>1, <1>2, <1>3, <1>5, <1>6, <1>7, <1>8, <1>9, StartAdvances, GlueCalls DEF Next

LEMMA ShowInit == Init => ShowInv
<1> SUFFICES ASSUME Init PROVE ShowInv
  OBVIOUS
<1>1. IsScreen(NoScreen)
  BY DEF IsScreen, NoScreen
<1>2. Sized(NoScreen) /\ ~Owns(NoScreen)
  BY DEF Sized, NoScreen, Owns
<1>3. NoScreen.dotX \in Nat /\ NoScreen.owner = "term" /\ NoScreen.palette = Palette
  BY DEF NoScreen
<1> QED
  BY <1>1, <1>2, <1>3 DEF Init, ShowInv, ScreenInv

\* While the splash screen owns the screen, printing does not reach it and its progress
\* stays on its dashes.
THEOREM SplashIsKept == Spec => []SplashKept
<1>1. ShowInv => SplashKept
  <2> SUFFICES ASSUME ShowInv, scr.init, scr.owner = "splash"
               PROVE  \E done \in 0 .. 10 : scr.shown = Splash(done)
    BY DEF SplashKept, Splash
  <2>1. pc # "start"
    BY DEF ShowInv, NoScreen
  <2>2. PICK done \in {1, 2} : scr.shown = Splash(done)
    BY <2>1 DEF ShowInv
  <2>3. done \in 0 .. 10
    OBVIOUS
  <2> QED
    BY <2>2, <2>3
<1> QED
  BY <1>1, ShowInit, ShowNext, PTL DEF Spec

\* Texts of the terminal never lie over one another, on a screen of any size and wherever
\* a line was broken off by a panic.
THEOREM LinesStayApart == Spec => []LinesApart
<1>1. ShowInv => LinesApart
  BY DEF ShowInv, ScreenInv, Legible, LinesApart
<1> QED
  BY <1>1, ShowInit, ShowNext, PTL DEF Spec

-----------------------------------------------------------------------------
(* Types *)

TypeInv ==
    /\ pc \in Steps
    /\ mapped \subseteq Areas
    /\ call = [of |-> call.of, at |-> call.at] /\ call.at \in {"none", "acquire", "inside"}
    /\ lock \in BOOLEAN /\ spin \in {"none", "clear", "set"}
    /\ panic \in 0 .. 15

\* A panic begins with its first step, or is lost.
LEMMA PanicAt == ASSUME NEW message, KePanic(message) PROVE panic' \in 0 .. 15
<1>1. Lost = 15
  BY ScriptLength DEF Lost
<1> QED
  BY <1>1 DEF KePanic

LEMMA TypeInit == Init => TypeInv
<1> SUFFICES ASSUME Init PROVE TypeInv
  OBVIOUS
<1>2. call = [of |-> call.of, at |-> call.at] /\ call.at \in {"none", "acquire", "inside"}
  BY DEF Init
<1>3. lock \in BOOLEAN
  BY DEF Init
<1> QED
  BY <1>2, <1>3 DEF Init, TypeInv, Steps, Areas

\* The calls of uACPI.
LEMMA TypeGlue == ASSUME TypeInv, Glue PROVE TypeInv'
<1>1. UNCHANGED <<pc, mapped>>
  BY GlueCalls DEF Called
<1>3. panic' \in 0 .. 15
  BY GlueCalls, PanicAt DEF Called, TypeInv
<1>4. ASSUME /\ call' = [of |-> call'.of, at |-> call'.at]
             /\ call'.at \in {"none", "acquire", "inside"}
             /\ lock' \in BOOLEAN /\ spin' \in {"none", "clear", "set"}
      PROVE  TypeInv'
  BY <1>1, <1>3, <1>4 DEF TypeInv
<1>5. CASE uacpi_kernel_alloc
  BY <1>4, <1>5 DEF uacpi_kernel_alloc, TypeInv
<1>6. CASE KeAcquireSpinLock
  <2>1. call' = [of |-> call.of, at |-> IF lock THEN "acquire" ELSE "inside"]
    BY <1>6 DEF KeAcquireSpinLock, TypeInv
  <2> QED
    BY <1>4, <1>6, <2>1 DEF KeAcquireSpinLock, TypeInv
<1>7. CASE MmAllocateGeneralMemory \/ OutOfMemory \/ ZeroesNull
  <2>1. call' = [of |-> "none", at |-> "none"] /\ lock' = FALSE
    BY <1>7 DEF MmAllocateGeneralMemory, OutOfMemory, ZeroesNull, Released
  <2>2. spin' \in {"none", "clear", "set"}
    <3>1. CASE MmAllocateGeneralMemory
      BY <3>1 DEF MmAllocateGeneralMemory, TypeInv
    <3>2. CASE OutOfMemory \/ ZeroesNull
      BY <3>2 DEF OutOfMemory, ZeroesNull, TypeInv
    <3> QED
      BY <1>7, <3>1, <3>2
  <2>3. /\ call' = [of |-> call'.of, at |-> call'.at]
        /\ call'.at \in {"none", "acquire", "inside"}
    BY <2>1
  <2>4. lock' \in BOOLEAN
    BY <2>1
  <2> QED
    BY <1>4, <2>2, <2>3, <2>4
<1>8. CASE uacpi_kernel_lock_spinlock \/ uacpi_kernel_unlock_spinlock \/ uacpi_kernel_log
  BY <1>4, <1>8 DEF uacpi_kernel_lock_spinlock, uacpi_kernel_unlock_spinlock, uacpi_kernel_log,
     TypeInv
<1> QED
  BY <1>5, <1>6, <1>7, <1>8 DEF Glue

LEMMA TypeNext == TypeInv /\ [Next]_vars => TypeInv'
<1> SUFFICES ASSUME TypeInv, [Next]_vars PROVE TypeInv'
  OBVIOUS
<1>1. CASE KeGraphicsSetup
  BY <1>1 DEF KeGraphicsSetup, callVars, TypeInv, Steps
<1>2. CASE Amd64SetupIDT
  BY <1>2 DEF Amd64SetupIDT, callVars, TypeInv, Steps
<1>3. CASE Advance
  <2>1. panic' \in 0 .. 15
    BY <1>3, PanicAt DEF Advance, TypeInv
  <2>2. pc' \in Steps /\ mapped' \subseteq Areas /\ UNCHANGED callVars
    BY <1>3 DEF Advance, TypeInv
  <2> QED
    BY <2>1, <2>2 DEF TypeInv, callVars
<1>4. CASE Glue
  BY <1>4, TypeGlue
<1>5. CASE PanicStep
  <2>1. panic' \in 0 .. 15
    BY <1>5, ScriptLength DEF PanicStep
  <2> QED
    BY <1>5, <2>1 DEF PanicStep, callVars, TypeInv
<1>6. ASSUME NEW v \in Vectors, Exception(v) PROVE TypeInv'
  <2>1. panic' \in 0 .. 15
    BY <1>6, PanicAt DEF Exception
  <2> QED
    BY <1>6, <2>1 DEF Exception, callVars, TypeInv
<1>7. CASE Loops \/ UNCHANGED vars
  BY <1>7 DEF Loops, vars, callVars, TypeInv
<1>8. CASE DrawFaults
  <2>1. panic' \in 0 .. 15
    BY <1>8, PanicAt DEF DrawFaults
  <2> QED
    BY <1>8, <2>1 DEF DrawFaults, callVars, TypeInv
<1> QED
  BY <1>1, <1>2, <1>3, <1>4, <1>5, <1>6, <1>7, <1>8, StartAdvances DEF Next

-----------------------------------------------------------------------------
(* The lock *)

\* The lock is held by the call that is inside of the allocator, and by nobody else.
LockInv == lock => call.at = "inside"

LEMMA LockNext == TypeInv /\ LockInv /\ [Next]_vars => LockInv'
<1> SUFFICES ASSUME TypeInv, LockInv, [Next]_vars PROVE LockInv'
  OBVIOUS
<1>1. ASSUME UNCHANGED <<call, lock>> PROVE LockInv'
  BY <1>1 DEF LockInv
<1>2. CASE Start
  BY <1>1, <1>2, StartAdvances DEF Advance, KeGraphicsSetup, Amd64SetupIDT, callVars
<1>3. CASE uacpi_kernel_alloc
  <2>1. lock' = lock /\ call.at = "none"
    BY <1>3 DEF uacpi_kernel_alloc, Calls
  <2> QED
    BY <2>1 DEF LockInv
<1>4. CASE KeAcquireSpinLock
  <2>1. ~lock
    BY <1>4 DEF KeAcquireSpinLock, LockInv
  <2>2. call' = [of |-> call.of, at |-> "inside"]
    BY <1>4, <2>1 DEF KeAcquireSpinLock, TypeInv
  <2> QED
    BY <2>2 DEF LockInv
<1>5. CASE MmAllocateGeneralMemory \/ OutOfMemory \/ ZeroesNull
  <2>1. lock' = FALSE
    BY <1>5 DEF MmAllocateGeneralMemory, OutOfMemory, ZeroesNull, Released
  <2> QED
    BY <2>1 DEF LockInv
<1>6. CASE uacpi_kernel_lock_spinlock \/ uacpi_kernel_unlock_spinlock \/ uacpi_kernel_log
  BY <1>1, <1>6 DEF uacpi_kernel_lock_spinlock, uacpi_kernel_unlock_spinlock, uacpi_kernel_log
<1>7. CASE PanicStep \/ Loops \/ UNCHANGED vars
  BY <1>1, <1>7 DEF PanicStep, Loops, vars, callVars
<1>8. CASE DrawFaults \/ \E v \in Vectors : Exception(v)
  BY <1>1, <1>8 DEF DrawFaults, Exception, callVars
<1> QED
  BY <1>2, <1>3, <1>4, <1>5, <1>6, <1>7, <1>8 DEF Next, Glue

\* Nobody ever waits for the allocator's lock, whichever of its calls find no memory:
\* the one CPU would wait for ever.
THEOREM NobodyWaits == Spec => []NeverWaits
<1>1. Init => LockInv
  BY DEF Init, LockInv
<1>2. LockInv => NeverWaits
  BY DEF LockInv, NeverWaits
<1> QED
  BY <1>1, <1>2, TypeInit, TypeNext, LockNext, PTL DEF Spec

-----------------------------------------------------------------------------
(* Where things are drawn *)

\* KeGraphicsDrawRect never writes outside of the framebuffer, whatever the loader
\* reported of it, the terminal's cursor stays on its screen, and every text has its first
\* row there.
THEOREM StaysOnScreen == Spec => []OnScreen
<1>1. TypeInv /\ ShowInv => OnScreen
  <2> SUFFICES ASSUME TypeInv, ShowInv PROVE OnScreen
    OBVIOUS
  <2>1. panic \in 0 .. Lost
    BY ScriptLength DEF TypeInv, Lost
  <2>2. TypeOK
    BY <2>1 DEF TypeInv, TypeOK, Steps, ShowInv, ScreenInv, Sized
  <2> QED
    BY <2>2 DEF ShowInv, ScreenInv, Sized, Legible, OnScreen
<1> QED
  BY <1>1, TypeInit, TypeNext, ShowInit, ShowNext, PTL DEF Spec

-----------------------------------------------------------------------------
(* A panic, call by call *)

\* A message is none of the other texts of a panic.
LEMMA MessageIsText ==
    ASSUME NEW m \in Messages
    PROVE  /\ T(m) \notin {T("[ ] "), T("      ")}
           /\ Length(T(m)) = MessageLength
<1>1. \A a, b : T(a) = T(b) => a = b
  BY DEF T
<1>2. m \notin {"[ ] ", "      ", "PANIC", "has panicked", "INFO", "Please report",
                "Starting Nearlands", "/", "log"}
  BY DEF Messages, Named
<1>3. T(m) \notin {T("[ ] "), T("      "), T("PANIC"), T("has panicked"), T("INFO"),
                   T("Please report"), T("Starting Nearlands"), T("/"), T("log")}
  BY <1>1, <1>2
<1> QED
  BY <1>3 DEF Length

LEMMA EntryMessages ==
    DOMAIN Entries = 1 .. 22 /\ \A i \in 1 .. 22 : Entries[i] \in Messages \cup {""}
<1>1. DOMAIN Entries = 1 .. 22
  BY DEF Entries
<1>2. /\ Entries[1] = "DivideByZero" /\ Entries[2] = "DebugException"
      /\ Entries[3] = "NMI" /\ Entries[4] = "Breakpoint"
      /\ Entries[5] = "Overflow" /\ Entries[6] = "BoundRange"
  BY DEF Entries
<1>3. /\ Entries[7] = "InvalidOpcode" /\ Entries[8] = "NoMathProc"
      /\ Entries[9] = "DoubleFault" /\ Entries[10] = ""
      /\ Entries[11] = "InvalidTSS" /\ Entries[12] = "SegmentNotPresent"
  BY DEF Entries
<1>4. /\ Entries[13] = "StackSegmentFault" /\ Entries[14] = "GeneralProtection"
      /\ Entries[15] = "PageFault" /\ Entries[16] = ""
      /\ Entries[17] = "FloatingPointError"
  BY DEF Entries
<1>5. /\ Entries[18] = "AlignmentCheck" /\ Entries[19] = "MachineCheck"
      /\ Entries[20] = "SIMDFloatingPointError" /\ Entries[21] = "VirtualizationError"
      /\ Entries[22] = "ControlProtectionException"
  BY DEF Entries
<1>6. PICK M : M = Messages \cup {""}
  OBVIOUS
<1>7. ASSUME NEW i \in 1 .. 6 PROVE Entries[i] \in M
  <2>1. /\ "DivideByZero" \in M /\ "DebugException" \in M /\ "NMI" \in M
        /\ "Breakpoint" \in M /\ "Overflow" \in M /\ "BoundRange" \in M
    BY <1>6 DEF Messages
  <2>2. i = 1 \/ i = 2 \/ i = 3 \/ i = 4 \/ i = 5 \/ i = 6
    BY <1>7
  <2> QED
    BY <1>2, <2>1, <2>2
<1>8. ASSUME NEW i \in 7 .. 12 PROVE Entries[i] \in M
  <2>1. /\ "InvalidOpcode" \in M /\ "NoMathProc" \in M /\ "DoubleFault" \in M
        /\ "" \in M /\ "InvalidTSS" \in M /\ "SegmentNotPresent" \in M
    BY <1>6 DEF Messages
  <2>2. i = 7 \/ i = 8 \/ i = 9 \/ i = 10 \/ i = 11 \/ i = 12
    BY <1>8
  <2> QED
    BY <1>3, <2>1, <2>2
<1>9. ASSUME NEW i \in 13 .. 17 PROVE Entries[i] \in M
  <2>1. /\ "StackSegmentFault" \in M /\ "GeneralProtection" \in M /\ "PageFault" \in M
        /\ "" \in M /\ "FloatingPointError" \in M
    BY <1>6 DEF Messages
  <2>2. i = 13 \/ i = 14 \/ i = 15 \/ i = 16 \/ i = 17
    BY <1>9
  <2> QED
    BY <1>4, <2>1, <2>2
<1>10. ASSUME NEW i \in 18 .. 22 PROVE Entries[i] \in M
  <2>1. /\ "AlignmentCheck" \in M /\ "MachineCheck" \in M /\ "SIMDFloatingPointError" \in M
        /\ "VirtualizationError" \in M /\ "ControlProtectionException" \in M
    BY <1>6 DEF Messages
  <2>2. i = 18 \/ i = 19 \/ i = 20 \/ i = 21 \/ i = 22
    BY <1>10
  <2> QED
    BY <1>5, <2>1, <2>2
<1>11. ASSUME NEW i \in 1 .. 22 PROVE Entries[i] \in M
  <2>1. i \in 1 .. 6 \/ i \in 7 .. 12 \/ i \in 13 .. 17 \/ i \in 18 .. 22
    BY <1>11
  <2> QED
    BY <1>7, <1>8, <1>9, <1>10, <2>1
<1> QED
  BY <1>1, <1>6, <1>11

LEMMA GateMessage == \A v \in 0 .. 255 : Gate(v) \in Messages
<1> SUFFICES ASSUME NEW v \in 0 .. 255 PROVE Gate(v) \in Messages
  OBVIOUS
<1>1. "UnknownSoftware" \in Messages /\ "GeneralProtection" \in Messages
  BY DEF Messages
<1>2. CASE v + 1 \in DOMAIN Entries /\ Entries[v + 1] # ""
  BY <1>2, EntryMessages DEF Gate
<1>3. CASE ~(v + 1 \in DOMAIN Entries /\ Entries[v + 1] # "")
  <2>1. CASE v \in 31 .. 254
    <3>1. Gate(v) = "UnknownSoftware"
      BY <1>3, <2>1 DEF Gate
    <3> QED
      BY <1>1, <3>1
  <2>2. CASE v \notin 31 .. 254
    <3>1. Gate(v) = IF v \in 31 .. 254 THEN "UnknownSoftware" ELSE "GeneralProtection"
      BY <1>3 DEF Gate
    <3>2. Gate(v) = "GeneralProtection"
      BY <2>2, <3>1
    <3> QED
      BY <1>1, <3>2
  <2> QED
    BY <2>1, <2>2
<1> QED
  BY <1>2, <1>3

\* The steps of the script that move down, those that print, and those that print a tag.
Downs == {4, 7, 10}
Prints == 1 .. 13 \ Downs
Tags == {2, 5, 8, 11}

LEMMA ScriptKinds ==
    /\ \A i \in Downs : Script[i] = Down
    /\ \A i \in Prints : /\ Script[i] # Down /\ Script[i].newLine \in BOOLEAN
                         /\ Script[i].newLine <=> i \notin Tags
<1>1. /\ \A text : Line(text).newLine = TRUE /\ Line(text).text = text
      /\ \A c : Tag(c).newLine = FALSE
      /\ Down.newLine = TRUE /\ Down.text = ""
  BY DEF Line, Tag, Down
<1>2. \A c : Tag(c) # Down
  BY <1>1
<1>3. \A i \in Downs : Script[i] = Down
  BY ScriptLines DEF Downs
<1>4. \A text : text # "" => Line(text) # Down
  BY <1>1
<1>5. ASSUME NEW i \in Prints
      PROVE  /\ Script[i] # Down /\ Script[i].newLine \in BOOLEAN
             /\ Script[i].newLine <=> i \notin Tags
  <2>1. CASE i \in Tags
    <3>1. \E c : Script[i] = Tag(c)
      BY <2>1, ScriptLines DEF Tags
    <3>2. Script[i] # Down /\ Script[i].newLine = FALSE
      BY <1>1, <1>2, <3>1
    <3> QED
      BY <2>1, <3>2
  <2>2. CASE i \notin Tags
    <3>1. i \in {1, 3, 6, 9, 12, 13}
      BY <2>2 DEF Tags, Prints, Downs
    <3>2. \E text : text # "" /\ Script[i] = Line(text)
      BY <3>1, ScriptLines
    <3>3. Script[i] # Down /\ Script[i].newLine = TRUE
      BY <1>1, <1>4, <3>2
    <3> QED
      BY <2>2, <3>3
  <2> QED
    BY <2>1, <2>2
<1> QED
  BY <1>3, <1>5

\* What is said at each step.
LEMMA Sayings ==
    ASSUME NEW m, cause = T(m)
    PROVE  /\ Say(1) = T("PANIC") /\ Say(13) = T("PANIC")
           /\ Say(2) = T("[ ] ") /\ Say(5) = T("[ ] ") /\ Say(11) = T("[ ] ")
           /\ Say(3) = T("has panicked") /\ Say(6) = T("INFO") /\ Say(12) = T("Please report")
           /\ Say(8) = T("      ") /\ Say(9) = cause
<1>1. /\ \A text : Line(text).text = text
      /\ \A c : Tag(c).text = "[ ] "
      /\ Down.text = ""
  BY DEF Line, Tag, Down
<1>2. "number" \notin DOMAIN cause
  BY DEF T
<1>3. /\ Script[1].text = "PANIC" /\ Script[2].text = "[ ] " /\ Script[3].text = "has panicked"
      /\ Script[4].text = "" /\ Script[5].text = "[ ] " /\ Script[6].text = "INFO"
      /\ Script[7].text = "" /\ Script[8].text = "[ ] " /\ Script[9].text = "message"
      /\ Script[10].text = "" /\ Script[11].text = "[ ] "
      /\ Script[12].text = "Please report" /\ Script[13].text = "PANIC"
  BY <1>1, ScriptLines
<1>4. Len(Script) = 13
  BY ScriptLength
<1>5. ASSUME NEW i \in 1 .. 13, Script[i].text # "message",
             i = 13 \/ Script[i + 1].text # "message"
      PROVE  Say(i) = T(Script[i].text)
  <2>1. ~(i < Len(Script) /\ Script[i + 1].text = "message" /\ "number" \notin DOMAIN cause)
    BY <1>4, <1>5
  <2> QED
    BY <1>5, <2>1 DEF Say
<1>6. ASSUME NEW i \in 1 .. 13, Script[i].text = "message" PROVE Say(i) = cause
  BY <1>6 DEF Say
<1>7. ASSUME NEW i \in 1 .. 12, Script[i].text # "message", Script[i + 1].text = "message"
      PROVE  Say(i) = T("      ")
  <2>1. i < Len(Script)
    BY <1>4
  <2> QED
    BY <1>2, <1>7, <2>1 DEF Say
<1>8. Say(9) = cause
  <2>1. PICK i \in 1 .. 13 : i = 9
    OBVIOUS
  <2>2. Script[i].text = "message"
    BY <1>3, <2>1
  <2> QED
    BY <1>6, <2>1, <2>2
<1>9. Say(8) = T("      ")
  <2>1. PICK i \in 1 .. 12 : i = 8
    OBVIOUS
  <2>2. i + 1 = 9
    BY <2>1
  <2>3. Script[i].text = "[ ] " /\ Script[i + 1].text = "message"
    BY <1>3, <2>1, <2>2
  <2> QED
    BY <1>7, <2>1, <2>3
<1>10. Say(1) = T("PANIC")
  <2>1. PICK i \in 1 .. 13 : i = 1
    OBVIOUS
  <2>2. i + 1 = 2
    BY <2>1
  <2>3. Script[i].text = "PANIC" /\ Script[i + 1].text = "[ ] "
    BY <1>3, <2>1, <2>2
  <2> QED
    BY <1>5, <2>1, <2>3
<1>11. Say(2) = T("[ ] ")
  <2>1. PICK i \in 1 .. 13 : i = 2
    OBVIOUS
  <2>2. i + 1 = 3
    BY <2>1
  <2>3. Script[i].text = "[ ] " /\ Script[i + 1].text = "has panicked"
    BY <1>3, <2>1, <2>2
  <2> QED
    BY <1>5, <2>1, <2>3
<1>12. Say(3) = T("has panicked")
  <2>1. PICK i \in 1 .. 13 : i = 3
    OBVIOUS
  <2>2. i + 1 = 4
    BY <2>1
  <2>3. Script[i].text = "has panicked" /\ Script[i + 1].text = ""
    BY <1>3, <2>1, <2>2
  <2> QED
    BY <1>5, <2>1, <2>3
<1>13. Say(5) = T("[ ] ")
  <2>1. PICK i \in 1 .. 13 : i = 5
    OBVIOUS
  <2>2. i + 1 = 6
    BY <2>1
  <2>3. Script[i].text = "[ ] " /\ Script[i + 1].text = "INFO"
    BY <1>3, <2>1, <2>2
  <2> QED
    BY <1>5, <2>1, <2>3
<1>14. Say(6) = T("INFO")
  <2>1. PICK i \in 1 .. 13 : i = 6
    OBVIOUS
  <2>2. i + 1 = 7
    BY <2>1
  <2>3. Script[i].text = "INFO" /\ Script[i + 1].text = ""
    BY <1>3, <2>1, <2>2
  <2> QED
    BY <1>5, <2>1, <2>3
<1>15. Say(11) = T("[ ] ")
  <2>1. PICK i \in 1 .. 13 : i = 11
    OBVIOUS
  <2>2. i + 1 = 12
    BY <2>1
  <2>3. Script[i].text = "[ ] " /\ Script[i + 1].text = "Please report"
    BY <1>3, <2>1, <2>2
  <2> QED
    BY <1>5, <2>1, <2>3
<1>16. Say(12) = T("Please report")
  <2>1. PICK i \in 1 .. 13 : i = 12
    OBVIOUS
  <2>2. i + 1 = 13
    BY <2>1
  <2>3. Script[i].text = "Please report" /\ Script[i + 1].text = "PANIC"
    BY <1>3, <2>1, <2>2
  <2> QED
    BY <1>5, <2>1, <2>3
<1>17. Say(13) = T("PANIC")
  <2>1. PICK i \in 1 .. 13 : i = 13
    OBVIOUS
  <2>3. Script[i].text = "PANIC"
    BY <1>3, <2>1
  <2> QED
    BY <1>5, <2>1, <2>3
<1> QED
  BY <1>8, <1>9, <1>10, <1>11, <1>12, <1>13, <1>14, <1>15, <1>16, <1>17

LEMMA TextLengths ==
    /\ Length(T("PANIC")) = 45 /\ Length(T("has panicked")) = 23 /\ Length(T("INFO")) = 21
    /\ Length(T("Please report")) = 36 /\ Length(T("[ ] ")) = 4 /\ Length(T("      ")) = 6
<1>1. \A a, b : T(a) = T(b) => a = b
  BY DEF T
<1>2. Length(T("PANIC")) = 45
  <2>1. PICK what : what = T("PANIC")
    OBVIOUS
  <2>2. what \notin {T("has panicked"), T("INFO"), T("Please report"), T("Starting Nearlands"),
                    T("[ ] "), T("      "), T("/"), T("log")}
    BY <1>1, <2>1
  <2> QED
    BY <2>1, <2>2 DEF Length
<1>3. Length(T("has panicked")) = 23
  <2>1. PICK what : what = T("has panicked")
    OBVIOUS
  <2>2. what \notin {T("PANIC"), T("INFO"), T("Please report"), T("Starting Nearlands"),
                    T("[ ] "), T("      "), T("/"), T("log")}
    BY <1>1, <2>1
  <2> QED
    BY <2>1, <2>2 DEF Length
<1>4. Length(T("INFO")) = 21
  <2>1. PICK what : what = T("INFO")
    OBVIOUS
  <2>2. what \notin {T("PANIC"), T("has panicked"), T("Please report"), T("Starting Nearlands"),
                    T("[ ] "), T("      "), T("/"), T("log")}
    BY <1>1, <2>1
  <2> QED
    BY <2>1, <2>2 DEF Length
<1>5. Length(T("Please report")) = 36
  <2>1. PICK what : what = T("Please report")
    OBVIOUS
  <2>2. what \notin {T("PANIC"), T("has panicked"), T("INFO"), T("Starting Nearlands"),
                    T("[ ] "), T("      "), T("/"), T("log")}
    BY <1>1, <2>1
  <2> QED
    BY <2>1, <2>2 DEF Length
<1>6. Length(T("[ ] ")) = 4
  <2>1. PICK what : what = T("[ ] ")
    OBVIOUS
  <2>2. what \notin {T("PANIC"), T("has panicked"), T("INFO"), T("Please report"),
                    T("Starting Nearlands"), T("      "), T("/"), T("log")}
    BY <1>1, <2>1
  <2> QED
    BY <2>1, <2>2 DEF Length
<1>7. Length(T("      ")) = 6
  <2>1. PICK what : what = T("      ")
    OBVIOUS
  <2>2. what \notin {T("PANIC"), T("has panicked"), T("INFO"), T("Please report"),
                    T("Starting Nearlands"), T("[ ] "), T("/"), T("log")}
    BY <1>1, <2>1
  <2> QED
    BY <2>1, <2>2 DEF Length
<1> QED
  BY <1>2, <1>3, <1>4, <1>5, <1>6, <1>7

\* Where the cursor is before a step of the script, how many texts there have been, and
\* the step of each text.
Row(p) == IF p = 1 THEN 10 ELSE IF p <= 3 THEN 22 ELSE IF p = 4 THEN 34 ELSE IF p <= 6 THEN 58
          ELSE IF p = 7 THEN 70 ELSE IF p <= 9 THEN 94 ELSE IF p = 10 THEN 106
          ELSE IF p <= 12 THEN 130 ELSE IF p = 13 THEN 142 ELSE 154
Column(p) == IF p \in {3, 6, 12} THEN 42 ELSE IF p = 9 THEN 58 ELSE 10
Count(p) == IF p <= 4 THEN p - 1 ELSE IF p <= 7 THEN p - 2 ELSE IF p <= 10 THEN p - 3 ELSE p - 4
Order(k) == IF k <= 3 THEN k ELSE IF k <= 5 THEN k + 1 ELSE IF k <= 7 THEN k + 2 ELSE k + 3

LEMMA Layout ==
    ASSUME NEW p \in 1 .. 13
    PROVE  /\ Count(p) \in Nat /\ Row(p) \in Nat /\ Column(p) \in Nat /\ Row(p) < 154
           /\ p \in Prints => Count(p + 1) = Count(p) + 1 /\ Order(Count(p) + 1) = p
           /\ p \in Downs => /\ Count(p + 1) = Count(p) /\ Row(p + 1) = Row(p) + 24
                             /\ Row(p) + 24 < 154
           /\ p \notin Tags => Column(p + 1) = 10
           /\ p \in Tags => Row(p + 1) = Row(p)
           /\ p \in Tags => Column(p + 1) = Column(p) + IF p = 8 THEN 48 ELSE 32
           /\ p \in Prints \ Tags => Row(p + 1) = Row(p) + 12
<1>1. Count(p) \in Nat
  BY DEF Count
<1>2. Row(p) \in Nat /\ Row(p) < 154
  BY DEF Row
<1>3. Column(p) \in Nat
  BY DEF Column
<1>4. ASSUME p \in Prints PROVE Count(p + 1) = Count(p) + 1
  BY <1>4 DEF Count, Prints, Downs
<1>5. ASSUME p \in Prints PROVE Order(Count(p) + 1) = p
  BY <1>5 DEF Count, Order, Prints, Downs
<1>6. ASSUME p \in Downs
      PROVE Count(p + 1) = Count(p) /\ Row(p + 1) = Row(p) + 24 /\ Row(p) + 24 < 154
  BY <1>6 DEF Count, Row, Downs
<1>7. ASSUME p \notin Tags PROVE Column(p + 1) = 10
  BY <1>7 DEF Column, Tags
<1>8. ASSUME p \in Tags PROVE Row(p + 1) = Row(p)
  BY <1>8 DEF Row, Tags
<1>9. ASSUME p \in Tags PROVE Column(p + 1) = Column(p) + IF p = 8 THEN 48 ELSE 32
  BY <1>9 DEF Column, Tags
<1>10. ASSUME p \in Prints \ Tags PROVE Row(p + 1) = Row(p) + 12
  BY <1>10 DEF Row, Prints, Downs, Tags
<1> QED
  BY <1>1, <1>2, <1>3, <1>4, <1>5, <1>6, <1>7, <1>8, <1>9, <1>10

\* The mark that a step of the script leaves, and what a panic has printed so far.
Mark(j) == Box(Say(j), Column(j), Row(j), 1, PanicPalette[Script[j].color])
Words == {Say(i) : i \in 1 .. 13}
Room == scr.height >= 154

PanicInv ==
    panic \in 1 .. 14 =>
        /\ \E m \in Messages : cause = T(m)
        /\ serial \in Seq(Words)
        /\ Len(serial) = Count(panic)
        /\ \A k \in 1 .. Count(panic) : serial[k] = Say(Order(k))
        /\ Room => /\ scr.x = Column(panic) /\ scr.y = Row(panic) /\ scr.back = "navy"
                   /\ scr.shown = {Mark(j) : j \in {i \in Prints : i < panic}}

LEMMA PanicStarts ==
    ASSUME ShowInv, NEW message, KePanic(message), \E m \in Messages : message = T(m),
           pc # "start"
    PROVE  PanicInv'
<1> SUFFICES ASSUME panic' \in 1 .. 14 PROVE PanicInv'
  BY DEF PanicInv
<1>0. Lost = 15
  BY ScriptLength DEF Lost
<1>1. panic' = 1 /\ cause' = message /\ serial' = <<>> /\ PanicInitialize
  BY <1>0 DEF KePanic
<1>2. scr'.x = 10 /\ scr'.y = 10 /\ scr'.shown = {} /\ scr'.back = "navy"
  BY <1>1, PanicBegins DEF ShowInv
<1>3. Count(1) = 0 /\ Row(1) = 10 /\ Column(1) = 10
  BY DEF Count, Row, Column
<1>4. serial' \in Seq(Words') /\ Len(serial') = 0
  BY <1>1
<1>5. {i \in Prints : i < 1} = {}
  BY DEF Prints
<1>6. {Mark(j) : j \in {i \in Prints : i < 1}}' = {}
  BY <1>5
<1>7. \E m \in Messages : cause' = T(m)
  BY <1>1
<1> QED
  BY <1>1, <1>2, <1>3, <1>4, <1>6, <1>7 DEF PanicInv

\* A text.
LEMMA PanicPrints ==
    ASSUME ShowInv, PanicInv, PanicStep, panic \in Prints PROVE PanicInv'
<1>1. panic \in 1 .. 13 /\ panic # 0 /\ panic' = panic + 1 /\ cause' = cause
  BY ScriptLength DEF PanicStep
<1>2. \A i : Say(i)' = Say(i)
  BY <1>1 DEF Say
<1>3. Script[panic] # Down
  BY ScriptKinds
<1>4. /\ scr' = KeTermPuts(scr, Script[panic].newLine, Say(panic),
                           scr.palette[Script[panic].color])
      /\ serial' = Append(serial, Say(panic))
  BY <1>3 DEF PanicStep
<1>5. /\ Count(panic) \in Nat /\ Count(panic + 1) = Count(panic) + 1
      /\ Order(Count(panic) + 1) = panic
  BY <1>1, Layout
<1>6. /\ serial' \in Seq(Words') /\ Len(serial') = Count(panic')
      /\ \A k \in 1 .. Count(panic') : serial'[k] = Say(Order(k))'
  <2>1. Words' = Words /\ Say(panic) \in Words
    BY <1>1, <1>2 DEF Words
  <2>2. serial \in Seq(Words) /\ Len(serial) = Count(panic)
        /\ \A k \in 1 .. Count(panic) : serial[k] = Say(Order(k))
    BY <1>1 DEF PanicInv
  <2>3. serial' \in Seq(Words) /\ Len(serial') = Count(panic) + 1
    BY <1>4, <2>1, <2>2
  <2>4. serial'[Count(panic) + 1] = Say(panic)
    BY <1>4, <2>1, <2>2
  <2>5. \A k \in 1 .. Count(panic) : serial'[k] = serial[k]
    BY <1>4, <2>1, <2>2
  <2>6. \A k \in 1 .. (Count(panic) + 1) : serial'[k] = Say(Order(k))
    BY <1>5, <2>2, <2>4, <2>5
  <2> QED
    BY <1>1, <1>2, <1>5, <2>1, <2>3, <2>6
<1>7. ASSUME Room'
      PROVE  /\ scr'.x = Column(panic') /\ scr'.y = Row(panic') /\ scr'.back = "navy"
             /\ scr'.shown = {Mark(j) : j \in {i \in Prints : i < panic}}'
  <2>1. PICK s : s = scr
    OBVIOUS
  <2>2. PICK t : t = scr'
    OBVIOUS
  <2>3. IsScreen(s) /\ Sized(s) /\ Owns(s) /\ s.palette = PanicPalette
    BY <1>1, <2>1 DEF ShowInv, ScreenInv, Owns
  <2>4. PICK newLine, what, color : /\ newLine = Script[panic].newLine
                                    /\ what = Say(panic)
                                    /\ color = PanicPalette[Script[panic].color]
    OBVIOUS
  <2>5. t = KeTermPuts(s, newLine, what, color)
    BY <1>4, <2>1, <2>2, <2>3, <2>4
  <2>6. newLine \in BOOLEAN /\ (newLine <=> panic \notin Tags)
    BY <2>4, ScriptKinds
  <2>7. s.height = t.height
    BY <2>1, <2>2, ShowPanicStep DEF SameFrame
  <2>8. /\ s.height >= 154 /\ s.x = Column(panic) /\ s.y = Row(panic) /\ s.back = "navy"
        /\ s.shown = {Mark(j) : j \in {i \in Prints : i < panic}}
    BY <1>1, <1>7, <2>1, <2>2, <2>7 DEF PanicInv, Room
  <2>9. s.y < s.height
    <3>1. Row(panic) \in Nat /\ Row(panic) < 154 /\ s.height \in Nat
      BY <1>1, <2>3, Layout DEF Sized
    <3> QED
      BY <2>8, <3>1
  <2>10. /\ t.shown = s.shown \cup {Box(what, s.x, s.y, 1, color)} /\ t.back = s.back
         /\ newLine => t.x = 10 /\ t.y = s.y + 12
         /\ ~newLine => t.x = s.x + 8 * Length(what) /\ t.y = s.y
    BY ONLY <2>3, <2>5, <2>6, <2>9, PutExact
  <2>11. t.shown = s.shown \cup {Mark(panic)}
    BY <2>4, <2>8, <2>10 DEF Mark
  <2>12. t.y = Row(panic + 1)
    BY <1>1, <2>6, <2>8, <2>10, Layout
  <2>13. t.x = Column(panic + 1)
    <3>1. CASE panic \notin Tags
      BY <1>1, <2>6, <2>10, <3>1, Layout
    <3>2. CASE panic \in Tags
      <4>1. 8 * Length(what) = IF panic = 8 THEN 48 ELSE 32
        <5>1. PICK m : cause = T(m)
          BY <1>1 DEF PanicInv
        <5>2. what = IF panic = 8 THEN T("      ") ELSE T("[ ] ")
          BY <2>4, <3>2, <5>1, Sayings DEF Tags
        <5>3. Length(what) = IF panic = 8 THEN 6 ELSE 4
          BY <5>2, TextLengths
        <5> QED
          BY <5>3
      <4> QED
        BY <1>1, <2>6, <2>8, <2>10, <3>2, <4>1, Layout
    <3> QED
      BY <3>1, <3>2
  <2>14. \A j : Mark(j)' = Mark(j)
    BY <1>2 DEF Mark
  <2>15. {Mark(j) : j \in {i \in Prints : i < panic}}'
           = {Mark(j) : j \in {i \in Prints : i < panic + 1}}
    BY <1>1, <2>14
  <2>16. \A i \in Prints : i < panic + 1 <=> i < panic \/ i = panic
    BY <1>1 DEF Prints
  <2>17. {Mark(j) : j \in {i \in Prints : i < panic + 1}}
           = {Mark(j) : j \in {i \in Prints : i < panic}} \cup {Mark(panic)}
    BY <2>16
  <2> QED
    BY <1>1, <2>2, <2>8, <2>10, <2>11, <2>12, <2>13, <2>15, <2>17
<1>8. \E m \in Messages : cause' = T(m)
  BY <1>1 DEF PanicInv
<1> QED
  BY <1>1, <1>6, <1>7, <1>8 DEF PanicInv

\* Two lines down.
LEMMA PanicMoves ==
    ASSUME ShowInv, PanicInv, PanicStep, panic \in Downs PROVE PanicInv'
<1>1. panic \in 1 .. 13 /\ panic # 0 /\ panic' = panic + 1 /\ cause' = cause
  BY ScriptLength DEF PanicStep
<1>2. \A i : Say(i)' = Say(i)
  BY <1>1 DEF Say
<1>3. Script[panic] = Down
  BY ScriptKinds
<1>4. scr' = KeTermMoveDown(scr, 2) /\ serial' = serial
  BY <1>3 DEF PanicStep
<1>5. /\ Count(panic + 1) = Count(panic) /\ Row(panic + 1) = Row(panic) + 24
      /\ Row(panic) + 24 < 154 /\ Column(panic + 1) = 10 /\ Row(panic) \in Nat
  <2>1. panic \notin Tags
    BY DEF Downs, Tags
  <2> QED
    BY <1>1, <2>1, Layout
<1>6. /\ serial' \in Seq(Words') /\ Len(serial') = Count(panic')
      /\ \A k \in 1 .. Count(panic') : serial'[k] = Say(Order(k))'
  <2>1. Words' = Words
    BY <1>2 DEF Words
  <2> QED
    BY <1>1, <1>2, <1>4, <1>5, <2>1 DEF PanicInv
<1>7. ASSUME Room'
      PROVE  /\ scr'.x = Column(panic') /\ scr'.y = Row(panic') /\ scr'.back = "navy"
             /\ scr'.shown = {Mark(j) : j \in {i \in Prints : i < panic}}'
  <2>1. PICK s : s = scr
    OBVIOUS
  <2>2. PICK t : t = scr'
    OBVIOUS
  <2>3. IsScreen(s) /\ Sized(s)
    BY <2>1 DEF ShowInv, ScreenInv
  <2>4. t = KeTermMoveDown(s, 2)
    BY <1>4, <2>1, <2>2
  <2>5. s.height = t.height
    BY <2>1, <2>2, ShowPanicStep DEF SameFrame
  <2>6. /\ s.height >= 154 /\ s.y = Row(panic) /\ s.back = "navy"
        /\ s.shown = {Mark(j) : j \in {i \in Prints : i < panic}}
    BY <1>1, <1>7, <2>1, <2>2, <2>5 DEF PanicInv, Room
  <2>7. s.y + 24 < s.height
    <3>1. s.height \in Nat
      BY <2>3 DEF Sized
    <3> QED
      BY <1>5, <2>6, <3>1
  <2>8. t.shown = s.shown /\ t.back = s.back /\ t.x = 10 /\ t.y = s.y + 24
    BY <2>3, <2>4, <2>7, MoveExact
  <2>9. \A j : Mark(j)' = Mark(j)
    BY <1>2 DEF Mark
  <2>10. {Mark(j) : j \in {i \in Prints : i < panic}}'
           = {Mark(j) : j \in {i \in Prints : i < panic + 1}}
    BY <1>1, <2>9
  <2>11. \A i \in Prints : i < panic + 1 <=> i < panic
    BY <1>1 DEF Prints
  <2>12. {i \in Prints : i < panic + 1} = {i \in Prints : i < panic}
    BY <2>11
  <2> QED
    BY <1>1, <1>5, <2>2, <2>6, <2>8, <2>10, <2>12
<1>8. \E m \in Messages : cause' = T(m)
  BY <1>1 DEF PanicInv
<1> QED
  BY <1>1, <1>6, <1>7, <1>8 DEF PanicInv

LEMMA PanicNext == ShowInv /\ PanicInv /\ [Next]_vars => PanicInv'
<1> SUFFICES ASSUME ShowInv, PanicInv, [Next]_vars PROVE PanicInv'
  OBVIOUS
<1>1. ASSUME panic = 0, UNCHANGED panic PROVE PanicInv'
  BY <1>1 DEF PanicInv
<1>2. CASE KeGraphicsSetup \/ Amd64SetupIDT
  <2>1. panic = 0 /\ UNCHANGED panic
    BY <1>2 DEF KeGraphicsSetup, Amd64SetupIDT, Running
  <2> QED
    BY <1>1, <2>1
<1>3. CASE Advance
  <2>1. CASE UNCHANGED panic
    BY <1>1, <1>3, <2>1 DEF Advance
  <2>2. ASSUME NEW m \in Messages, KePanic(T(m)) PROVE PanicInv'
    <3>1. PICK message : message = T(m)
      OBVIOUS
    <3>2. KePanic(message) /\ pc # "start"
      BY <1>3, <2>2, <3>1 DEF Advance
    <3> QED
      BY <3>1, <3>2, PanicStarts
  <2> QED
    BY <1>3, <2>1, <2>2 DEF Advance
<1>4. CASE Called
  <2>1. CASE UNCHANGED panic
    BY <1>1, <1>4, <2>1 DEF Called
  <2>2. CASE KePanic(T("PageFault"))
    <3>1. PICK message : message = T("PageFault")
      OBVIOUS
    <3>2. \E m \in Messages : message = T(m)
      <4>1. "PageFault" \in Messages
        BY DEF Messages
      <4> QED
        BY <3>1, <4>1
    <3>3. KePanic(message)
      BY <2>2, <3>1
    <3>4. pc # "start"
      <4>1. panic = 0 /\ panic' # 0
        BY <1>4, <2>2, ScriptLength DEF Called, KePanic, Lost
      <4>2. pc \in {"acpi", "load", "init", "gpe"} \/ call.at # "none"
        BY <1>4, <4>1 DEF Called
      <4> QED
        BY <4>2 DEF ShowInv
    <3> QED
      BY <3>2, <3>3, <3>4, PanicStarts
  <2> QED
    BY <1>4, <2>1, <2>2 DEF Called
<1>5. CASE PanicStep
  <2>1. panic \in Prints \/ panic \in Downs
    BY <1>5, ScriptLength DEF PanicStep, Prints
  <2> QED
    BY <1>5, <2>1, PanicPrints, PanicMoves
<1>6. ASSUME NEW v \in Vectors, Exception(v) PROVE PanicInv'
  <2>1. PICK message : message = T(Gate(v))
    OBVIOUS
  <2>2. \E m \in Messages : message = T(m)
    BY <2>1, GateMessage, VectorsAssumption
  <2>3. KePanic(message) /\ pc # "start"
    BY <1>6, <2>1 DEF Exception
  <2> QED
    BY <2>2, <2>3, PanicStarts
<1>7. CASE Loops \/ UNCHANGED vars
  <2>1. UNCHANGED <<panic, cause, serial, scr>>
    BY <1>7 DEF Loops, vars, callVars
  <2> QED
    BY <2>1 DEF PanicInv, Words, Mark, Say, Room
<1>8. CASE DrawFaults
  <2>1. PICK message : message = T("PageFault")
    OBVIOUS
  <2>2. "PageFault" \in Messages
    BY DEF Messages
  <2>3. KePanic(message) /\ pc # "start"
    BY <1>8, <2>1 DEF DrawFaults
  <2> QED
    BY <2>1, <2>2, <2>3, PanicStarts
<1> QED
  BY <1>2, <1>3, <1>4, <1>5, <1>6, <1>7, <1>8, StartAdvances, GlueCalls DEF Next

-----------------------------------------------------------------------------
(* What is left of a panic in the end *)

\* As many different things as places.
LEMMA Ranked ==
    ASSUME NEW n \in Nat, NEW f, \A i, j \in 1 .. n : i < j => f[i] # f[j]
    PROVE  \A k \in 0 .. n : Cardinality({f[i] : i \in 1 .. k}) = k
<1> SUFFICES ASSUME NEW k \in 0 .. n PROVE Cardinality({f[i] : i \in 1 .. k}) = k
  OBVIOUS
<1> DEFINE S == {f[i] : i \in 1 .. k}
           g == [i \in 1 .. k |-> f[i]]
<1>1. g \in Bijection(1 .. k, S)
  <2>1. g \in [1 .. k -> S]
    OBVIOUS
  <2>2. \A i, j \in 1 .. k : g[i] = g[j] => i = j
    <3> SUFFICES ASSUME NEW i \in 1 .. k, NEW j \in 1 .. k, g[i] = g[j] PROVE i = j
      OBVIOUS
    <3>1. f[i] = f[j] /\ i \in 1 .. n /\ j \in 1 .. n
      OBVIOUS
    <3>2. ~(i < j) /\ ~(j < i)
      BY <3>1
    <3> QED
      BY <3>1, <3>2
  <2>3. \A e \in S : \E i \in 1 .. k : g[i] = e
    OBVIOUS
  <2> HIDE DEF S, g
  <2> QED
    BY <2>1, <2>2, <2>3 DEF Bijection, Injection, Surjection, IsInjective
<1>2. ExistsBijection(1 .. k, S)
  <2> HIDE DEF S, g
  <2> QED
    BY <1>1 DEF ExistsBijection
<1>3. Cardinality(S) = k
  <2> HIDE DEF S
  <2> QED
    BY <1>2, FS_CountingElements
<1> QED
  BY <1>3

IsText(what) == what \notin {T("[ ] "), T("      ")}

\* Which of what is said are texts, and the steps that say them.
Place(k) == IF k = 6 THEN 10 ELSE 2 * k - 1
TextStep(k) == IF k <= 2 THEN 2 * k - 1 ELSE IF k = 6 THEN 13 ELSE 3 * k - 3

LEMMA Places ==
    /\ \A k \in 1 .. 6 : Place(k) \in 1 .. 10 /\ Order(Place(k)) = TextStep(k)
    /\ \A k \in 1 .. 6 : TextStep(k) \in Prints
    /\ \A j, k \in 1 .. 6 : j < k => Place(j) < Place(k)
    /\ \A j, k \in 1 .. 6 : j < k => Row(TextStep(j)) < Row(TextStep(k))
    /\ \A i \in 1 .. 10 : Order(i) \in {2, 5, 8, 11} \/ \E k \in 1 .. 6 : i = Place(k)
    /\ \A i \in Prints : i \in {2, 5, 8, 11} \/ \E k \in 1 .. 6 : i = TextStep(k)
<1>1. \A k \in 1 .. 6 : Place(k) \in 1 .. 10 /\ Order(Place(k)) = TextStep(k)
  BY DEF Place, Order, TextStep
<1>2. \A k \in 1 .. 6 : TextStep(k) \in Prints
  BY DEF TextStep, Prints, Downs
<1>3. \A j, k \in 1 .. 6 : j < k => Place(j) < Place(k)
  BY DEF Place
<1>4. ASSUME NEW j \in 1 .. 6, NEW k \in 1 .. 6, j < k
      PROVE  Row(TextStep(j)) < Row(TextStep(k))
  <2>1. \A i \in 1 .. 6 : Row(TextStep(i)) = IF i = 1 THEN 10 ELSE IF i = 2 THEN 22
          ELSE IF i = 3 THEN 58 ELSE IF i = 4 THEN 94 ELSE IF i = 5 THEN 130 ELSE 142
    BY DEF Row, TextStep
  <2> QED
    BY <1>4, <2>1
<1>5. ASSUME NEW i \in 1 .. 10, Order(i) \notin {2, 5, 8, 11} PROVE \E k \in 1 .. 6 : i = Place(k)
  <2>1. i = 1 \/ i = 3 \/ i = 5 \/ i = 7 \/ i = 9 \/ i = 10
    BY <1>5 DEF Order
  <2>2. /\ Place(1) = 1 /\ Place(2) = 3 /\ Place(3) = 5 /\ Place(4) = 7 /\ Place(5) = 9
        /\ Place(6) = 10
    BY DEF Place
  <2> QED
    BY <2>1, <2>2
<1>6. ASSUME NEW i \in Prints, i \notin {2, 5, 8, 11} PROVE \E k \in 1 .. 6 : i = TextStep(k)
  <2>1. i = 1 \/ i = 3 \/ i = 6 \/ i = 9 \/ i = 12 \/ i = 13
    BY <1>6 DEF Prints, Downs
  <2>2. /\ TextStep(1) = 1 /\ TextStep(2) = 3 /\ TextStep(3) = 6 /\ TextStep(4) = 9
        /\ TextStep(5) = 12 /\ TextStep(6) = 13
    BY DEF TextStep
  <2> QED
    BY <2>1, <2>2
<1> QED
  BY <1>1, <1>2, <1>3, <1>4, <1>5, <1>6

\* The texts of a panic, in order.
Texts == <<T("PANIC"), T("has panicked"), T("INFO"), cause, T("Please report"), T("PANIC")>>

LEMMA TextsSaid ==
    ASSUME NEW m \in Messages, cause = T(m)
    PROVE  /\ Len(Texts) = 6
           /\ \A k \in 1 .. 6 : Texts[k] = Say(TextStep(k)) /\ IsText(Say(TextStep(k)))
           /\ \A i \in {2, 5, 8, 11} : ~IsText(Say(i))
<1>1. Len(Texts) = 6
  BY DEF Texts
<1>2. /\ Texts[1] = T("PANIC") /\ Texts[2] = T("has panicked") /\ Texts[3] = T("INFO")
      /\ Texts[4] = cause /\ Texts[5] = T("Please report") /\ Texts[6] = T("PANIC")
  BY DEF Texts
<1>3. /\ TextStep(1) = 1 /\ TextStep(2) = 3 /\ TextStep(3) = 6 /\ TextStep(4) = 9
      /\ TextStep(5) = 12 /\ TextStep(6) = 13
  BY DEF TextStep
<1>4. /\ Say(1) = T("PANIC") /\ Say(13) = T("PANIC")
      /\ Say(2) = T("[ ] ") /\ Say(5) = T("[ ] ") /\ Say(11) = T("[ ] ")
      /\ Say(3) = T("has panicked") /\ Say(6) = T("INFO") /\ Say(12) = T("Please report")
      /\ Say(8) = T("      ") /\ Say(9) = cause
  BY Sayings
<1>5. \A a, b : T(a) = T(b) => a = b
  BY DEF T
<1>6. /\ IsText(T("PANIC")) /\ IsText(T("has panicked")) /\ IsText(T("INFO"))
      /\ IsText(T("Please report"))
  BY <1>5 DEF IsText
<1>7. IsText(cause)
  BY MessageIsText DEF IsText
<1>8. ASSUME NEW k \in 1 .. 6 PROVE Texts[k] = Say(TextStep(k)) /\ IsText(Say(TextStep(k)))
  <2>1. k = 1 \/ k = 2 \/ k = 3 \/ k = 4 \/ k = 5 \/ k = 6
    OBVIOUS
  <2> QED
    BY <1>2, <1>3, <1>4, <1>6, <1>7, <2>1
<1>9. \A i \in {2, 5, 8, 11} : ~IsText(Say(i))
  BY <1>4 DEF IsText
<1> QED
  BY <1>1, <1>8, <1>9

\* The serial line in the end.
LEMMA SerialComplete ==
    ASSUME PanicInv, panic = 14,
           NEW heard, heard = {i \in DOMAIN serial : IsText(serial[i])}
    PROVE  /\ Cardinality(heard) = 6
           /\ \A i \in heard : serial[i] = Texts[Cardinality({j \in heard : j <= i})]
<1>1. PICK m \in Messages : cause = T(m)
  BY DEF PanicInv
<1>2. /\ serial \in Seq(Words) /\ Len(serial) = 10
      /\ \A k \in 1 .. 10 : serial[k] = Say(Order(k))
  <2>1. Count(14) = 10
    BY DEF Count
  <2> QED
    BY <2>1 DEF PanicInv
<1>3. DOMAIN serial = 1 .. 10
  BY <1>2
<1>4. PICK f : f = [k \in 1 .. 6 |-> Place(k)]
  OBVIOUS
<1>5. \A k \in 1 .. 6 : f[k] = Place(k)
  BY <1>4
<1>6. heard = {f[k] : k \in 1 .. 6}
  <2>1. ASSUME NEW i \in heard PROVE \E k \in 1 .. 6 : i = f[k]
    <3>1. i \in 1 .. 10 /\ IsText(Say(Order(i)))
      BY <1>2, <1>3, <2>1
    <3>2. Order(i) \notin {2, 5, 8, 11}
      BY <1>1, <3>1, TextsSaid
    <3> QED
      BY <1>5, <3>1, <3>2, Places
  <2>2. ASSUME NEW k \in 1 .. 6 PROVE f[k] \in heard
    <3>1. Place(k) \in 1 .. 10 /\ Order(Place(k)) = TextStep(k)
      BY Places
    <3>2. serial[Place(k)] = Say(TextStep(k))
      BY <1>2, <3>1
    <3>3. IsText(serial[Place(k)])
      BY <1>1, <3>2, TextsSaid
    <3> QED
      BY <1>3, <1>5, <3>1, <3>3
  <2> QED
    BY <2>1, <2>2
<1>7. \A k \in 0 .. 6 : Cardinality({f[i] : i \in 1 .. k}) = k
  <2>1. PICK n \in Nat : n = 6
    OBVIOUS
  <2>2. \A i, j \in 1 .. n : i < j => f[i] # f[j]
    BY <1>5, <2>1, Places
  <2>3. \A k \in 0 .. n : Cardinality({f[i] : i \in 1 .. k}) = k
    BY ONLY <2>2, n \in Nat, Ranked
  <2> QED
    BY <2>1, <2>3
<1>8. ASSUME NEW i \in heard PROVE serial[i] = Texts[Cardinality({j \in heard : j <= i})]
  <2>1. PICK k \in 1 .. 6 : i = f[k]
    BY <1>6
  <2>2. \A q \in 1 .. 6 : f[q] <= f[k] <=> q <= k
    BY <1>5, Places
  <2>3. {j \in heard : j <= i} = {f[q] : q \in 1 .. k}
    <3>1. \A q : q \in 1 .. k <=> q \in 1 .. 6 /\ q <= k
      OBVIOUS
    <3> QED
      BY <1>6, <2>1, <2>2, <3>1
  <2>4. Cardinality({j \in heard : j <= i}) = k
    BY <1>7, <2>3
  <2>5. serial[i] = Say(TextStep(k))
    BY <1>2, <1>5, <2>1, Places
  <2> QED
    BY <1>1, <2>4, <2>5, TextsSaid
<1>9. Cardinality(heard) = 6
  BY <1>6, <1>7
<1> QED
  BY <1>8, <1>9

LEMMA MarkIs ==
    ASSUME NEW j
    PROVE  /\ Mark(j).what = Say(j) /\ Mark(j).x = Column(j) /\ Mark(j).y = Row(j)
           /\ Mark(j).w = 8 * Length(Say(j)) /\ Mark(j).h = 12
<1>1. Length(Say(j)) \in Nat
  BY LengthNat
<1> QED
  BY <1>1 DEF Mark, Box

\* The screen in the end.
LEMMA ScreenComplete ==
    ASSUME PanicInv, panic = 14, Room, NEW lines, lines = {b \in scr.shown : IsText(b.what)}
    PROVE  /\ Cardinality(lines) = 6
           /\ \A b \in lines : b.what = Texts[Cardinality({a \in lines : a.y < b.y}) + 1]
<1>1. PICK m \in Messages : cause = T(m)
  BY DEF PanicInv
<1>2. scr.shown = {Mark(j) : j \in Prints}
  <2>1. {i \in Prints : i < 14} = Prints
    BY DEF Prints
  <2> QED
    BY <2>1 DEF PanicInv
<1>3. PICK f : f = [k \in 1 .. 6 |-> Mark(TextStep(k))]
  OBVIOUS
<1>4. \A k \in 1 .. 6 : f[k] = Mark(TextStep(k))
  BY <1>3
<1>5. \A k \in 1 .. 6 : f[k].y = Row(TextStep(k)) /\ f[k].what = Say(TextStep(k))
  BY <1>4, MarkIs
<1>6. \A k \in 1 .. 6 : Row(TextStep(k)) \in Nat
  <2>1. \A k \in 1 .. 6 : TextStep(k) \in 1 .. 13
    BY Places DEF Prints
  <2> QED
    BY <2>1, Layout
<1>7. lines = {f[k] : k \in 1 .. 6}
  <2>1. ASSUME NEW b \in lines PROVE \E k \in 1 .. 6 : b = f[k]
    <3>1. PICK j \in Prints : b = Mark(j)
      BY <1>2, <2>1
    <3>2. IsText(Say(j))
      BY <2>1, <3>1, MarkIs
    <3>3. j \notin {2, 5, 8, 11}
      BY <1>1, <3>2, TextsSaid
    <3>4. PICK k \in 1 .. 6 : j = TextStep(k)
      BY <3>3, Places
    <3> QED
      BY <1>4, <3>1, <3>4
  <2>2. ASSUME NEW k \in 1 .. 6 PROVE f[k] \in lines
    <3>1. f[k] \in scr.shown
      BY <1>2, <1>4, Places
    <3>2. IsText(f[k].what)
      BY <1>1, <1>5, TextsSaid
    <3> QED
      BY <3>1, <3>2
  <2> QED
    BY <2>1, <2>2
<1>8. \A j, k \in 1 .. 6 : f[j].y < f[k].y <=> j < k
  <2> SUFFICES ASSUME NEW j \in 1 .. 6, NEW k \in 1 .. 6 PROVE f[j].y < f[k].y <=> j < k
    OBVIOUS
  <2>1. /\ f[j].y = Row(TextStep(j)) /\ f[k].y = Row(TextStep(k))
        /\ Row(TextStep(j)) \in Nat /\ Row(TextStep(k)) \in Nat
    BY <1>5, <1>6
  <2>2. /\ j < k => Row(TextStep(j)) < Row(TextStep(k))
        /\ k < j => Row(TextStep(k)) < Row(TextStep(j))
    BY Places
  <2>3. j = k => Row(TextStep(j)) = Row(TextStep(k))
    OBVIOUS
  <2>4. j < k \/ j = k \/ k < j
    OBVIOUS
  <2> QED
    BY <2>1, <2>2, <2>3, <2>4
<1>9. \A k \in 0 .. 6 : Cardinality({f[i] : i \in 1 .. k}) = k
  <2>1. PICK n \in Nat : n = 6
    OBVIOUS
  <2>2. \A i, j \in 1 .. n : i < j => f[i] # f[j]
    <3> SUFFICES ASSUME NEW i \in 1 .. n, NEW j \in 1 .. n, i < j, f[i] = f[j] PROVE FALSE
      OBVIOUS
    <3>1. f[i].y < f[j].y /\ ~(f[j].y < f[i].y)
      BY <1>8, <2>1
    <3> QED
      BY <3>1
  <2>3. \A k \in 0 .. n : Cardinality({f[i] : i \in 1 .. k}) = k
    BY ONLY <2>2, n \in Nat, Ranked
  <2> QED
    BY <2>1, <2>3
<1>10. ASSUME NEW b \in lines
       PROVE  b.what = Texts[Cardinality({a \in lines : a.y < b.y}) + 1]
  <2>1. PICK k \in 1 .. 6 : b = f[k]
    BY <1>7
  <2>2. {a \in lines : a.y < b.y} = {f[q] : q \in 1 .. (k - 1)}
    <3>1. \A q : q \in 1 .. (k - 1) <=> q \in 1 .. 6 /\ q < k
      OBVIOUS
    <3> QED
      BY <1>7, <1>8, <2>1, <3>1
  <2>3. k - 1 \in 0 .. 6
    OBVIOUS
  <2>4. Cardinality({a \in lines : a.y < b.y}) = k - 1
    BY <1>9, <2>2, <2>3
  <2>5. Cardinality({a \in lines : a.y < b.y}) + 1 = k
    BY <2>3, <2>4
  <2> QED
    BY <1>1, <1>5, <2>1, <2>5, TextsSaid
<1>11. Cardinality(lines) = 6
  BY <1>7, <1>9
<1> QED
  BY <1>10, <1>11

\* Every mark is within a screen that is wide enough.
LEMMA MarksInside ==
    ASSUME PanicInv, panic \in 1 .. 14, Room, scr.width \in Nat, scr.height \in Nat,
           scr.width >= 10 + 8 * Max({45, 6 + MessageLength}), NEW b \in scr.shown
    PROVE  Inside(scr, b)
<1>1. PICK m \in Messages : cause = T(m)
  BY DEF PanicInv
<1>2. PICK j \in Prints : b = Mark(j)
  BY DEF PanicInv
<1>3. PICK most \in Nat : most = Max({45, 6 + MessageLength}) /\ most >= 45 /\ most >= 6 + MessageLength
  <2>1. MessageLength \in Nat
    BY LengthAssumption
  <2>2. PICK S : S = {45, 6 + MessageLength}
    OBVIOUS
  <2>3. S \subseteq Nat /\ S # {} /\ \A k \in S : k <= 51 + MessageLength
    BY <2>1, <2>2
  <2>4. PICK n \in Nat : n = 51 + MessageLength
    BY <2>1
  <2>5. Max(S) \in Nat /\ \A k \in S : k <= Max(S)
    BY <2>3, <2>4, MaxBounded
  <2> QED
    BY <2>1, <2>2, <2>5
<1>4. Column(j) + 8 * Length(Say(j)) <= 10 + 8 * most
  <2>1. /\ Say(1) = T("PANIC") /\ Say(13) = T("PANIC")
        /\ Say(2) = T("[ ] ") /\ Say(5) = T("[ ] ") /\ Say(11) = T("[ ] ")
        /\ Say(3) = T("has panicked") /\ Say(6) = T("INFO") /\ Say(12) = T("Please report")
        /\ Say(8) = T("      ") /\ Say(9) = cause
    BY <1>1, Sayings
  <2>2. Length(Say(9)) = MessageLength /\ MessageLength \in Nat
    BY <1>1, <2>1, MessageIsText, LengthAssumption
  <2>3. /\ Length(Say(1)) = 45 /\ Length(Say(13)) = 45 /\ Length(Say(2)) = 4
        /\ Length(Say(5)) = 4 /\ Length(Say(11)) = 4 /\ Length(Say(3)) = 23
        /\ Length(Say(6)) = 21 /\ Length(Say(12)) = 36 /\ Length(Say(8)) = 6
    BY <2>1, TextLengths
  <2>4. j = 9 \/ (j # 9 /\ Length(Say(j)) \in Nat /\ Length(Say(j)) <= 45
                  /\ (Column(j) = 10 \/ (Column(j) = 42 /\ Length(Say(j)) <= 36)))
    <3>1. \/ j = 1 \/ j = 2 \/ j = 3 \/ j = 5 \/ j = 6 \/ j = 8 \/ j = 9
          \/ j = 11 \/ j = 12 \/ j = 13
      BY DEF Prints, Downs
    <3>2. j # 9 => Length(Say(j)) \in Nat /\ Length(Say(j)) <= 45
      BY <2>3, <3>1
    <3>3. j \in {3, 6, 12} => Length(Say(j)) <= 36
      BY <2>3
    <3>4. j # 9 => Column(j) = IF j \in {3, 6, 12} THEN 42 ELSE 10
      BY DEF Column
    <3> QED
      BY <3>2, <3>3, <3>4
  <2>5. CASE j = 9
    <3>1. Column(9) = 58
      BY DEF Column
    <3> QED
      BY <1>3, <2>2, <2>5, <3>1
  <2>6. CASE j # 9
    BY <1>3, <2>4, <2>6
  <2> QED
    BY <2>5, <2>6
<1>5. Row(j) + 12 <= 154
  BY DEF Row, Prints, Downs
<1>6. b.x = Column(j) /\ b.w = 8 * Length(Say(j)) /\ b.y = Row(j) /\ b.h = 12
  BY <1>2, MarkIs
<1>7. Column(j) \in Nat /\ Row(j) \in Nat /\ Length(Say(j)) \in Nat
  <2>1. j \in 1 .. 13
    BY DEF Prints
  <2> QED
    BY <2>1, Layout, LengthNat
<1> QED
  BY <1>3, <1>4, <1>5, <1>6, <1>7 DEF Inside, Room

\* When the kernel has stopped in a panic, its whole text has been written to the serial
\* line and, on every screen that has room for it, stands on it from the top, in order and
\* in the panic's colours, whichever step failed, whatever was on the screen and however
\* many panics were cut short by exceptions.
THEOREM PanicsAreComplete == Spec => []PanicComplete
<1>1. ShowInv /\ PanicInv => PanicComplete
  <2> SUFFICES ASSUME ShowInv, PanicInv, panic = Halted PROVE PanicComplete
    BY DEF PanicComplete
  <2>1. panic = 14
    BY ScriptLength
  <2>2. PICK heard : heard = {i \in DOMAIN serial : IsText(serial[i])}
    OBVIOUS
  <2>3. PICK lines : lines = {b \in scr.shown : IsText(b.what)}
    OBVIOUS
  <2>4. /\ Cardinality(heard) = 6
        /\ \A i \in heard : serial[i] = Texts[Cardinality({j \in heard : j <= i})]
    BY <2>1, <2>2, SerialComplete
  <2>5. Len(Texts) = 6
    BY DEF Texts
  <2>6. ASSUME scr.height >= 154, scr.width >= 10 + 8 * Max({45, 6 + MessageLength})
        PROVE  /\ Cardinality(lines) = 6
               /\ \A b \in lines : b.what = Texts[Cardinality({a \in lines : a.y < b.y}) + 1]
               /\ scr.back = "navy" /\ \A b \in scr.shown : Inside(scr, b)
    <3>1. Room
      BY <2>6 DEF Room
    <3>2. scr.back = "navy"
      BY <2>1, <3>1 DEF PanicInv
    <3>3. scr.width \in Nat /\ scr.height \in Nat
      BY DEF ShowInv, ScreenInv, Sized
    <3>4. \A b \in scr.shown : Inside(scr, b)
      BY <2>1, <2>6, <3>1, <3>3, MarksInside
    <3>5. /\ Cardinality(lines) = 6
          /\ \A b \in lines : b.what = Texts[Cardinality({a \in lines : a.y < b.y}) + 1]
      BY <2>1, <2>3, <3>1, ScreenComplete
    <3> QED
      BY <3>2, <3>4, <3>5
  <2> QED
    BY <2>2, <2>3, <2>4, <2>5, <2>6 DEF PanicComplete, Texts, IsText
<1>2. Init => PanicInv
  BY DEF Init, PanicInv
<1> QED
  BY <1>1, <1>2, ShowInit, ShowNext, PanicNext, PTL DEF Spec
=============================================================================
