---------------------------- MODULE InputsProofs ----------------------------
(***************************************************************************)
(* Theorems about what the program reads: about Startup, for every set of  *)
(* argument lists and of widths, any number of invocations and any changes *)
(* of the files between them; about FrameStats, for any timestamps and any *)
(* window; about IndexText, for numbers of any length and any limits, and  *)
(* for texts of any lines; about ConfigText, for any lines that can be     *)
(* written; and about H264Inspector, for any units that an encoder can     *)
(* write.                                                                  *)
(***************************************************************************)
EXTENDS MCInputs, TLAPS, WellFoundedInduction

-----------------------------------------------------------------------------
(* Startup                                                                 *)

Mode == {"raw", "mpegts", "storage", "usage"}

Content == [text  : {"absent", "partial", "invalid", "written", "generated"},
            width : Width]

\* What main makes of any argument list.
OptionsSound(o) ==
  /\ o.config \in {"camera.yml", "RpiCamTs.yml"}
  /\ o.explicitConfig \in BOOLEAN
  /\ o.explicitOutput \in BOOLEAN
  /\ o.generate \in BOOLEAN
  /\ o.mode \in Mode
  /\ o.mode # "storage" /\ ~o.explicitOutput => o.output = "video.264"

Typed ==
  /\ OptionsSound(options)
  /\ config \in [Place -> Content]
  /\ cwd \in Directory
  /\ home \in Directory

Entering == {"resolving", "entering", "loading"}
After    == {"searching", "opening", "camera"}

\* What a run that is at a given place knows.
Known ==
  /\ phase \in {"off", "generating", "writing"} \cup Entering \cup After
  /\ phase # "off" => options # UsageError /\ options.mode # "usage"
  /\ phase \in {"generating", "writing"} => options.generate
  /\ phase \in Entering \cup After => ~options.generate
  /\ phase \in After =>
       /\ used # Unused
       /\ options.explicitConfig => used.from = "launch"
  /\ phase \in {"opening", "camera"} => backendPath = "found"
  /\ phase \notin {"off", "camera"} => overwritten = {}
  /\ phase = "writing" /\ own => config[Target] = Partial

Inv == Typed /\ Known /\ OutputsKept

-----------------------------------------------------------------------------
\* What a configuration file may hold has its type.
LEMMA Contents ==
  /\ Absent \in Content
  /\ Partial \in Content
  /\ Generated \in Content
  /\ Edited \subseteq Content
  /\ Partial # Absent
<1>1. /\ {"unset", "positive"} \subseteq Width
      /\ Widths \subseteq Width
  BY StartupAssumption DEF Width
<1>2. /\ Absent \in Content
      /\ Partial \in Content
      /\ Invalid \in Content
      /\ Generated \in Content
      /\ Partial # Absent
  BY <1>1 DEF Absent, Partial, Invalid, Generated, Content
<1>3. [text : {"written"}, width : Widths] \subseteq Content
  BY <1>1 DEF Content
<1> QED
  BY <1>2, <1>3 DEF Edited

\* An accepted argument list gives options of the type run() expects; whatever
\* is not accepted is a usage error.
LEMMA OptionsOfSound ==
  ASSUME NEW arguments
  PROVE  LET o == OptionsOf(arguments)
         IN /\ OptionsSound(o)
            /\ o # UsageError => o.mode # "usage"
<1> DEFINE a == SelectSeq(arguments, LAMBDA x : x # "--verbose")
           o == OptionsOf(arguments)
           Good(p) == OptionsSound(p) /\ p.mode # "usage"
<1>1. OptionsSound(UsageError)
  BY DEF OptionsSound, UsageError, DefaultOptions, Mode
<1>2. Good(DefaultOptions)
  BY DEF OptionsSound, DefaultOptions, Mode
<1>3. ASSUME NEW c, IsConfigPath(c)
      PROVE  /\ Good(WithConfig(DefaultOptions, c))
             /\ Good([DefaultOptions EXCEPT !.generate = TRUE, !.config = c])
             /\ \A w : Good(WithStorage(WithConfig(DefaultOptions, c), w))
  BY <1>3 DEF OptionsSound, DefaultOptions, Mode, WithConfig, WithStorage,
              IsConfigPath
<1>4. ASSUME NEW w, IsOutputPath(w)
      PROVE  Good(WithOutput(DefaultOptions, w))
  BY <1>4 DEF OptionsSound, DefaultOptions, Mode, WithOutput, IsOutputPath
<1>5. ASSUME NEW c, NEW w, IsConfigPath(c), IsOutputPath(w)
      PROVE  Good(WithConfig(WithOutput(DefaultOptions, w), c))
  BY <1>5 DEF OptionsSound, DefaultOptions, Mode, WithConfig, WithOutput,
              IsConfigPath, IsOutputPath
<1>6. \A w : Good(WithStorage(DefaultOptions, w))
  BY DEF OptionsSound, DefaultOptions, Mode, WithStorage
<1>7. Good(o) \/ o = UsageError
  <2> HIDE DEF Good, a
  <2>1. o = CASE Len(a) = 0 -> DefaultOptions
       [] Len(a) = 1 /\ IsConfigPath(a[1]) -> WithConfig(DefaultOptions, a[1])
       [] Len(a) = 1 /\ IsOutputPath(a[1]) -> WithOutput(DefaultOptions, a[1])
       [] /\ Len(a) = 2
          /\ a[1] = "--generate-default-config" /\ IsConfigPath(a[2]) ->
            [DefaultOptions EXCEPT !.generate = TRUE, !.config = a[2]]
       [] Len(a) = 2 /\ IsConfigPath(a[1]) /\ IsOutputPath(a[2]) ->
            WithConfig(WithOutput(DefaultOptions, a[2]), a[1])
       [] Len(a) = 2 /\ a[1] = "--storage" /\ a[2] # "" ->
            WithStorage(DefaultOptions, a[2])
       [] /\ Len(a) = 3
          /\ IsConfigPath(a[1]) /\ a[2] = "--storage" /\ a[3] # "" ->
            WithStorage(WithConfig(DefaultOptions, a[1]), a[3])
       [] OTHER -> UsageError
    BY DEF OptionsOf, a
  <2> HIDE DEF o
  <2> QED
    BY <2>1, <1>2, <1>3, <1>4, <1>5, <1>6, Zenon
<1> QED
  BY <1>1, <1>7

LEMMA TargetIsPlace ==
  ASSUME Typed
  PROVE  Target \in Place
  BY DEF Typed, OptionsSound, Target, Place, Directory

-----------------------------------------------------------------------------
LEMMA InitInv == Init => Inv
<1> SUFFICES ASSUME Init
             PROVE  Inv
  OBVIOUS
<1>1. Typed
  BY Contents DEF Init, Typed, OptionsSound, DefaultOptions, Mode, Directory
<1>2. Known /\ OutputsKept
  BY DEF Init, Known, OutputsKept, Entering, After
<1> QED
  BY <1>1, <1>2 DEF Inv

LEMMA InvokePreserves ==
  ASSUME Inv, Invoke
  PROVE  Inv'
<1>1. PICK arguments \in Arguments :
        /\ options' = OptionsOf(arguments)
        /\ IF OptionsOf(arguments) = UsageError THEN Exit("error")
           ELSE /\ phase' = IF OptionsOf(arguments).generate
                              THEN "generating" ELSE "resolving"
                /\ code' = "none"
  BY DEF Invoke
<1>2. /\ OptionsSound(options')
      /\ options' # UsageError => options'.mode # "usage"
  BY <1>1, OptionsOfSound
<1>3. Typed'
  BY <1>2 DEF Inv, Typed, Invoke, OptionsSound, Directory
<1>4. Known'
  BY <1>1, <1>2 DEF Known, Invoke, Exit, Entering, After, OptionsSound
<1>5. OutputsKept'
  BY DEF Invoke, OutputsKept
<1> QED
  BY <1>3, <1>4, <1>5 DEF Inv

LEMMA GeneratePreserves ==
  ASSUME Inv,
         CreateConfig \/ CreateConfigFails \/ FinishConfig \/ WriteConfigFails
  PROVE  Inv'
<1> USE DEF CreateConfig, CreateConfigFails, FinishConfig, WriteConfigFails,
            Exit
<1>1. Target \in Place
  BY TargetIsPlace DEF Inv
<1>2. Typed'
  BY <1>1, Contents DEF Inv, Typed, OptionsSound
<1>3. Known'
  BY <1>1 DEF Inv, Typed, Known, Entering, After, Target
<1>4. OutputsKept'
  BY DEF Inv, OutputsKept, CameraWidth
<1> QED
  BY <1>2, <1>3, <1>4 DEF Inv

LEMMA RunPreserves ==
  ASSUME Inv,
         \/ ResolvePaths \/ ResolveFails \/ ChangeDirectory
         \/ LoadConfig \/ LoadFails \/ UseDefaults
         \/ FindBackend \/ BackendMissing
  PROVE  Inv'
<1> USE DEF ResolvePaths, ResolveFails, ChangeDirectory, LoadConfig, LoadFails,
            UseDefaults, FindBackend, BackendMissing, Exit
<1>1. Typed'
  BY DEF Inv, Typed, OptionsSound
<1>2. Known'
  BY DEF Inv, Typed, Known, OptionsSound, Entering, After, Unused, Defaults,
         Loaded, ConfigPlace, Directory
<1>3. OutputsKept'
  BY DEF Inv, Known, OutputsKept, CameraWidth, Entering, After
<1> QED
  BY <1>1, <1>2, <1>3 DEF Inv

LEMMA OpenPreserves ==
  ASSUME Inv, OpenOutput \/ OpenOutputFails
  PROVE  Inv'
<1> USE DEF OpenOutput, OpenOutputFails, Exit
<1>1. Typed'
  BY DEF Inv, Typed, OptionsSound
<1>2. Known'
  BY DEF Inv, Known, Entering, After
<1>3. OutputPlace =
        [dir |-> IF options.explicitOutput THEN "launch" ELSE cwd,
         name |-> options.output]
  BY DEF OutputPlace
<1>4. /\ overwritten' \subseteq {OutputPlace}
      /\ overwritten' # {} =>
           \/ options.mode = "raw"
           \/ options.mode = "mpegts" /\ CameraWidth = "positive"
  BY DEF Inv, Typed, OptionsSound, Mode, Known, After
<1>5. OutputsKept'
  BY <1>3, <1>4 DEF Inv, Typed, OptionsSound, Known, OutputsKept, CameraWidth,
                    After
<1> QED
  BY <1>1, <1>2, <1>5 DEF Inv

LEMMA EndPreserves ==
  ASSUME Inv, Finish \/ Kill
  PROVE  Inv'
<1>1. Typed'
  BY DEF Finish, Kill, Inv, Typed, OptionsSound
<1>2. Known'
  BY DEF Finish, Kill, Exit, Inv, Known, Entering, After
<1>3. OutputsKept'
  BY DEF Finish, Kill, Inv, OutputsKept, CameraWidth
<1> QED
  BY <1>1, <1>2, <1>3 DEF Inv

\* An edit puts another file at the name: of the one that is being generated,
\* the name does not lead to it any more.
LEMMA EditPreserves ==
  ASSUME Inv, EditConfig
  PROVE  Inv'
<1>1. PICK p \in Place, content \in Edited :
        /\ config' = [config EXCEPT ![p] = content]
        /\ own' = (own /\ p # Target)
  BY DEF EditConfig
<1>2. Target \in Place
  BY TargetIsPlace DEF Inv
<1>3. Typed'
  BY <1>1, Contents DEF EditConfig, Inv, Typed, OptionsSound
<1>4. Known'
  BY <1>1, <1>2 DEF EditConfig, Inv, Typed, Known, Entering, After, Target
<1>5. OutputsKept'
  BY DEF EditConfig, Inv, OutputsKept, CameraWidth
<1> QED
  BY <1>3, <1>4, <1>5 DEF Inv

LEMMA StepPreserves ==
  ASSUME Inv, [Next]_vars
  PROVE  Inv'
<1>1. CASE UNCHANGED vars
  BY <1>1 DEF vars, Inv, Typed, OptionsSound, Known, OutputsKept, CameraWidth,
              Target
<1> QED
  BY <1>1, InvokePreserves, GeneratePreserves, RunPreserves, OpenPreserves,
     EndPreserves, EditPreserves DEF Next

THEOREM StartupInvariance == Spec => []Inv
<1>1. Inv /\ [Next]_vars => Inv'
  BY StepPreserves
<1> QED
  BY InitInv, <1>1, PTL DEF Spec

-----------------------------------------------------------------------------
\* A run that was told which configuration to use has loaded that file from
\* the directory it was launched in (read_configuration, ConfigPlace), for any
\* arguments and any changes of the files while it starts.
THEOREM NamedConfigUsed == Spec => []ExplicitConfigUsed
<1>1. Inv => ExplicitConfigUsed
  BY DEF Inv, Known, After, ExplicitConfigUsed
<1> QED
  BY StartupInvariance, <1>1, PTL

\* Only the output that was asked for is ever truncated, and only by a run
\* that has loaded its configuration (the one that was named, if one was), has
\* found its backend and, for MPEG-TS, has a usable picture size.
THEOREM OutputsAreKept == Spec => []OutputsKept
<1>1. Inv => OutputsKept
  BY DEF Inv
<1> QED
  BY StartupInvariance, <1>1, PTL

\* The program creates a configuration file only where there is none, gives
\* content only to the file it has created, and removes what bears the name
\* only after a failed write (write_default_config_file), whatever others
\* create, replace or remove meanwhile.
THEOREM ConfigsAreKept == Spec => ConfigsKept
<1> DEFINE Step ==
      phase' # phase =>
        \A p \in Place :
          config'[p] # config[p] =>
            /\ options.generate /\ p = Target
            /\ \/ phase = "generating" /\ config[p] = Absent
               \/ phase = "writing" /\ own /\ config[p] = Partial
               \/ /\ phase = "writing" /\ code' = "error"
                  /\ config'[p] = Absent
<1>1. ASSUME Inv, [Next]_vars
      PROVE  [Step]_vars
  <2>1. Target \in Place /\ config \in [Place -> Content]
    BY <1>1, TargetIsPlace DEF Inv, Typed
  <2>2. CASE CreateConfig \/ FinishConfig \/ WriteConfigFails
    BY <1>1, <2>1, <2>2
       DEF CreateConfig, FinishConfig, WriteConfigFails, Exit, Inv, Known
  <2>3. CASE EditConfig
    BY <2>3 DEF EditConfig
  <2>4. CASE config' = config
    BY <2>4
  <2>5. CASE Next /\ ~EditConfig /\ ~CreateConfig /\ ~FinishConfig
             /\ ~WriteConfigFails
    <3>1. config' = config
      BY <2>5 DEF Next, Invoke, CreateConfigFails, ResolvePaths, ResolveFails,
                  ChangeDirectory, LoadConfig, LoadFails, UseDefaults,
                  FindBackend, BackendMissing, OpenOutput, OpenOutputFails,
                  Finish, Kill
    <3> QED
      BY <3>1, <2>4
  <2> QED
    BY <1>1, <2>2, <2>3, <2>5 DEF vars
<1> QED
  BY StartupInvariance, <1>1, PTL DEF Spec, ConfigsKept

-----------------------------------------------------------------------------
(* Loops.  They are functions on the numbers of their steps: what follows  *)
(* gives them their values, by an induction that needs no predicate.       *)

\* A set of numbers has a least one.
LEMMA LeastNumber ==
  ASSUME NEW T, T \subseteq Nat, T # {}
  PROVE  \E x \in T : \A y \in T : x <= y
<1> DEFINE R == OpToRel(<, Nat)
<1>1. PICK x \in T : \A y \in T : ~ (<<y, x>> \in R)
  <2> HIDE DEF R
  <2> QED
    BY WFMin, NatLessThanWellFounded DEF R
<1>2. \A y \in T : ~ (y < x)
  BY <1>1 DEF OpToRel
<1> QED
  BY <1>2

\* Induction, for a set in the place of a predicate.
LEMMA SetInduction ==
  ASSUME NEW S, 0 \in S, \A n \in Nat : n \in S => n + 1 \in S
  PROVE  \A n \in Nat : n \in S
<1>1. SUFFICES ASSUME NEW m \in Nat, m \notin S
               PROVE  FALSE
  OBVIOUS
<1> DEFINE T == {n \in Nat : n \notin S}
<1>2. PICK x \in T : \A y \in T : x <= y
  <2>1. T # {} /\ T \subseteq Nat
    BY <1>1
  <2> HIDE DEF T
  <2> QED
    BY <2>1, LeastNumber
<1>3. x # 0 /\ x \in Nat /\ x \notin S
  OBVIOUS
<1>4. x - 1 \in Nat
  BY <1>3
<1>5. x - 1 \in S
  BY <1>2, <1>4
<1> QED
  BY <1>3, <1>4, <1>5

\* f has what n steps make of a first value.
IsIteration(f, base, step, n) ==
  /\ f[0] = base
  /\ \A k \in 1 .. n : f[k] = step[k][f[k - 1]]

\* A loop has a value after every step.
LEMMA Iteration ==
  ASSUME NEW n \in Nat, NEW V, NEW base \in V, NEW step \in [1 .. n -> [V -> V]]
  PROVE  \E f \in [0 .. n -> V] : IsIteration(f, base, step, n)
<1> DEFINE S == {m \in Nat : m <= n =>
                   \E f \in [0 .. m -> V] : IsIteration(f, base, step, m)}
<1>1. 0 \in S
  <2>1. [k \in 0 .. 0 |-> base] \in [0 .. 0 -> V]
    OBVIOUS
  <2>2. IsIteration([k \in 0 .. 0 |-> base], base, step, 0)
    BY DEF IsIteration
  <2> QED
    BY <2>1, <2>2
<1>2. ASSUME NEW m \in Nat, m \in S
      PROVE  m + 1 \in S
  <2>1. SUFFICES ASSUME m + 1 <= n
                 PROVE  \E f \in [0 .. m + 1 -> V] :
                          IsIteration(f, base, step, m + 1)
    OBVIOUS
  <2>2. PICK g \in [0 .. m -> V] : IsIteration(g, base, step, m)
    BY <1>2, <2>1
  <2> DEFINE h == [k \in 0 .. m + 1 |->
                     IF k = m + 1 THEN step[m + 1][g[m]] ELSE g[k]]
  <2>3. step[m + 1][g[m]] \in V
    <3>1. m + 1 \in 1 .. n /\ m \in 0 .. m
      BY <2>1
    <3> QED
      BY <3>1
  <2>4. h \in [0 .. m + 1 -> V]
    BY <2>3
  <2>5. /\ \A k \in 0 .. m : h[k] = g[k]
        /\ h[m + 1] = step[m + 1][g[m]]
    OBVIOUS
  <2> HIDE DEF h
  <2>6. h[0] = base
    BY <2>2, <2>5 DEF IsIteration
  <2>7. ASSUME NEW k \in 1 .. m + 1
        PROVE  h[k] = step[k][h[k - 1]]
    <3>1. CASE k = m + 1
      BY <3>1, <2>5
    <3>2. CASE k # m + 1
      <4>1. k \in 1 .. m /\ k \in 0 .. m /\ k - 1 \in 0 .. m
        BY <3>2
      <4> QED
        BY <4>1, <2>2, <2>5 DEF IsIteration
    <3> QED
      BY <3>1, <3>2
  <2> QED
    BY <2>4, <2>6, <2>7 DEF IsIteration
<1>3. n \in S
  <2> HIDE DEF S
  <2> QED
    BY <1>1, <1>2, SetInduction
<1> QED
  BY <1>3

\* What two loops have after a step depends on the first value only.
LEMMA IterationIsUnique ==
  ASSUME NEW n \in Nat, NEW base, NEW step, NEW f, NEW g,
         IsIteration(f, base, step, n), IsIteration(g, base, step, n)
  PROVE  \A k \in 0 .. n : f[k] = g[k]
<1> DEFINE S == {m \in Nat : m <= n => f[m] = g[m]}
<1>1. 0 \in S
  BY DEF IsIteration
<1>2. ASSUME NEW m \in Nat, m \in S
      PROVE  m + 1 \in S
  <2>1. SUFFICES ASSUME m + 1 <= n
                 PROVE  f[m + 1] = g[m + 1]
    OBVIOUS
  <2>2. m + 1 \in 1 .. n /\ (m + 1) - 1 = m /\ f[m] = g[m]
    BY <1>2, <2>1
  <2>3. /\ f[m + 1] = step[m + 1][f[(m + 1) - 1]]
        /\ g[m + 1] = step[m + 1][g[(m + 1) - 1]]
    BY <2>2 DEF IsIteration
  <2> QED
    BY <2>2, <2>3
<1>3. \A m \in Nat : m \in S
  <2> HIDE DEF S
  <2> QED
    BY <1>1, <1>2, SetInduction
<1> QED
  BY <1>3

\* A type that a loop starts in and that no step leaves.
LEMMA IterationType ==
  ASSUME NEW n \in Nat, NEW V, NEW f, f = [k \in 0 .. n |-> f[k]],
         f[0] \in V,
         \A k \in 1 .. n : f[k - 1] \in V => f[k] \in V
  PROVE  f \in [0 .. n -> V]
<1> DEFINE S == {m \in Nat : m <= n => f[m] \in V}
<1>1. 0 \in S
  OBVIOUS
<1>2. ASSUME NEW m \in Nat, m \in S
      PROVE  m + 1 \in S
  <2>1. SUFFICES ASSUME m + 1 <= n
                 PROVE  f[m + 1] \in V
    OBVIOUS
  <2>2. m + 1 \in 1 .. n /\ (m + 1) - 1 = m /\ f[m] \in V
    BY <1>2, <2>1
  <2>3. f[(m + 1) - 1] \in V => f[m + 1] \in V
    BY <2>2
  <2> QED
    BY <2>2, <2>3
<1>3. \A m \in Nat : m \in S
  <2> HIDE DEF S
  <2> QED
    BY <1>1, <1>2, SetInduction
<1>4. \A k \in 0 .. n : f[k] \in V
  BY <1>3
<1> QED
  BY <1>4

\* f has what any number of steps make of a first value.
IsEndless(f, base, step) ==
  /\ f[0] = base
  /\ \A k \in Nat : f[k + 1] = step[f[k]]

\* A loop without an end has a value after every step.
LEMMA EndlessIteration ==
  ASSUME NEW V, NEW base \in V, NEW step \in [V -> V]
  PROVE  \E f \in [Nat -> V] : IsEndless(f, base, step)
<1> DEFINE Same(n) == [k \in 1 .. n |-> step]
           upto(n) == CHOOSE f \in [0 .. n -> V] :
                        IsIteration(f, base, Same(n), n)
           F == [n \in Nat |-> upto(n)[n]]
<1>1. ASSUME NEW n \in Nat
      PROVE  /\ upto(n) \in [0 .. n -> V]
             /\ upto(n)[0] = base
             /\ \A k \in 1 .. n : upto(n)[k] = step[upto(n)[k - 1]]
  <2>1. Same(n) \in [1 .. n -> [V -> V]]
    OBVIOUS
  <2> HIDE DEF Same
  <2>2. \E f \in [0 .. n -> V] : IsIteration(f, base, Same(n), n)
    BY <2>1, Iteration
  <2>3. upto(n) \in [0 .. n -> V] /\ IsIteration(upto(n), base, Same(n), n)
    BY <2>2
  <2> HIDE DEF upto
  <2> QED
    BY <2>3 DEF IsIteration, Same
<1> HIDE DEF upto
<1>2. ASSUME NEW n \in Nat
      PROVE  upto(n + 1)[n] = upto(n)[n]
  <2>1. IsIteration(upto(n), base, Same(n), n)
    BY <1>1 DEF IsIteration
  <2>2. IsIteration(upto(n + 1), base, Same(n), n)
    <3>1. n + 1 \in Nat /\ \A k \in 1 .. n : k \in 1 .. n + 1
      OBVIOUS
    <3> QED
      BY <3>1, <1>1 DEF IsIteration
  <2>3. n \in 0 .. n
    OBVIOUS
  <2> HIDE DEF Same
  <2> QED
    BY <2>1, <2>2, <2>3, IterationIsUnique
<1>3. F \in [Nat -> V] /\ F[0] = base
  <2>1. \A n \in Nat : n \in 0 .. n
    OBVIOUS
  <2> QED
    BY <2>1, <1>1
<1>4. ASSUME NEW k \in Nat
      PROVE  F[k + 1] = step[F[k]]
  <2>1. k + 1 \in Nat /\ k + 1 \in 1 .. k + 1 /\ (k + 1) - 1 = k
    OBVIOUS
  <2>2. upto(k + 1)[k + 1] = step[upto(k + 1)[(k + 1) - 1]]
    BY <2>1, <1>1
  <2>3. upto(k + 1)[k + 1] = step[upto(k)[k]]
    BY <2>1, <2>2, <1>2
  <2> QED
    BY <2>1, <2>3
<1> HIDE DEF F
<1> QED
  BY <1>3, <1>4 DEF IsEndless

-----------------------------------------------------------------------------
(* FrameStats                                                              *)

Sample == [timestamp : Nat, difference : Nat]

\* What the loop over the samples has after the first k of them.
Running(queue) ==
  CHOOSE after : after = [k \in 0 .. Len(queue) |->
    IF k = 0 THEN NoTotals ELSE Counted(after[k - 1], queue[k].difference)]

\* The loop has a value at every sample.
LEMMA RunningIsDefined ==
  ASSUME NEW queue \in Seq(Sample)
  PROVE  /\ Totals(queue) = Running(queue)[Len(queue)]
         /\ Running(queue)[0] = NoTotals
         /\ \A k \in 1 .. Len(queue) :
              Running(queue)[k] =
                Counted(Running(queue)[k - 1], queue[k].difference)
<1> DEFINE n == Len(queue)
           Total == [sum : Int, min : Int, max : Int]
           step == [k \in 1 .. n |->
                      [v \in Total |-> Counted(v, queue[k].difference)]]
           Loop(f) == f = [k \in 0 .. n |->
                             IF k = 0 THEN NoTotals
                             ELSE Counted(f[k - 1], queue[k].difference)]
<1>1. n \in Nat /\ \A k \in 1 .. n : queue[k].difference \in Nat
  <2>1. n \in Nat /\ \A k \in 1 .. n : queue[k] \in Sample
    OBVIOUS
  <2> QED
    BY <2>1 DEF Sample
<1> HIDE DEF n
<1>2. step \in [1 .. n -> [Total -> Total]] /\ NoTotals \in Total
  BY <1>1 DEF Counted, NoTotals
<1>3. PICK f \in [0 .. n -> Total] : IsIteration(f, NoTotals, step, n)
  <2> HIDE DEF step, Total
  <2> QED
    BY <1>1, <1>2, Iteration
<1>4. Loop(f)
  <2>1. f[0] = NoTotals /\ \A k \in 1 .. n : f[k] = step[k][f[k - 1]]
    BY <1>3 DEF IsIteration
  <2>2. \A k \in 1 .. n : k - 1 \in 0 .. n
    BY <1>1
  <2> HIDE DEF Total
  <2>3. \A k \in 1 .. n : f[k] = Counted(f[k - 1], queue[k].difference)
    BY <1>3, <2>1, <2>2
  <2>4. \A k \in 0 .. n : k = 0 \/ k \in 1 .. n
    BY <1>1
  <2> QED
    BY <1>3, <2>1, <2>3, <2>4
<1>5. Loop(Running(queue))
  <2> HIDE DEF Loop
  <2>1. \E g : Loop(g)
    BY <1>4
  <2> QED
    BY <2>1 DEF Running, Loop, n
<1>6. Totals(queue) = Running(queue)[n]
  BY DEF Totals, Running, n
<1> QED
  BY <1>1, <1>5, <1>6 DEF n

\* Of samples with positive differences the loop gets the sum of the
\* differences, their least and their greatest.
LEMMA TotalsAreReal ==
  ASSUME NEW queue \in Seq(Sample), queue # <<>>,
         NEW start \in Nat,
         \A k \in 1 .. Len(queue) :
           /\ queue[k].difference > 0
           /\ queue[k].timestamp = queue[k].difference
                + (IF k = 1 THEN start ELSE queue[k - 1].timestamp)
  PROVE  LET s == Totals(queue)
             n == Len(queue)
         IN /\ s.sum = queue[n].timestamp - start
            /\ \E k \in 1 .. n : s.min = queue[k].difference
            /\ \E k \in 1 .. n : s.max = queue[k].difference
            /\ \A k \in 1 .. n : /\ s.min <= queue[k].difference
                                 /\ queue[k].difference <= s.max
<1> DEFINE f == Running(queue)
           Real(s, n) ==
             /\ s = [sum |-> s.sum, min |-> s.min, max |-> s.max]
             /\ s.sum = queue[n].timestamp - start
             /\ \E k \in 1 .. n : s.min = queue[k].difference
             /\ \E k \in 1 .. n : s.max = queue[k].difference
             /\ \A k \in 1 .. n : /\ s.min <= queue[k].difference
                                  /\ queue[k].difference <= s.max
           S == {n \in Nat : n + 1 <= Len(queue) => Real(f[n + 1], n + 1)}
<1>1. /\ Len(queue) \in Nat \ {0}
      /\ \A k \in 1 .. Len(queue) :
           /\ queue[k].timestamp \in Nat
           /\ queue[k].difference \in Nat
  <2>1. \A k \in 1 .. Len(queue) : queue[k] \in Sample
    OBVIOUS
  <2>2. Len(queue) \in Nat \ {0}
    OBVIOUS
  <2> QED
    BY <2>1, <2>2 DEF Sample
<1>2. /\ Totals(queue) = f[Len(queue)]
      /\ f[0] = NoTotals
      /\ \A k \in 1 .. Len(queue) :
           f[k] = Counted(f[k - 1], queue[k].difference)
  BY RunningIsDefined
<1> HIDE DEF f
<1>3. 0 \in S
  <2>1. 1 \in 1 .. Len(queue) /\ f[1] = Counted(NoTotals, queue[1].difference)
    <3>1. 1 \in 1 .. Len(queue) /\ 1 - 1 = 0
      BY <1>1
    <3>2. f[1] = Counted(f[1 - 1], queue[1].difference)
      BY <1>2, <3>1
    <3> QED
      BY <1>2, <3>1, <3>2
  <2>2. Real(f[1], 1)
    BY <1>1, <2>1 DEF Counted, NoTotals
  <2> QED
    BY <2>2
<1>4. ASSUME NEW n \in Nat, n \in S
      PROVE  n + 1 \in S
  <2>1. SUFFICES ASSUME n + 2 <= Len(queue)
                 PROVE  Real(f[n + 2], n + 2)
    BY <1>1
  <2>2. Real(f[n + 1], n + 1)
    BY <1>1, <1>4, <2>1
  <2>3. /\ n + 2 \in 1 .. Len(queue)
        /\ n + 1 \in 1 .. Len(queue)
        /\ (n + 2) - 1 = n + 1
        /\ n + 2 # 1
    BY <1>1, <2>1
  <2>4. f[n + 2] = Counted(f[n + 1], queue[n + 2].difference)
    BY <1>2, <2>3
  <2>5. \A k \in 1 .. n + 2 : k = n + 2 \/ k \in 1 .. n + 1
    OBVIOUS
  <2>6. \A k \in 1 .. n + 1 : k \in 1 .. Len(queue) /\ k \in 1 .. n + 2
    BY <1>1, <2>1
  <2> DEFINE d == queue[n + 2].difference
             s == f[n + 1]
  <2>7. /\ f[n + 2].sum = s.sum + d
        /\ f[n + 2].min = IF s.min = 0 \/ d < s.min THEN d ELSE s.min
        /\ f[n + 2].max = IF d > s.max THEN d ELSE s.max
        /\ f[n + 2] = [sum |-> f[n + 2].sum, min |-> f[n + 2].min,
                       max |-> f[n + 2].max]
    BY <2>4 DEF Counted
  <2>8. f[n + 2].sum = queue[n + 2].timestamp - start
    <3>1. queue[n + 2].timestamp = d + queue[n + 1].timestamp
      BY <1>1, <2>3
    <3>2. s.sum = queue[n + 1].timestamp - start
      BY <2>2
    <3>3. queue[n + 1].timestamp \in Nat /\ d \in Nat
      BY <1>1, <2>3
    <3> HIDE DEF Real, S, d, s
    <3> QED
      BY <3>1, <3>2, <3>3, <2>7
  <2>9. s.min \in Nat /\ s.min > 0 /\ s.max \in Nat /\ d \in Nat
    BY <1>1, <2>2, <2>3, <2>6
  <2>10. /\ \E k \in 1 .. n + 2 : f[n + 2].min = queue[k].difference
         /\ \E k \in 1 .. n + 2 : f[n + 2].max = queue[k].difference
    BY <2>2, <2>6, <2>7
  <2>11. \A k \in 1 .. n + 2 : /\ f[n + 2].min <= queue[k].difference
                               /\ queue[k].difference <= f[n + 2].max
    <3>1. \A k \in 1 .. n + 1 : /\ s.min <= queue[k].difference
                                 /\ queue[k].difference <= s.max
                                 /\ queue[k].difference \in Nat
      BY <1>1, <2>2, <2>6
    <3>2. f[n + 2].min <= s.min /\ f[n + 2].min <= d
      BY <2>7, <2>9
    <3>3. s.max <= f[n + 2].max /\ d <= f[n + 2].max
      BY <2>7, <2>9
    <3>4. f[n + 2].min \in Nat /\ f[n + 2].max \in Nat
      BY <2>7, <2>9
    <3> HIDE DEF Real, S
    <3>5. ASSUME NEW k \in 1 .. n + 2
          PROVE  /\ f[n + 2].min <= queue[k].difference
                 /\ queue[k].difference <= f[n + 2].max
      <4>1. CASE k = n + 2
        BY <4>1, <3>2, <3>3
      <4>2. CASE k \in 1 .. n + 1
        <5>1. /\ s.min <= queue[k].difference
              /\ queue[k].difference <= s.max
              /\ queue[k].difference \in Nat
          BY <4>2, <3>1
        <5> HIDE DEF s, d
        <5> QED
          BY <5>1, <2>9, <3>2, <3>3, <3>4
      <4> QED
        BY <4>1, <4>2, <2>5
    <3> QED
      BY <3>5
  <2> QED
    BY <2>7, <2>8, <2>10, <2>11
<1>5. Len(queue) - 1 \in S
  <2>1. Len(queue) - 1 \in Nat
    BY <1>1
  <2> HIDE DEF S
  <2> QED
    BY <2>1, <1>3, <1>4, SetInduction
<1>6. Real(f[Len(queue)], Len(queue))
  BY <1>1, <1>5
<1> QED
  BY <1>2, <1>6

\* With stamps that increase up to now, the window keeps the samples from one
\* on, which is as old as it allows.
LEMMA WindowIsSuffix ==
  ASSUME NEW queue \in Seq(Sample), queue # <<>>, NEW t \in Nat,
         t = queue[Len(queue)].timestamp,
         \A i, j \in 1 .. Len(queue) :
           i < j => queue[i].timestamp < queue[j].timestamp
  PROVE  \E k \in 1 .. Len(queue) :
           /\ InWindow(queue, t) = SubSeq(queue, k, Len(queue))
           /\ \A i \in 1 .. Len(queue) :
                k <= i <=> t - queue[i].timestamp <= StatsWindow
<1> DEFINE n == Len(queue)
           recent == {i \in 1 .. n : t - queue[i].timestamp <= StatsWindow}
           k == CHOOSE i \in recent : \A j \in recent : i <= j
<1>1. n \in Nat \ {0} /\ \A i \in 1 .. n : queue[i].timestamp \in Nat
  <2>1. \A i \in 1 .. n : queue[i] \in Sample
    OBVIOUS
  <2> QED
    BY <2>1 DEF Sample
<1>2. n \in recent
  BY <1>1, FrameStatsAssumption
<1>3. k \in recent /\ \A j \in recent : k <= j
  <2>1. recent \subseteq Nat /\ recent # {}
    BY <1>1, <1>2
  <2> HIDE DEF recent
  <2>2. \E i \in recent : \A j \in recent : i <= j
    BY <2>1, LeastNumber
  <2> QED
    BY <2>2
<1>4. InWindow(queue, t) = SubSeq(queue, k, n)
  BY <1>2, Zenon DEF InWindow
<1>5. ASSUME NEW i \in 1 .. n
      PROVE  k <= i <=> t - queue[i].timestamp <= StatsWindow
  <2> HIDE DEF k
  <2>1. k \in 1 .. n /\ t - queue[k].timestamp <= StatsWindow
    BY <1>3
  <2>2. ASSUME k <= i
        PROVE  t - queue[i].timestamp <= StatsWindow
    <3>1. queue[k].timestamp <= queue[i].timestamp
      <4>1. k = i \/ k < i
        BY <2>1, <2>2
      <4> QED
        BY <4>1, <1>1, <2>1
    <3> QED
      BY <3>1, <2>1, <1>1, FrameStatsAssumption
  <2>3. ASSUME t - queue[i].timestamp <= StatsWindow
        PROVE  k <= i
    BY <2>3, <1>3
  <2> QED
    BY <2>2, <2>3
<1> QED
  <2> HIDE DEF k, n
  <2>1. k \in 1 .. n
    BY <1>3
  <2> QED
    BY <2>1, <1>4, <1>5 DEF n

\* What the statistics are of, and that time increases in what is shown.
StatsInv ==
  /\ seen \in Seq(Timestamp)
  /\ samples \in Seq(Sample)
  /\ previous_timestamp = IF seen = <<>> THEN 0 ELSE seen[Len(seen)]
  /\ \A i, j \in Shown : i < j => seen[i] < seen[j]
  /\ StatsOfWindow

LEMMA StatsStart == StatsInit => StatsInv
<1> SUFFICES ASSUME StatsInit
             PROVE  StatsInv
  OBVIOUS
<1>1. Len(seen) = 0 /\ Len(samples) = 0
  BY DEF StatsInit
<1>2. Shown = {}
  BY <1>1 DEF Shown
<1>3. 0 - 0 + 1 .. 0 = {}
  OBVIOUS
<1> QED
  BY <1>1, <1>2, <1>3 DEF StatsInit, StatsInv, StatsOfWindow

\* A frame that does not continue a sequence leaves nothing to show.
LEMMA NothingShown ==
  ASSUME StatsInv, NEW t \in Timestamp, update(t),
         previous_timestamp = 0 \/ t <= previous_timestamp
  PROVE  StatsInv'
<1>1. /\ seen \in Seq(Timestamp) /\ Timestamp \subseteq Nat
      /\ seen' = Append(seen, t)
      /\ previous_timestamp = IF seen = <<>> THEN 0 ELSE seen[Len(seen)]
  BY FrameStatsAssumption DEF StatsInv, update
<1> DEFINE n == Len(seen)
<1>2. /\ n \in Nat
      /\ Len(seen') = n + 1
      /\ seen'[n + 1] = t
      /\ \A i \in 1 .. n : seen'[i] = seen[i] /\ seen[i] \in Nat
      /\ seen' \in Seq(Timestamp) /\ seen' # <<>>
      /\ t \in Nat
  <2>1. \A i \in 1 .. n : seen[i] \in Timestamp
    BY <1>1
  <2>2. n \in Nat /\ t \in Nat /\ \A i \in 1 .. n : seen[i] \in Nat
    <3>1. n \in Nat
      BY <1>1
    <3> HIDE DEF n
    <3> QED
      BY <3>1, <1>1, <2>1
  <2>3. seen' \in Seq(Timestamp) /\ Len(seen') = n + 1 /\ seen'[n + 1] = t
    BY <1>1
  <2>4. \A i \in 1 .. n : seen'[i] = seen[i]
    BY <1>1
  <2>5. seen' # <<>>
    BY <2>2, <2>3
  <2> QED
    BY <2>2, <2>3, <2>4, <2>5
<1>3. Shown' = {}
  <2>1. SUFFICES ASSUME NEW i \in Shown'
                 PROVE  FALSE
    OBVIOUS
  <2>2. i \in 2 .. n + 1 /\ n + 1 \in i .. n + 1
    BY <2>1, <1>2 DEF Shown
  <2>3. 0 < seen'[n] /\ seen'[n] < seen'[n + 1]
    BY <2>1, <2>2, <1>2 DEF Shown
  <2>4. n \in 1 .. n /\ previous_timestamp = seen[n]
    BY <2>2, <1>1, <1>2
  <2>5. 0 < seen[n] /\ seen[n] < t /\ seen[n] \in Nat
    BY <2>3, <2>4, <1>2
  <2> QED
    BY <2>4, <2>5, <1>2
<1>4. Sampled(t) = <<>> /\ instant' = 0
  <2>1. CASE previous_timestamp = 0
    <3>1. Shown = {}
      <4>1. SUFFICES ASSUME NEW i \in Shown
                     PROVE  FALSE
        OBVIOUS
      <4>2. i \in 2 .. n /\ n \in i .. n
        BY <4>1, <1>2 DEF Shown
      <4>3. 0 < seen[n - 1] /\ seen[n - 1] < seen[n]
        BY <4>1, <4>2 DEF Shown
      <4>4. seen[n] = 0 /\ n - 1 \in 1 .. n
        BY <2>1, <4>2, <1>1, <1>2
      <4> QED
        BY <4>3, <4>4, <1>2
    <3>2. samples \in Seq(Sample) /\ n - Len(samples) + 1 .. n = {}
          /\ instant = 0
      BY <3>1 DEF StatsInv, StatsOfWindow
    <3>3. samples = <<>>
      <4>1. Len(samples) \in Nat
        BY <3>2
      <4>2. n \notin n - Len(samples) + 1 .. n
        BY <3>2
      <4>3. Len(samples) = 0
        BY <4>1, <4>2, <1>2
      <4> QED
        BY <4>3, <3>2
    <3> QED
      BY <2>1, <3>2, <3>3 DEF Sampled, update
  <2>2. CASE previous_timestamp # 0
    <3>1. ~ (t > previous_timestamp)
      BY <2>2, <1>1, <1>2
    <3> QED
      BY <2>2, <3>1 DEF Sampled, update
  <2> QED
    BY <2>1, <2>2
<1>5. samples' = <<>>
  <2>1. Len(<<>>) = 0
    OBVIOUS
  <2>2. InWindow(<<>>, t) = <<>>
    BY <2>1 DEF InWindow
  <2> QED
    BY <1>4, <2>2 DEF update
<1>6. snapshot' = NoTotals
  <2>1. <<>> \in Seq(Sample) /\ Len(<<>>) = 0
    OBVIOUS
  <2> QED
    BY <2>1, <1>5, RunningIsDefined DEF update
<1>7. frame_count' = n + 1 /\ previous_timestamp' = t
  BY DEF update, StatsInv, StatsOfWindow
<1>8. Len(samples') = 0 /\ (n + 1) - 0 + 1 .. n + 1 = {}
  BY <1>2, <1>5
<1> QED
  BY <1>1, <1>2, <1>3, <1>4, <1>5, <1>6, <1>7, <1>8 DEF StatsInv, StatsOfWindow

\* A frame later than the one before it is shown, and so are those shown before
\* that the window still reaches.
LEMMA OneMoreShown ==
  ASSUME StatsInv, NEW t \in Timestamp, update(t),
         previous_timestamp # 0, t > previous_timestamp
  PROVE  StatsInv'
<1> DEFINE n     == Len(seen)
           m     == Len(samples)
           older == n - m
           queue == Sampled(t)
           sample == [timestamp |-> t, difference |-> t - previous_timestamp]
<1>1. /\ seen \in Seq(Timestamp) /\ Timestamp \subseteq Nat
      /\ samples \in Seq(Sample)
      /\ seen' = Append(seen, t)
      /\ previous_timestamp = IF seen = <<>> THEN 0 ELSE seen[n]
      /\ queue = Append(samples, sample)
      /\ Shown = older + 1 .. n
      /\ \A i \in Shown : samples[i - older] =
           [timestamp |-> seen[i], difference |-> seen[i] - seen[i - 1]]
      /\ \A i, j \in Shown : i < j => seen[i] < seen[j]
      /\ StatsWindow \in Nat
      /\ frame_count = n
  BY FrameStatsAssumption DEF StatsInv, StatsOfWindow, update, Sampled, Gap
<1>2. /\ n \in Nat \ {0} /\ m \in Nat /\ t \in Nat
      /\ previous_timestamp = seen[n]
      /\ 0 < seen[n] /\ seen[n] < t
      /\ \A i \in 1 .. n : seen[i] \in Nat
  <2>1. \A i \in 1 .. n : seen[i] \in Timestamp
    BY <1>1
  <2>2. n \in Nat \ {0} /\ m \in Nat /\ previous_timestamp = seen[n]
    BY <1>1
  <2> HIDE DEF n, m
  <2>3. t \in Nat /\ \A i \in 1 .. n : seen[i] \in Nat
    BY <1>1, <2>1
  <2>4. n \in 1 .. n
    BY <2>2
  <2> QED
    BY <2>2, <2>3, <2>4
<1>3. /\ seen' \in Seq(Timestamp) /\ seen' # <<>> /\ Len(seen') = n + 1
      /\ seen'[n + 1] = t
      /\ \A i \in 1 .. n : seen'[i] = seen[i]
  BY <1>1, <1>2
<1>4. \A i \in Shown : i >= 2
  BY <1>2 DEF Shown
<1>5. older >= 1 /\ older \in Nat /\ older + m = n
  <2>1. m # 0 => older + 1 \in Shown
    BY <1>1, <1>2
  <2> HIDE DEF n, m
  <2> QED
    BY <2>1, <1>2, <1>4
<1>6. sample \in Sample
  BY <1>2 DEF Sample
<1>7. /\ queue \in Seq(Sample) /\ queue # <<>> /\ Len(queue) = m + 1
      /\ queue[m + 1] = sample
      /\ \A k \in 1 .. m : queue[k] = samples[k]
  <2> HIDE DEF queue, sample
  <2>1. queue \in Seq(Sample) /\ Len(queue) = m + 1 /\ queue[m + 1] = sample
    BY <1>1, <1>6
  <2>2. \A k \in 1 .. m : queue[k] = samples[k]
    BY <1>1, <1>6
  <2>3. queue # <<>>
    BY <2>1, <1>2
  <2> QED
    BY <2>1, <2>2, <2>3
<1> HIDE DEF n, m, older, queue
<1>8. \A i \in older + 1 .. n + 1 :
        queue[i - older] = [timestamp |-> seen'[i],
                            difference |-> seen'[i] - seen'[i - 1]]
  <2> SUFFICES ASSUME NEW i \in older + 1 .. n + 1
               PROVE  queue[i - older] =
                        [timestamp |-> seen'[i],
                         difference |-> seen'[i] - seen'[i - 1]]
    OBVIOUS
  <2>1. CASE i = n + 1
    <3>1. i - older = m + 1 /\ i - 1 = n /\ n \in 1 .. n
      BY <2>1, <1>2, <1>5
    <3>2. seen'[i] = t /\ seen'[i - 1] = previous_timestamp
      BY <3>1, <2>1, <1>2, <1>5, <1>3
    <3> QED
      BY <3>1, <3>2, <1>7
  <2>2. CASE i # n + 1
    <3>1. i \in older + 1 .. n /\ i - older \in 1 .. m
          /\ i \in 1 .. n /\ i - 1 \in 1 .. n
      BY <2>2, <1>2, <1>5
    <3>2. samples[i - older] = [timestamp |-> seen[i],
                                difference |-> seen[i] - seen[i - 1]]
      BY <3>1, <1>1
    <3>3. seen'[i] = seen[i] /\ seen'[i - 1] = seen[i - 1]
      BY <3>1, <1>3
    <3> QED
      BY <3>1, <3>2, <3>3, <1>7
  <2> QED
    BY <2>1, <2>2
<1>9. \A i, j \in older + 1 .. n + 1 : i < j => seen'[i] < seen'[j]
  <2> SUFFICES ASSUME NEW i \in older + 1 .. n + 1, NEW j \in older + 1 .. n + 1,
                      i < j
               PROVE  seen'[i] < seen'[j]
    OBVIOUS
  <2>1. i \in Shown /\ i \in 1 .. n /\ seen'[i] = seen[i]
    BY <1>1, <1>2, <1>3, <1>5
  <2>2. CASE j = n + 1
    <3>1. n \in Shown
      BY <2>1, <1>1, <1>2, <1>5
    <3>2. i = n \/ seen[i] < seen[n]
      BY <2>1, <3>1, <1>1, <1>2, <1>5
    <3> QED
      BY <2>1, <2>2, <3>2, <1>2, <1>5, <1>3
  <2>3. CASE j # n + 1
    <3>1. j \in Shown /\ j \in 1 .. n /\ seen'[j] = seen[j]
      BY <2>3, <1>1, <1>2, <1>3, <1>5
    <3> QED
      BY <2>1, <3>1, <1>1
  <2> QED
    BY <2>2, <2>3
<1>10. \A i \in older + 1 .. n + 1 :
         /\ \A j \in i .. n + 1 : 0 < seen'[j - 1] /\ seen'[j - 1] < seen'[j]
         /\ seen'[i] \in Nat
  <2> SUFFICES ASSUME NEW i \in older + 1 .. n + 1
               PROVE  /\ \A j \in i .. n + 1 : 0 < seen'[j - 1]
                                               /\ seen'[j - 1] < seen'[j]
                      /\ seen'[i] \in Nat
    OBVIOUS
  <2>1. seen'[i] \in Nat
    BY <1>2, <1>3, <1>5
  <2>2. ASSUME NEW j \in i .. n + 1
        PROVE  0 < seen'[j - 1] /\ seen'[j - 1] < seen'[j]
    <3>1. CASE j = n + 1
      BY <3>1, <1>2, <1>5, <1>3
    <3>2. CASE j # n + 1
      <4>1. i \in Shown /\ j \in i .. n /\ j \in 1 .. n /\ j - 1 \in 1 .. n
        BY <3>2, <1>1, <1>2, <1>5
      <4>2. 0 < seen[j - 1] /\ seen[j - 1] < seen[j]
        BY <4>1 DEF Shown, n
      <4> QED
        BY <4>1, <4>2, <1>3
    <3> QED
      BY <3>1, <3>2
  <2> QED
    BY <2>1, <2>2
<1>11. PICK k \in 1 .. m + 1 :
         /\ InWindow(queue, t) = SubSeq(queue, k, m + 1)
         /\ \A i \in 1 .. m + 1 :
              k <= i <=> t - queue[i].timestamp <= StatsWindow
  <2> HIDE DEF queue
  <2>1. \A i \in 1 .. m + 1 : /\ i + older \in older + 1 .. n + 1
                              /\ queue[i].timestamp = seen'[i + older]
    <3> SUFFICES ASSUME NEW i \in 1 .. m + 1
                 PROVE  /\ i + older \in older + 1 .. n + 1
                        /\ queue[i].timestamp = seen'[i + older]
      OBVIOUS
    <3>1. PICK j \in older + 1 .. n + 1 : j = i + older /\ j - older = i
      BY <1>2, <1>5
    <3>2. queue[j - older] = [timestamp |-> seen'[j],
                              difference |-> seen'[j] - seen'[j - 1]]
      BY <1>8
    <3> QED
      BY <3>1, <3>2
  <2>2. \A i, j \in 1 .. m + 1 :
          i < j => queue[i].timestamp < queue[j].timestamp
    <3> SUFFICES ASSUME NEW i \in 1 .. m + 1, NEW j \in 1 .. m + 1, i < j
                 PROVE  queue[i].timestamp < queue[j].timestamp
      OBVIOUS
    <3>1. i + older < j + older
      BY <1>2, <1>5
    <3> QED
      BY <3>1, <2>1, <1>9
  <2>3. queue[m + 1].timestamp = t
    BY <1>7
  <2> QED
    BY <2>2, <2>3, <1>2, <1>5, <1>7, WindowIsSuffix
<1>12. /\ samples' = SubSeq(queue, k, m + 1)
       /\ samples' \in Seq(Sample)
       /\ Len(samples') = m + 2 - k
       /\ \A i \in 1 .. m + 2 - k : samples'[i] = queue[i + k - 1]
  <2> HIDE DEF queue
  <2>1. samples' = SubSeq(queue, k, m + 1)
    BY <1>11 DEF update, queue
  <2> QED
    BY <2>1, <1>2, <1>5, <1>7
<1>13. ASSUME NEW i \in older + 1 .. n + 1
       PROVE  older + k <= i <=> t - seen'[i] <= StatsWindow
  <2> HIDE DEF queue
  <2>1. i - older \in 1 .. m + 1
    BY <1>2, <1>5
  <2>2. queue[i - older].timestamp = seen'[i]
    <3>1. queue[i - older] = [timestamp |-> seen'[i],
                              difference |-> seen'[i] - seen'[i - 1]]
      BY <1>8
    <3> QED
      BY <3>1
  <2>3. k <= i - older <=> older + k <= i
    BY <1>2, <1>5
  <2> QED
    BY <2>1, <2>2, <2>3, <1>11
<1>14. Shown' = older + k .. n + 1
  <2>1. ASSUME NEW i \in older + k .. n + 1
        PROVE  i \in Shown'
    <3>1. i \in older + 1 .. n + 1 /\ i \in 2 .. n + 1
      BY <1>2, <1>5
    <3>2. t - seen'[i] <= StatsWindow
      BY <3>1, <1>13
    <3> QED
      BY <3>1, <3>2, <1>3, <1>10 DEF Shown
  <2>2. ASSUME NEW i \in Shown'
        PROVE  i \in older + k .. n + 1
    <3>1. /\ i \in 2 .. n + 1
          /\ \A j \in i .. n + 1 : 0 < seen'[j - 1] /\ seen'[j - 1] < seen'[j]
          /\ t - seen'[i] <= StatsWindow
      BY <2>2, <1>3 DEF Shown
    <3>2. i \in older + 1 .. n + 1
      <4>1. CASE i = n + 1
        BY <4>1, <1>2, <1>5
      <4>2. CASE i # n + 1
        <5>1. i \in 2 .. n
          BY <4>2, <3>1, <1>2, <1>5
        <5>2. \A j \in i .. n : 0 < seen[j - 1] /\ seen[j - 1] < seen[j]
          <6> SUFFICES ASSUME NEW j \in i .. n
                       PROVE  0 < seen[j - 1] /\ seen[j - 1] < seen[j]
            OBVIOUS
          <6>1. j \in i .. n + 1 /\ j \in 1 .. n /\ j - 1 \in 1 .. n
            BY <5>1, <1>2
          <6> QED
            BY <6>1, <3>1, <1>3
        <5>3. seen[n] - seen[i] <= StatsWindow
          <6>1. i \in 1 .. n /\ n \in 1 .. n
            BY <5>1, <1>2
          <6>2. seen'[i] = seen[i] /\ seen[i] \in Nat /\ seen[n] \in Nat
            BY <6>1, <1>2, <1>5, <1>3
          <6> QED
            BY <6>2, <3>1, <1>1, <1>2, <1>5
        <5>4. i \in Shown
          BY <5>1, <5>2, <5>3 DEF Shown, n
        <5> QED
          BY <5>4, <1>1, <1>2, <1>5
      <4> QED
        BY <4>1, <4>2
    <3> QED
      BY <3>1, <3>2, <1>2, <1>5, <1>13
  <2> QED
    BY <2>1, <2>2
<1>15. (Len(seen') - Len(samples')) = older + k - 1
  BY <1>2, <1>5, <1>3, <1>12
<1>16. \A i \in Shown' :
         samples'[i - (older + k - 1)] =
           [timestamp |-> seen'[i], difference |-> seen'[i] - seen'[i - 1]]
  <2> SUFFICES ASSUME NEW i \in older + k .. n + 1
               PROVE  samples'[i - (older + k - 1)] =
                        [timestamp |-> seen'[i],
                         difference |-> seen'[i] - seen'[i - 1]]
    BY <1>14
  <2>1. /\ i - (older + k - 1) \in 1 .. m + 2 - k
        /\ (i - (older + k - 1)) + k - 1 = i - older
        /\ i \in older + 1 .. n + 1
    BY <1>2, <1>5
  <2> QED
    BY <2>1, <1>8, <1>12
<1>17. /\ samples' # <<>>
       /\ \A i \in 1 .. Len(samples') :
            /\ samples'[i].timestamp = seen'[i + older + k - 1]
            /\ samples'[i].difference = seen'[i + older + k - 1]
                                          - seen'[i + older + k - 2]
            /\ samples'[i].difference > 0
  <2>1. samples' # <<>>
    <3>1. Len(samples') # 0
      BY <1>2, <1>12
    <3> QED
      BY <3>1
  <2>2. SUFFICES ASSUME NEW i \in 1 .. Len(samples')
                 PROVE  /\ samples'[i].timestamp = seen'[i + older + k - 1]
                        /\ samples'[i].difference = seen'[i + older + k - 1]
                                                      - seen'[i + older + k - 2]
                        /\ samples'[i].difference > 0
    BY <2>1
  <2> DEFINE j == i + older + k - 1
  <2>3. /\ j \in older + k .. n + 1 /\ j \in older + 1 .. n + 1
        /\ j - (older + k - 1) = i /\ j - 1 = i + older + k - 2
        /\ j \in j .. n + 1
        /\ j - 1 \in 1 .. n
    BY <1>2, <1>5, <1>12
  <2> HIDE DEF j
  <2>4. samples'[i] = [timestamp |-> seen'[j],
                       difference |-> seen'[j] - seen'[j - 1]]
    BY <2>3, <1>14, <1>16
  <2>5. seen'[j - 1] < seen'[j] /\ seen'[j - 1] \in Nat /\ seen'[j] \in Nat
    BY <2>3, <1>2, <1>5, <1>3, <1>10
  <2>6. seen'[j] - seen'[j - 1] > 0
    BY <2>5
  <2> QED
    BY <2>3, <2>4, <2>6 DEF j
<1>18. /\ seen'[older + k - 1] \in Nat
       /\ \A i \in 1 .. Len(samples') :
            samples'[i].timestamp = samples'[i].difference
              + (IF i = 1 THEN seen'[older + k - 1]
                 ELSE samples'[i - 1].timestamp)
  <2>1. \A j \in 1 .. n + 1 : seen'[j] \in Nat
    <3>1. \A j \in 1 .. n + 1 : j = n + 1 \/ j \in 1 .. n
      BY <1>2, <1>5
    <3> QED
      BY <3>1, <1>2, <1>5, <1>3
  <2>2. older + k - 1 \in 1 .. n + 1
    BY <1>2, <1>5
  <2>3. ASSUME NEW i \in 1 .. Len(samples')
        PROVE  samples'[i].timestamp = samples'[i].difference
                 + (IF i = 1 THEN seen'[older + k - 1]
                    ELSE samples'[i - 1].timestamp)
    <3>1. /\ i + older + k - 1 \in 1 .. n + 1
          /\ i + older + k - 2 \in 1 .. n + 1
          /\ i = 1 => i + older + k - 2 = older + k - 1
          /\ i # 1 => /\ i - 1 \in 1 .. Len(samples')
                      /\ (i - 1) + older + k - 1 = i + older + k - 2
      BY <1>2, <1>5, <1>12
    <3>2. IF i = 1 THEN seen'[older + k - 1] = seen'[i + older + k - 2]
          ELSE samples'[i - 1].timestamp = seen'[i + older + k - 2]
      BY <3>1, <1>17
    <3>3. samples'[i].timestamp = samples'[i].difference
                                    + seen'[i + older + k - 2]
      BY <3>1, <2>1, <1>17
    <3> QED
      BY <3>2, <3>3
  <2> QED
    BY <2>1, <2>2, <2>3
<1> DEFINE q == samples'
<1>19. LET s == Totals(q)
       IN /\ s.sum = q[Len(q)].timestamp - seen'[older + k - 1]
          /\ \E i \in 1 .. Len(q) : s.min = q[i].difference
          /\ \E i \in 1 .. Len(q) : s.max = q[i].difference
          /\ \A i \in 1 .. Len(q) : /\ s.min <= q[i].difference
                                    /\ q[i].difference <= s.max
  <2>1. \A i \in 1 .. Len(q) :
          /\ q[i].difference > 0
          /\ q[i].timestamp = q[i].difference
               + (IF i = 1 THEN seen'[older + k - 1] ELSE q[i - 1].timestamp)
    BY <1>17, <1>18
  <2>2. q \in Seq(Sample) /\ q # <<>> /\ seen'[older + k - 1] \in Nat
    BY <1>12, <1>17, <1>18
  <2> HIDE DEF q
  <2> QED
    BY <2>1, <2>2, TotalsAreReal
<1>20. snapshot' = Totals(q)
  BY DEF update
<1>21. \A i \in Shown' : /\ i - (older + k - 1) \in 1 .. Len(q)
                         /\ q[i - (older + k - 1)].difference = seen'[i] - seen'[i - 1]
  <2> SUFFICES ASSUME NEW i \in Shown'
               PROVE  /\ i - (older + k - 1) \in 1 .. Len(q)
                      /\ q[i - (older + k - 1)].difference
                            = seen'[i] - seen'[i - 1]
    OBVIOUS
  <2>1. i - (older + k - 1) \in 1 .. Len(q)
    BY <1>2, <1>5, <1>12, <1>14
  <2>2. q[i - (older + k - 1)] =
          [timestamp |-> seen'[i], difference |-> seen'[i] - seen'[i - 1]]
    BY <1>16
  <2> QED
    BY <2>1, <2>2
<1>22. \A i \in 1 .. Len(q) : \E j \in Shown' :
         q[i].difference = seen'[j] - seen'[j - 1]
  <2> SUFFICES ASSUME NEW i \in 1 .. Len(q)
               PROVE  \E j \in Shown' : q[i].difference = seen'[j] - seen'[j - 1]
    OBVIOUS
  <2>1. PICK j \in Shown' : j - (older + k - 1) = i
    <3>1. /\ i + (older + k - 1) \in Shown'
          /\ (i + (older + k - 1)) - (older + k - 1) = i
      BY <1>2, <1>5, <1>12, <1>14
    <3> QED
      BY <3>1
  <2> QED
    BY <2>1, <1>21
<1>23. /\ snapshot'.sum = seen'[n + 1] - seen'[older + k - 1]
       /\ snapshot'.min \in {seen'[i] - seen'[i - 1] : i \in Shown'}
       /\ snapshot'.max \in {seen'[i] - seen'[i - 1] : i \in Shown'}
       /\ \A i \in Shown' : snapshot'.min <= seen'[i] - seen'[i - 1] /\ seen'[i] - seen'[i - 1] <= snapshot'.max
  <2>1. snapshot'.sum = seen'[n + 1] - seen'[older + k - 1]
    <3>1. Len(q) \in 1 .. Len(q) /\ Len(q) + older + k - 1 = n + 1
      BY <1>2, <1>5, <1>12
    <3>2. q[Len(q)].timestamp = seen'[n + 1]
      BY <3>1, <1>17
    <3> QED
      BY <3>2, <1>19, <1>20
  <2> HIDE DEF q
  <2>2. /\ snapshot'.min \in {seen'[i] - seen'[i - 1] : i \in Shown'}
        /\ snapshot'.max \in {seen'[i] - seen'[i - 1] : i \in Shown'}
    BY <1>19, <1>20, <1>22
  <2>3. \A i \in Shown' : snapshot'.min <= seen'[i] - seen'[i - 1] /\ seen'[i] - seen'[i - 1] <= snapshot'.max
    BY <1>19, <1>20, <1>21
  <2> QED
    BY <2>1, <2>2, <2>3
<1>24. instant' = seen'[n + 1] - seen'[n] /\ n + 1 \in Shown'
       /\ frame_count' = n + 1 /\ previous_timestamp' = t
  <2>1. n \in 1 .. n /\ n + 1 - 1 = n
    BY <1>2, <1>5
  <2>2. seen'[n + 1] - seen'[n] = t - seen[n]
    BY <2>1, <1>3
  <2>3. instant' = t - previous_timestamp
    BY DEF update
  <2>4. n + 1 \in Shown'
    BY <1>2, <1>5, <1>14
  <2>5. frame_count' = n + 1 /\ previous_timestamp' = t
    BY <1>1 DEF update
  <2> QED
    BY <2>2, <2>3, <2>4, <2>5, <1>2, <1>5
<1>25. \A i, j \in Shown' : i < j => seen'[i] < seen'[j]
  <2>1. Shown' \subseteq older + 1 .. n + 1
    BY <1>2, <1>5, <1>14
  <2> QED
    BY <2>1, <1>9
<1>26. StatsOfWindow'
  <2>1. Shown' # {} /\ Shown' = (older + k - 1) + 1 .. n + 1
    BY <1>2, <1>5, <1>14, <1>24
  <2>2. (n + 1) - 1 = n
    BY <1>2, <1>5
  <2> QED
    BY <2>1, <2>2, <1>3, <1>15, <1>16, <1>23, <1>24, Zenon
    DEF StatsOfWindow, Gap
<1> QED
  BY <1>3, <1>12, <1>24, <1>25, <1>26 DEF StatsInv

\* For any packets, whatever their timestamps: what update returns is of the
\* frames of the window, those since the time last ran backwards.
THEOREM StatisticsAreOfTheWindow == StatsSpec => []StatsOfWindow
<1>1. StatsInit => StatsInv
  BY StatsStart
<1>2. StatsInv /\ [StatsNext]_statsVars => StatsInv'
  <2>1. ASSUME StatsInv, NEW t \in Timestamp, update(t)
        PROVE  StatsInv'
    <3>1. t \in Nat /\ previous_timestamp \in Nat
      <4>1. seen \in Seq(Timestamp) /\ Timestamp \subseteq Nat
        BY <2>1, FrameStatsAssumption DEF StatsInv
      <4>2. seen # <<>> => seen[Len(seen)] \in Timestamp
        BY <4>1
      <4> QED
        BY <2>1, <4>1, <4>2 DEF StatsInv
    <3>2. CASE previous_timestamp = 0 \/ t <= previous_timestamp
      BY <2>1, <3>2, NothingShown
    <3>3. CASE previous_timestamp # 0 /\ t > previous_timestamp
      BY <2>1, <3>3, OneMoreShown
    <3> QED
      BY <3>1, <3>2, <3>3
  <2>2. ASSUME StatsInv, UNCHANGED statsVars
        PROVE  StatsInv'
    BY <2>2 DEF statsVars, StatsInv, StatsOfWindow, Shown, Gap
  <2> QED
    BY <2>1, <2>2 DEF StatsNext
<1>3. StatsInv => StatsOfWindow
  BY DEF StatsInv
<1> QED
  BY <1>1, <1>2, <1>3, PTL DEF StatsSpec

-----------------------------------------------------------------------------
(* The numbers in texts                                                    *)

Digit == 0 .. 9

\* The numbers that the prefixes of some digits spell.
Values(digits) ==
  CHOOSE value : value = [k \in 0 .. Len(digits) |->
    IF k = 0 THEN 0 ELSE 10 * value[k - 1] + digits[k]]

LEMMA ValuesAreDefined ==
  ASSUME NEW digits \in Seq(Digit)
  PROVE  /\ Values(digits) \in [0 .. Len(digits) -> Nat]
         /\ Values(digits)[0] = 0
         /\ \A k \in 1 .. Len(digits) :
              Values(digits)[k] = 10 * Values(digits)[k - 1] + digits[k]
         /\ DecimalValue(digits) = Values(digits)[Len(digits)]
         /\ DecimalValue(digits) \in Nat
<1> DEFINE n == Len(digits)
           step == [k \in 1 .. n |-> [v \in Nat |-> 10 * v + digits[k]]]
           Loop(f) == f = [k \in 0 .. n |->
                             IF k = 0 THEN 0 ELSE 10 * f[k - 1] + digits[k]]
<1>1. n \in Nat /\ \A k \in 1 .. n : digits[k] \in Nat
  BY DEF Digit
<1>2. step \in [1 .. n -> [Nat -> Nat]]
  BY <1>1
<1> HIDE DEF n
<1>3. PICK f \in [0 .. n -> Nat] : IsIteration(f, 0, step, n)
  <2> HIDE DEF step
  <2> QED
    BY <1>1, <1>2, Iteration
<1>4. Loop(f)
  <2>1. f[0] = 0 /\ \A k \in 1 .. n : f[k] = step[k][f[k - 1]]
    BY <1>3 DEF IsIteration
  <2>2. \A k \in 1 .. n : k - 1 \in 0 .. n
    BY <1>1
  <2>3. \A k \in 1 .. n : f[k] = 10 * f[k - 1] + digits[k]
    BY <1>3, <2>1, <2>2
  <2>4. \A k \in 0 .. n : k = 0 \/ k \in 1 .. n
    BY <1>1
  <2> QED
    BY <1>3, <2>1, <2>3, <2>4
<1>5. Loop(Values(digits))
  <2> HIDE DEF Loop
  <2>1. \E g : Loop(g)
    BY <1>4
  <2> QED
    BY <2>1 DEF Values, Loop, n
<1>6. /\ Values(digits)[0] = 0
      /\ \A k \in 1 .. n :
           Values(digits)[k] = 10 * Values(digits)[k - 1] + digits[k]
  BY <1>1, <1>5
<1>7. Values(digits) \in [0 .. n -> Nat]
  <2>1. Values(digits) = [k \in 0 .. n |-> Values(digits)[k]]
    BY <1>5
  <2> HIDE DEF Loop, step
  <2>2. ASSUME NEW k \in 1 .. n, Values(digits)[k - 1] \in Nat
        PROVE  Values(digits)[k] \in Nat
    <3>1. /\ Values(digits)[k] = 10 * Values(digits)[k - 1] + digits[k]
          /\ digits[k] \in Nat
      BY <1>1, <1>6
    <3> QED
      BY <2>2, <3>1
  <2>3. Values(digits)[0] \in Nat
    BY <1>6
  <2>4. \A k \in 1 .. n :
          Values(digits)[k - 1] \in Nat => Values(digits)[k] \in Nat
    BY <2>2
  <2> QED
    BY <1>1, <2>1, <2>3, <2>4, IterationType
<1>8. DecimalValue(digits) = Values(digits)[n]
  BY DEF DecimalValue, Values, n
<1> QED
  BY <1>1, <1>6, <1>7, <1>8 DEF n

\* ParseUpTo gives the value that digits spell, or none if it is above max.
LEMMA ParseUpToIsExact ==
  ASSUME NEW digits \in Seq(Digit), NEW max \in Nat
  PROVE  ParseUpTo(digits, max) =
           IF DecimalValue(digits) > max THEN NoNumber ELSE DecimalValue(digits)
<1> DEFINE n == Len(digits)
           Parsed == Nat \cup {NoNumber}
           step == [k \in 1 .. n |->
                      [v \in Parsed |-> WithDigit(v, digits[k], max)]]
           Loop(f) == f = [k \in 0 .. n |->
                             IF k = 0 THEN 0
                             ELSE WithDigit(f[k - 1], digits[k], max)]
           g == CHOOSE f : Loop(f)
           value == Values(digits)
           S == {k \in Nat : k <= n =>
                   g[k] = IF value[k] > max THEN NoNumber ELSE value[k]}
<1>1. n \in Nat /\ \A k \in 1 .. n : digits[k] \in Digit
  OBVIOUS
<1>2. step \in [1 .. n -> [Parsed -> Parsed]]
  BY <1>1 DEF Digit, WithDigit
<1>3. ParseUpTo(digits, max) = g[n]
  BY Zenon DEF ParseUpTo
<1>4. /\ value \in [0 .. n -> Nat] /\ value[0] = 0
      /\ \A k \in 1 .. n : value[k] = 10 * value[k - 1] + digits[k]
      /\ DecimalValue(digits) = value[n]
  BY ValuesAreDefined
<1> HIDE DEF n, value, g
<1>5. \E f : Loop(f)
  <2>1. PICK f \in [0 .. n -> Parsed] : IsIteration(f, 0, step, n)
    <3>1. 0 \in Parsed
      OBVIOUS
    <3> HIDE DEF step, Parsed
    <3> QED
      BY <3>1, <1>1, <1>2, Iteration
  <2>2. f[0] = 0 /\ \A k \in 1 .. n : f[k] = step[k][f[k - 1]]
    BY <2>1 DEF IsIteration
  <2>3. \A k \in 1 .. n : k - 1 \in 0 .. n
    BY <1>1
  <2> HIDE DEF Parsed
  <2>4. \A k \in 1 .. n : f[k] = WithDigit(f[k - 1], digits[k], max)
    BY <2>1, <2>2, <2>3
  <2>5. \A k \in 0 .. n : k = 0 \/ k \in 1 .. n
    BY <1>1
  <2>6. Loop(f)
    BY <2>1, <2>2, <2>4, <2>5
  <2> QED
    BY <2>6
<1>6. Loop(g)
  <2> HIDE DEF Loop
  <2> QED
    BY <1>5 DEF g
<1>7. 0 \in S
  BY <1>1, <1>4, <1>6
<1>8. ASSUME NEW k \in Nat, k \in S
      PROVE  k + 1 \in S
  <2>1. SUFFICES ASSUME k + 1 <= n
                 PROVE  g[k + 1] = IF value[k + 1] > max THEN NoNumber
                                   ELSE value[k + 1]
    OBVIOUS
  <2>2. /\ k + 1 \in 1 .. n /\ k + 1 \in 0 .. n /\ k \in 0 .. n
        /\ (k + 1) - 1 = k /\ k + 1 # 0
    BY <1>1, <2>1
  <2>3. g[k + 1] = WithDigit(g[k], digits[k + 1], max)
    BY <1>6, <2>2
  <2>4. g[k] = IF value[k] > max THEN NoNumber ELSE value[k]
    BY <1>8, <2>2
  <2>5. value[k + 1] = 10 * value[k] + digits[k + 1]
    BY <1>4, <2>2
  <2>6. /\ value[k] \in Nat /\ digits[k + 1] \in 0 .. 9
    BY <1>1, <1>4, <2>2 DEF Digit
  <2> HIDE DEF Loop, S
  <2> DEFINE v == value[k]
             d == digits[k + 1]
  <2>7. v \in Nat /\ d \in 0 .. 9
    BY <2>6
  <2> HIDE DEF v, d
  <2>8. v > (max - d) \div 10 <=> 10 * v + d > max
    BY <2>7
  <2>9. v > max => 10 * v + d > max
    BY <2>7
  <2>10. g[k + 1] = WithDigit(IF v > max THEN NoNumber ELSE v, d, max)
    BY <2>3, <2>4 DEF v, d
  <2>11. g[k + 1] = IF 10 * v + d > max THEN NoNumber ELSE 10 * v + d
    BY <2>7, <2>8, <2>9, <2>10 DEF WithDigit, NoNumber
  <2> QED
    BY <2>5, <2>11 DEF v, d
<1>9. n \in S
  <2> HIDE DEF S
  <2> QED
    BY <1>1, <1>7, <1>8, SetInduction
<1> QED
  BY <1>3, <1>4, <1>9

\* Zeros at the front spell nothing.
LEMMA ZerosAreNothing ==
  ASSUME NEW digits \in Seq(Digit), NEW m \in 0 .. Len(digits),
         \A j \in 1 .. m : digits[j] = 0
  PROVE  \A k \in 0 .. m : Values(digits)[k] = 0
<1> DEFINE value == Values(digits)
           S == {k \in Nat : k <= m => value[k] = 0}
<1>1. /\ value[0] = 0 /\ Len(digits) \in Nat
      /\ \A k \in 1 .. Len(digits) : value[k] = 10 * value[k - 1] + digits[k]
  BY ValuesAreDefined
<1> HIDE DEF value
<1>2. 0 \in S
  BY <1>1
<1>3. ASSUME NEW k \in Nat, k \in S
      PROVE  k + 1 \in S
  <2>1. SUFFICES ASSUME k + 1 <= m
                 PROVE  value[k + 1] = 0
    OBVIOUS
  <2>2. /\ k + 1 \in 1 .. Len(digits) /\ k + 1 \in 1 .. m
        /\ (k + 1) - 1 = k /\ value[k] = 0
    BY <1>1, <1>3, <2>1
  <2>3. value[k + 1] = 10 * value[k] + digits[k + 1]
    BY <1>1, <2>2
  <2> QED
    BY <2>2, <2>3
<1>4. \A k \in Nat : k \in S
  <2> HIDE DEF S
  <2> QED
    BY <1>2, <1>3, SetInduction
<1> QED
  BY <1>4 DEF value

\* Without the zeros at their front, digits spell the same number.
LEMMA LeadingZerosDropped ==
  ASSUME NEW digits \in Seq(Digit), NEW i \in 1 .. Len(digits),
         \A j \in 1 .. i - 1 : digits[j] = 0
  PROVE  LET rest == SubSeq(digits, i, Len(digits))
         IN /\ rest \in Seq(Digit) /\ rest # <<>>
            /\ Head(rest) = digits[i]
            /\ DecimalValue(rest) = DecimalValue(digits)
<1> DEFINE n == Len(digits)
           rest == SubSeq(digits, i, n)
           a == Values(digits)
           b == Values(rest)
           S == {k \in Nat : k <= n - i + 1 => b[k] = a[k + i - 1]}
<1>1. /\ n \in Nat /\ rest \in Seq(Digit) /\ Len(rest) = n - i + 1
      /\ \A k \in 1 .. n - i + 1 : rest[k] = digits[k + i - 1]
  OBVIOUS
<1>2. rest # <<>> /\ Head(rest) = digits[i]
  <2> HIDE DEF rest, n
  <2>1. 1 \in 1 .. n - i + 1 /\ 1 + i - 1 = i /\ Len(rest) # 0
    BY <1>1 DEF n
  <2>2. rest # <<>>
    BY <2>1
  <2>3. Head(rest) = rest[1]
    BY <1>1, <2>2
  <2> QED
    BY <1>1, <2>1, <2>2, <2>3
<1> HIDE DEF rest
<1>3. /\ a[0] = 0
      /\ \A k \in 1 .. n : a[k] = 10 * a[k - 1] + digits[k]
      /\ DecimalValue(digits) = a[n]
  BY ValuesAreDefined
<1>4. /\ b[0] = 0
      /\ \A k \in 1 .. Len(rest) : b[k] = 10 * b[k - 1] + rest[k]
      /\ DecimalValue(rest) = b[Len(rest)]
  BY <1>1, ValuesAreDefined
<1>5. a[i - 1] = 0
  <2>1. i - 1 \in 0 .. n /\ i - 1 \in 0 .. i - 1
    BY <1>1
  <2> QED
    BY <2>1, ZerosAreNothing
<1> HIDE DEF a, b, n
<1>6. i \in 1 .. n
  BY DEF n
<1>7. 0 \in S
  <2>1. 0 + i - 1 = i - 1
    BY <1>6
  <2> QED
    BY <2>1, <1>4, <1>5
<1>8. ASSUME NEW k \in Nat, k \in S
      PROVE  k + 1 \in S
  <2>1. SUFFICES ASSUME k + 1 <= n - i + 1
                 PROVE  b[k + 1] = a[(k + 1) + i - 1]
    OBVIOUS
  <2>2. /\ k + 1 \in 1 .. n - i + 1 /\ (k + 1) - 1 = k
        /\ k + i \in 1 .. n /\ (k + 1) + i - 1 = k + i /\ k + i - 1 = (k + i) - 1
    BY <1>1, <1>6, <2>1
  <2>3. b[k] = a[(k + i) - 1]
    <3>1. k <= n - i + 1
      BY <1>1, <1>6, <2>1
    <3>2. b[k] = a[k + i - 1]
      BY <1>8, <3>1
    <3> QED
      BY <2>2, <3>2
  <2>4. b[k + 1] = 10 * b[k] + rest[k + 1]
    BY <1>1, <1>4, <2>2
  <2>5. rest[k + 1] = digits[k + i]
    BY <1>1, <2>2
  <2>6. a[k + i] = 10 * a[(k + i) - 1] + digits[k + i]
    BY <1>3, <2>2
  <2> QED
    BY <2>2, <2>3, <2>4, <2>5, <2>6
<1>9. n - i + 1 \in S
  <2>1. n - i + 1 \in Nat
    BY <1>1, <1>6
  <2> HIDE DEF S
  <2> QED
    BY <2>1, <1>7, <1>8, SetInduction
<1>10. b[n - i + 1] = a[n]
  <2>1. (n - i + 1) + i - 1 = n
    BY <1>1, <1>6
  <2> QED
    BY <1>1, <1>9, <2>1
<1> QED
  BY <1>1, <1>2, <1>3, <1>4, <1>10 DEF rest, n

\* parse_padded_nonnegative_int gives the value, unless it is above INT_MAX.
LEMMA ParsePaddedIsExact ==
  ASSUME NEW digits \in Seq(Digit), digits # <<>>
  PROVE  ParsePadded(digits) =
           IF DecimalValue(digits) > IntMax THEN NoNumber
           ELSE DecimalValue(digits)
<1> DEFINE nonzero == {i \in DOMAIN digits : digits[i] # 0}
           i == CHOOSE k \in nonzero : \A j \in nonzero : k <= j
           rest == SubSeq(digits, i, Len(digits))
<1>1. IntMax \in Nat
  BY StorageIndexAssumption
<1>2. CASE nonzero = {}
  <2>1. Len(digits) \in 0 .. Len(digits) /\ DOMAIN digits = 1 .. Len(digits)
    OBVIOUS
  <2>2. \A j \in 1 .. Len(digits) : digits[j] = 0
    BY <1>2, <2>1
  <2>3. DecimalValue(digits) = 0
    BY <2>1, <2>2, ZerosAreNothing, ValuesAreDefined
  <2>4. ParsePadded(digits) = 0
    BY <1>2 DEF ParsePadded
  <2> QED
    BY <1>1, <2>3, <2>4
<1>3. CASE nonzero # {}
  <2>1. nonzero \subseteq Nat /\ DOMAIN digits = 1 .. Len(digits)
    OBVIOUS
  <2>2. i \in nonzero /\ \A j \in nonzero : i <= j
    <3> HIDE DEF nonzero
    <3>1. \E k \in nonzero : \A j \in nonzero : k <= j
      BY <1>3, <2>1, LeastNumber
    <3> QED
      BY <3>1
  <2>3. ParsePadded(digits) = ParseInt(rest)
    BY <1>3, Zenon DEF ParsePadded
  <2> HIDE DEF i
  <2>4. /\ i \in 1 .. Len(digits) /\ digits[i] # 0
        /\ \A j \in 1 .. i - 1 : digits[j] = 0
    <3>1. i \in 1 .. Len(digits) /\ digits[i] # 0
      BY <2>1, <2>2
    <3>2. ASSUME NEW j \in 1 .. i - 1, digits[j] # 0
          PROVE  FALSE
      <4>1. j \in 1 .. Len(digits) /\ ~ (i <= j)
        BY <3>1
      <4> QED
        BY <4>1, <2>1, <2>2, <3>2
    <3> QED
      BY <3>1, <3>2
  <2>5. /\ rest \in Seq(Digit) /\ rest # <<>> /\ Head(rest) # 0
        /\ DecimalValue(rest) = DecimalValue(digits)
    BY <2>4, LeadingZerosDropped
  <2> HIDE DEF rest
  <2>6. ParseInt(rest) = ParseUpTo(rest, IntMax)
    BY <2>5 DEF ParseInt
  <2> QED
    BY <1>1, <2>3, <2>5, <2>6, ParseUpToIsExact
<1> QED
  BY <1>2, <1>3

\* What is left of a number without its last digits.
Overs(n) ==
  CHOOSE over : over = [k \in Nat |-> IF k = 0 THEN n ELSE over[k - 1] \div 10]

LEMMA OversAreDefined ==
  ASSUME NEW n \in Nat
  PROVE  /\ Overs(n) \in [Nat -> Nat]
         /\ Overs(n)[0] = n
         /\ \A k \in Nat : Overs(n)[k + 1] = Overs(n)[k] \div 10
<1> DEFINE step == [v \in Nat |-> v \div 10]
           Loop(f) == f = [k \in Nat |-> IF k = 0 THEN n ELSE f[k - 1] \div 10]
<1>1. PICK f \in [Nat -> Nat] : f[0] = n /\ \A k \in Nat : f[k + 1] = step[f[k]]
  <2>1. step \in [Nat -> Nat]
    OBVIOUS
  <2> HIDE DEF step
  <2>2. \E f \in [Nat -> Nat] : IsEndless(f, n, step)
    BY <2>1, EndlessIteration
  <2> QED
    BY <2>2 DEF IsEndless
<1>2. Loop(f)
  <2>1. \A k \in Nat : f[k + 1] = f[k] \div 10
    BY <1>1
  <2>2. ASSUME NEW k \in Nat, k # 0
        PROVE  f[k] = f[k - 1] \div 10
    <3>1. k - 1 \in Nat /\ (k - 1) + 1 = k
      BY <2>2
    <3>2. f[(k - 1) + 1] = f[k - 1] \div 10
      BY <2>1, <3>1
    <3> QED
      BY <3>1, <3>2
  <2> QED
    BY <1>1, <2>2
<1>3. Loop(Overs(n))
  <2> HIDE DEF Loop
  <2>1. \E g : Loop(g)
    BY <1>2
  <2> QED
    BY <2>1 DEF Overs, Loop
<1> DEFINE over == Overs(n)
<1> HIDE DEF over
<1>4. /\ over = [k \in Nat |-> over[k]]
      /\ over[0] = n
      /\ \A k \in Nat : over[k + 1] = over[k] \div 10
  <2>1. over = [k \in Nat |-> IF k = 0 THEN n ELSE over[k - 1] \div 10]
    BY <1>3 DEF over
  <2>2. \A k \in Nat : k + 1 \in Nat /\ k + 1 # 0 /\ (k + 1) - 1 = k
    OBVIOUS
  <2> QED
    BY <2>1, <2>2
<1>5. \A k \in Nat : over[k] \in Nat
  <2> DEFINE S == {k \in Nat : over[k] \in Nat}
  <2>1. 0 \in S
    BY <1>4
  <2>2. ASSUME NEW k \in Nat, k \in S
        PROVE  k + 1 \in S
    <3>1. over[k] \in Nat /\ over[k + 1] = over[k] \div 10
      BY <1>4, <2>2
    <3> QED
      BY <3>1
  <2>3. \A k \in Nat : k \in S
    <3> HIDE DEF S
    <3> QED
      BY <2>1, <2>2, SetInduction
  <2> QED
    BY <2>3
<1> QED
  BY <1>4, <1>5 DEF over

\* Each step takes at least one from what is left, until nothing is.
LEMMA OversEnd ==
  ASSUME NEW n \in Nat
  PROVE  /\ \A k \in Nat : k >= n => Overs(n)[k] = 0
         /\ \A j, k \in Nat : j <= k /\ Overs(n)[j] = 0 => Overs(n)[k] = 0
<1> DEFINE over == Overs(n)
           S == {k \in Nat : over[k] = 0 \/ over[k] + k <= n}
<1>1. /\ over[0] = n
      /\ \A k \in Nat : over[k] \in Nat /\ over[k + 1] = over[k] \div 10
  BY OversAreDefined
<1> HIDE DEF over
<1>2. 0 \in S
  BY <1>1
<1>3. ASSUME NEW k \in Nat, k \in S
      PROVE  k + 1 \in S
  <2>1. over[k] \in Nat /\ over[k + 1] = over[k] \div 10
    BY <1>1
  <2>2. over[k] = 0 \/ over[k] + k <= n
    BY <1>3
  <2>3. over[k + 1] = 0 \/ over[k + 1] + (k + 1) <= n
    BY <2>1, <2>2
  <2> QED
    BY <2>3
<1>4. \A k \in Nat : k \in S
  <2> HIDE DEF S
  <2> QED
    BY <1>2, <1>3, SetInduction
<1>5. ASSUME NEW k \in Nat, k >= n
      PROVE  over[k] = 0
  <2>1. over[k] \in Nat /\ (over[k] = 0 \/ over[k] + k <= n)
    BY <1>1, <1>4
  <2> QED
    BY <1>5, <2>1
<1>6. ASSUME NEW j \in Nat, over[j] = 0
      PROVE  \A k \in Nat : j <= k => over[k] = 0
  <2> DEFINE T == {k \in Nat : over[j + k] = 0}
  <2>1. 0 \in T
    BY <1>6
  <2>2. ASSUME NEW k \in Nat, k \in T
        PROVE  k + 1 \in T
    <3>1. j + k \in Nat /\ (j + k) + 1 = j + (k + 1)
      OBVIOUS
    <3>2. over[(j + k) + 1] = 0
      BY <1>1, <2>2, <3>1
    <3> QED
      BY <3>1, <3>2
  <2>3. \A k \in Nat : k \in T
    <3> HIDE DEF T
    <3> QED
      BY <2>1, <2>2, SetInduction
  <2>4. ASSUME NEW k \in Nat, j <= k
        PROVE  over[k] = 0
    <3>1. k - j \in T /\ j + (k - j) = k
      BY <2>3, <2>4
    <3> QED
      BY <3>1
  <2> QED
    BY <2>4
<1> QED
  BY <1>5, <1>6 DEF over

\* The last digits of what digits spell, taken away one by one, leave what
\* the others spell.
LEMMA OversOfDigits ==
  ASSUME NEW digits \in Seq(Digit)
  PROVE  \A j \in 0 .. Len(digits) :
           Overs(DecimalValue(digits))[j] = Values(digits)[Len(digits) - j]
<1> DEFINE n == Len(digits)
           value == Values(digits)
           over == Overs(DecimalValue(digits))
           S == {j \in Nat : j <= n => over[j] = value[n - j]}
<1>1. /\ value \in [0 .. n -> Nat] /\ n \in Nat
      /\ \A k \in 1 .. n : /\ value[k] = 10 * value[k - 1] + digits[k]
                           /\ digits[k] \in 0 .. 9
      /\ DecimalValue(digits) = value[n]
      /\ DecimalValue(digits) \in Nat
  BY ValuesAreDefined DEF Digit
<1>2. over[0] = value[n] /\ \A k \in Nat : over[k + 1] = over[k] \div 10
  BY <1>1, OversAreDefined
<1> HIDE DEF n, value, over
<1>3. 0 \in S
  <2>1. n - 0 = n
    BY <1>1
  <2> QED
    BY <2>1, <1>2
<1>4. ASSUME NEW j \in Nat, j \in S
      PROVE  j + 1 \in S
  <2>1. SUFFICES ASSUME j + 1 <= n
                 PROVE  over[j + 1] = value[n - (j + 1)]
    OBVIOUS
  <2>2. /\ n - j \in 1 .. n /\ (n - j) - 1 = n - (j + 1)
        /\ n - (j + 1) \in 0 .. n /\ j <= n
    BY <1>1, <2>1
  <2>3. over[j] = value[n - j]
    BY <1>4, <2>2
  <2>4. /\ value[n - j] = 10 * value[n - (j + 1)] + digits[n - j]
        /\ value[n - (j + 1)] \in Nat /\ digits[n - j] \in 0 .. 9
    BY <1>1, <2>2
  <2>5. over[j + 1] = over[j] \div 10
    BY <1>2
  <2> DEFINE v == value[n - (j + 1)]
             d == digits[n - j]
  <2>6. v \in Nat /\ d \in 0 .. 9
    BY <2>4
  <2>7. over[j + 1] = (10 * v + d) \div 10
    BY <2>3, <2>4, <2>5
  <2> HIDE DEF v, d
  <2>8. (10 * v + d) \div 10 = v
    BY <2>6
  <2> QED
    BY <2>7, <2>8 DEF v
<1>5. \A j \in Nat : j \in S
  <2> HIDE DEF S
  <2> QED
    BY <1>3, <1>4, SetInduction
<1> QED
  BY <1>5 DEF n, value, over

\* Of three digits or more, those without an idle zero in front are what
\* format_file_index makes of their number, and no others.
LEMMA PaddedIsExact ==
  ASSUME NEW digits \in Seq(Digit), Len(digits) >= 3
  PROVE  digits = Padded(DecimalValue(digits))
           <=> (Len(digits) = 3 \/ digits[1] # 0)
<1> DEFINE n == Len(digits)
           number == DecimalValue(digits)
           value == Values(digits)
           over == Overs(number)
           Fits(w) == over[w] = 0 /\ (w = 3 \/ over[w - 1] # 0)
           width == CHOOSE w \in 3 .. number + 3 : Fits(w)
           whole == Len(digits) = 3 \/ digits[1] # 0
<1>1. /\ n \in Nat /\ number \in Nat
      /\ value[0] = 0
      /\ \A k \in 1 .. n : /\ value[k] = 10 * value[k - 1] + digits[k]
                           /\ value[k] \in Nat /\ value[k - 1] \in Nat
                           /\ digits[k] \in 0 .. 9
  <2>1. \A k \in 1 .. n : k \in 0 .. n /\ k - 1 \in 0 .. n
    OBVIOUS
  <2>2. \A k \in 1 .. n : digits[k] \in 0 .. 9
    BY DEF Digit
  <2>3. /\ value \in [0 .. n -> Nat] /\ value[0] = 0 /\ number \in Nat
        /\ \A k \in 1 .. n : value[k] = 10 * value[k - 1] + digits[k]
    BY ValuesAreDefined
  <2>4. n \in Nat
    OBVIOUS
  <2> HIDE DEF value, n, number
  <2> QED
    BY <2>1, <2>2, <2>3, <2>4
<1>2. \A j \in 0 .. n : over[j] = value[n - j]
  BY OversOfDigits
<1>3. /\ \A k \in Nat : k >= number => over[k] = 0
      /\ \A j, k \in Nat : j <= k /\ over[j] = 0 => over[k] = 0
  BY <1>1, OversEnd
<1>4. Padded(number) = [i \in 1 .. width |-> over[width - i] % 10]
  BY Zenon DEF Padded, Overs
<1>5. n >= 3 /\ (whole <=> n = 3 \/ digits[1] # 0)
  OBVIOUS
<1>6. digits = [i \in 1 .. n |-> digits[i]]
  OBVIOUS
<1> HIDE DEF n, number, value, over, width, whole
<1>7. over[n] = 0 /\ over[n - 1] = digits[1]
  <2>1. /\ n \in 0 .. n /\ n - n = 0 /\ n - 1 \in 0 .. n /\ n - (n - 1) = 1
        /\ 1 \in 1 .. n /\ 1 - 1 = 0
    BY <1>1, <1>5
  <2>2. over[n - 1] = value[1] /\ over[n] = value[0]
    BY <1>2, <2>1
  <2>3. value[1] = 10 * value[0] + digits[1] /\ digits[1] \in 0 .. 9
    BY <1>1, <2>1
  <2> QED
    BY <1>1, <2>2, <2>3
<1>8. Fits(n) <=> whole
  BY <1>5, <1>7
<1>9. width \in 3 .. number + 3 /\ Fits(width)
  <2>1. PICK w \in 3 .. number + 3 : Fits(w)
    <3> DEFINE T == {w \in Nat : w >= 3 /\ over[w] = 0}
    <3>1. number + 3 \in T
      BY <1>1, <1>3
    <3>2. PICK w \in T : \A y \in T : w <= y
      <4>1. T \subseteq Nat /\ T # {}
        BY <3>1
      <4> HIDE DEF T
      <4> QED
        BY <4>1, LeastNumber
    <3>3. w \in 3 .. number + 3
      BY <1>1, <3>1, <3>2
    <3>4. w = 3 \/ over[w - 1] # 0
      <4>1. SUFFICES ASSUME w # 3, over[w - 1] = 0
                     PROVE  FALSE
        OBVIOUS
      <4>2. w - 1 \in T /\ ~ (w <= w - 1)
        BY <3>2, <4>1
      <4> QED
        BY <3>2, <4>2
    <3> QED
      BY <3>2, <3>3, <3>4
  <2> HIDE DEF Fits
  <2> QED
    BY <2>1 DEF width
<1>10. Fits(n) => width = n
  <2>1. SUFFICES ASSUME Fits(n)
                 PROVE  width = n
    OBVIOUS
  <2>2. ~ (width < n)
    <3>1. SUFFICES ASSUME width < n
                   PROVE  FALSE
      OBVIOUS
    <3>2. width \in Nat /\ n - 1 \in Nat /\ width <= n - 1 /\ n # 3
      BY <1>1, <1>5, <1>9, <3>1
    <3>3. over[n - 1] = 0
      BY <1>3, <1>9, <3>2
    <3> QED
      BY <2>1, <3>2, <3>3
  <2>3. ~ (n < width)
    <3>1. SUFFICES ASSUME n < width
                   PROVE  FALSE
      OBVIOUS
    <3>2. n <= width - 1 /\ width - 1 \in Nat /\ width # 3
      BY <1>1, <1>5, <1>9, <3>1
    <3>3. over[width - 1] = 0
      BY <1>1, <1>3, <1>7, <3>2
    <3> QED
      BY <1>9, <3>2, <3>3
  <2> QED
    BY <1>1, <1>9, <2>2, <2>3
<1>11. width = n => Fits(n)
  BY <1>9
<1>12. ASSUME width = n
       PROVE  digits = Padded(number)
  <2>1. ASSUME NEW i \in 1 .. n
        PROVE  over[n - i] % 10 = digits[i]
    <3>1. n - i \in 0 .. n /\ n - (n - i) = i
      BY <1>1
    <3>2. over[n - i] = 10 * value[i - 1] + digits[i]
      BY <1>1, <1>2, <3>1
    <3> DEFINE v == value[i - 1]
               d == digits[i]
    <3>3. v \in Nat /\ d \in 0 .. 9
      BY <1>1
    <3>4. over[n - i] = 10 * v + d
      BY <3>2
    <3> HIDE DEF v, d
    <3>5. (10 * v + d) % 10 = d
      BY <3>3
    <3> QED
      BY <3>4, <3>5 DEF d
  <2>2. Padded(number) = [i \in 1 .. n |-> over[n - i] % 10]
    BY <1>4, <1>12
  <2>3. [i \in 1 .. n |-> over[n - i] % 10] = [i \in 1 .. n |-> digits[i]]
    BY <2>1
  <2> QED
    BY <1>6, <2>2, <2>3
<1>13. ASSUME digits = Padded(number)
       PROVE  width = n
  <2>1. DOMAIN digits = 1 .. n /\ DOMAIN Padded(number) = 1 .. width
    BY <1>4, <1>6
  <2>2. 1 .. n = 1 .. width
    BY <1>13, <2>1
  <2> QED
    BY <1>1, <1>5, <1>9, <2>2
<1> QED
  BY <1>8, <1>10, <1>11, <1>12, <1>13 DEF whole, number

\* parse_record_filename accepts the one spelling of each number that fits.
LEMMA ParseIndexIsExact ==
  ASSUME NEW digits \in Seq(Digit)
  PROVE  ParseIndex(digits) =
           IF \/ Len(digits) < 3 \/ DecimalValue(digits) > IntMax
              \/ digits[1] = 0 /\ Len(digits) > 3
             THEN NoNumber ELSE DecimalValue(digits)
<1> DEFINE value == DecimalValue(digits)
<1>1. value \in Nat /\ IntMax \in Nat /\ Len(digits) \in Nat
  BY ValuesAreDefined, StorageIndexAssumption
<1>2. CASE Len(digits) < 3
  BY <1>1, <1>2 DEF ParseIndex
<1>3. CASE Len(digits) >= 3
  <2>1. digits # <<>>
    BY <1>3
  <2>2. ParsePadded(digits) = IF value > IntMax THEN NoNumber ELSE value
    BY <2>1, ParsePaddedIsExact
  <2>3. digits = Padded(value) <=> (Len(digits) = 3 \/ digits[1] # 0)
    BY <1>3, PaddedIsExact
  <2>4. Len(digits) = 3 <=> ~ (Len(digits) > 3)
    <3>1. ASSUME NEW n \in Nat, n >= 3
          PROVE  n = 3 <=> ~ (n > 3)
      BY <3>1
    <3> QED
      BY <1>1, <1>3, <3>1
  <2>5. ~ (Len(digits) < 3) /\ value # NoNumber
    BY <1>1, <1>3 DEF NoNumber
  <2>6. ParseIndex(digits) =
          IF /\ ParsePadded(digits) # NoNumber
             /\ Len(digits) >= 3
             /\ digits = Padded(ParsePadded(digits))
            THEN ParsePadded(digits) ELSE NoNumber
    BY DEF ParseIndex
  <2> HIDE DEF value
  <2>7. CASE value > IntMax
    BY <2>2, <2>6, <2>7 DEF value
  <2>8. CASE ~ (value > IntMax)
    <3>1. ParseIndex(digits) =
            IF digits = Padded(value) THEN value ELSE NoNumber
      BY <1>3, <2>2, <2>5, <2>6, <2>8
    <3> QED
      BY <3>1, <2>3, <2>4, <2>5, <2>8 DEF value
  <2> QED
    BY <2>7, <2>8
<1> QED
  BY <1>1, <1>2, <1>3

\* What is multiplied does not exceed max.
LEMMA ProductFits ==
  ASSUME NEW a \in Nat, NEW max \in Nat, NEW unit \in Nat \ {0}
  PROVE  a > max \div unit <=> a * unit > max
<1> DEFINE q == max \div unit
<1>1. q \in Int /\ q * unit <= max /\ max < q * unit + unit
  BY Z3
<1> HIDE DEF q
<1>2. ASSUME a > q
      PROVE  a * unit > max
  <2>1. PICK b \in Nat : a = q + 1 + b
    <3>1. a - q - 1 \in Nat /\ a = q + 1 + (a - q - 1)
      BY <1>1, <1>2
    <3> QED
      BY <3>1
  <2>2. a * unit = q * unit + unit + b * unit
    BY <1>1, <2>1, Z3
  <2>3. b * unit >= 0
    BY Z3
  <2> QED
    BY <1>1, <2>2, <2>3
<1>3. ASSUME a <= q
      PROVE  a * unit <= max
  <2>1. PICK b \in Nat : q = a + b
    <3>1. q - a \in Nat /\ q = a + (q - a)
      BY <1>1, <1>3
    <3> QED
      BY <3>1
  <2>2. q * unit = a * unit + b * unit
    BY <1>1, <2>1, Z3
  <2>3. b * unit >= 0
    BY Z3
  <2> QED
    BY <1>1, <2>2, <2>3
<1> QED
  BY <1>1, <1>2, <1>3 DEF q

\* For digits of any length, any INT_MAX, any largest size and any units: what
\* load_index_file takes for a number is one that fits, in its only spelling,
\* and nothing overflows on the way.
THEOREM NumbersAreExact == input \in Seq(Digit) => NumbersExact
<1> SUFFICES ASSUME input \in Seq(Digit)
             PROVE  NumbersExact
  OBVIOUS
<1> DEFINE value == DecimalValue(input)
<1>1. value \in Nat /\ IntMax \in Nat /\ SizeMax \in Nat
      /\ SizeUnit \subseteq Nat \ {0}
  BY ValuesAreDefined, StorageIndexAssumption, IndexTextAssumption
<1>2. input # <<>> => Head(input) = input[1]
  OBVIOUS
<1>3. ParseInt(input) =
        IF input = <<>> \/ (input # <<>> /\ input[1] = 0 /\ Len(input) > 1)
             \/ value > IntMax
          THEN NoNumber ELSE value
  <2>1. ParseUpTo(input, IntMax) = IF value > IntMax THEN NoNumber ELSE value
    BY <1>1, ParseUpToIsExact
  <2> HIDE DEF value
  <2>2. Len(input) > 1 => input # <<>>
    OBVIOUS
  <2> QED
    BY <1>2, <2>1, <2>2 DEF ParseInt
<1>4. ParseIndex(input) =
        IF \/ Len(input) < 3 \/ value > IntMax
           \/ input # <<>> /\ input[1] = 0 /\ Len(input) > 3
          THEN NoNumber ELSE value
  <2>1. Len(input) > 3 => input # <<>>
    OBVIOUS
  <2> QED
    BY <2>1, ParseIndexIsExact
<1>5. ASSUME NEW unit \in SizeUnit
      PROVE  ParseSize(input, unit) =
               IF input = <<>> \/ (input # <<>> /\ input[1] = 0)
                    \/ value * unit > SizeMax
                 THEN NoNumber ELSE value * unit
  <2>1. ParseUpTo(input, SizeMax) = IF value > SizeMax THEN NoNumber ELSE value
    BY <1>1, ParseUpToIsExact
  <2> HIDE DEF value
  <2>2. unit \in Nat \ {0} /\ value # NoNumber
    BY <1>1 DEF NoNumber
  <2>3. value > SizeMax \div unit <=> value * unit > SizeMax
    BY <1>1, <2>2, ProductFits
  <2>4. value > SizeMax => value * unit > SizeMax
    <3>1. value * unit >= value
      BY <1>1, <2>2, Z3
    <3>2. value * unit \in Nat
      BY <1>1, <2>2, Z3
    <3> QED
      BY <1>1, <3>1, <3>2
  <2>5. CASE value > SizeMax
    BY <2>1, <2>4, <2>5 DEF ParseSize
  <2>6. CASE ~ (value > SizeMax)
    <3>1. ParseUpTo(input, SizeMax) = value
      BY <2>1, <2>6
    <3>2. ParseSize(input, unit) =
            IF input = <<>> \/ Head(input) = 0 THEN NoNumber
            ELSE IF value = NoNumber \/ value > SizeMax \div unit THEN NoNumber
            ELSE value * unit
      BY <3>1 DEF ParseSize
    <3>3. CASE input = <<>>
      BY <3>2, <3>3, Zenon
    <3>4. CASE input # <<>>
      <4>1. ParseSize(input, unit) =
              IF input[1] = 0 THEN NoNumber
              ELSE IF value > SizeMax \div unit THEN NoNumber
              ELSE value * unit
        BY <1>2, <2>2, <3>2, <3>4, Zenon
      <4> QED
        BY <2>3, <3>4, <4>1, Zenon
    <3> QED
      BY <3>3, <3>4
  <2> QED
    BY <2>5, <2>6
<1> QED
  BY <1>3, <1>4, <1>5, Zenon DEF NumbersExact

-----------------------------------------------------------------------------
(* The lines of a configuration                                            *)

\* The characters the loader treats in a way of their own, besides QuoteMark.
Space     == " "
Colon     == ":"
Hash      == "#"
Backslash == "\\"

LEMMA MarksDiffer ==
  /\ Space # Colon /\ Space # Hash /\ Colon # Hash
  /\ Space # Backslash
  /\ \A mark \in QuoteMark : mark \notin {Space, Colon, Hash, Backslash}
  BY DEF Space, Colon, Hash, Backslash, QuoteMark

LineOf(Character) ==
  [key : Seq(Character), value : Seq(Character), quote : {"", "'", "\""},
   comment : BOOLEAN]

LEMMA LeastIs ==
  ASSUME NEW S, S \subseteq Int, NEW a \in S, \A i \in S : a <= i
  PROVE  Least(S) = a
<1>1. \A i \in S : (\A j \in S : i <= j) => i = a
  BY SMT
<1> QED
  BY <1>1 DEF Least

LEMMA GreatestIs ==
  ASSUME NEW S, S \subseteq Int, NEW b \in S, \A i \in S : i <= b
  PROVE  Greatest(S) = b
<1>1. \A i \in S : (\A j \in S : j <= i) => i = b
  BY SMT
<1> QED
  BY <1>1 DEF Greatest

LEMMA GreatestExists ==
  ASSUME NEW n \in Nat, NEW S, S \subseteq 1 .. n, S # {}
  PROVE  Greatest(S) \in S
<1> DEFINE T == {n - i : i \in S}
<1>1. T \subseteq Nat /\ T # {}
  <2>1. \A i \in S : n - i \in Nat
    OBVIOUS
  <2> QED
    BY <2>1
<1>2. PICK x \in T : \A y \in T : x <= y
  <2> HIDE DEF T
  <2> QED
    BY <1>1, LeastNumber
<1>3. PICK i \in S : x = n - i
  BY <1>2
<1>4. \A j \in S : n - i <= n - j
  BY <1>2, <1>3
<1>5. \A j \in S : j <= i
  BY <1>3, <1>4
<1> QED
  BY <1>3, <1>5 DEF Greatest

\* Trim takes the spaces off both ends.
LEMMA TrimOf ==
  ASSUME NEW Character, NEW text \in Seq(Character),
         NEW a \in 1 .. Len(text), NEW b \in a .. Len(text),
         text[a] # Space, text[b] # Space,
         \A i \in 1 .. a - 1 : text[i] = Space,
         \A i \in b + 1 .. Len(text) : text[i] = Space
  PROVE  Trim(text) = SubSeq(text, a, b)
<1> DEFINE kept == {i \in DOMAIN text : text[i] # Space}
<1>1. /\ Len(text) \in Nat /\ DOMAIN text = 1 .. Len(text)
      /\ a \in Int /\ b \in Int /\ b \in 1 .. Len(text)
  OBVIOUS
<1>2. a \in kept /\ b \in kept /\ kept \subseteq Int
  BY <1>1
<1>3. \A i \in kept : a <= i /\ i <= b
  BY <1>1
<1> HIDE DEF kept
<1>4. Least(kept) = a /\ Greatest(kept) = b
  BY <1>2, <1>3, LeastIs, GreatestIs
<1>5. kept # {}
  BY <1>2
<1> QED
  BY <1>4, <1>5 DEF Trim, kept, Space

LEMMA TrimOfNothing == Trim(<<>>) = <<>>
  BY DEF Trim

\* What Trim does not change has no space at either end.
LEMMA TrimmedEnds ==
  ASSUME NEW Character, NEW text \in Seq(Character), text # <<>>,
         text = Trim(text)
  PROVE  Len(text) > 0 /\ text[1] # Space /\ text[Len(text)] # Space
<1> DEFINE n == Len(text)
           kept == {i \in DOMAIN text : text[i] # Space}
           a == Least(kept)
           b == Greatest(kept)
<1>1. n \in Nat /\ n > 0 /\ DOMAIN text = 1 .. n
  OBVIOUS
<1>2. kept # {}
  BY DEF Trim, Space
<1>3. kept \subseteq 1 .. n
  BY <1>1
<1>4. a \in kept
  <2>1. kept \subseteq Nat
    BY <1>1, <1>3
  <2> HIDE DEF kept
  <2>2. \E i \in kept : \A j \in kept : i <= j
    BY <1>2, <2>1, LeastNumber
  <2> QED
    BY <2>2 DEF Least
<1>5. b \in kept
  <2> HIDE DEF kept, n
  <2> QED
    BY <1>1, <1>2, <1>3, GreatestExists
<1>6. text = SubSeq(text, a, b)
  BY <1>2 DEF Trim, Space
<1>7. a \in 1 .. n /\ b \in 1 .. n
  BY <1>3, <1>4, <1>5
<1> HIDE DEF a, b
<1>8. Len(SubSeq(text, a, b)) = IF a <= b THEN b - a + 1 ELSE 0
  BY <1>1, <1>7
<1>9. a = 1 /\ b = n
  <2>1. n = IF a <= b THEN b - a + 1 ELSE 0
    BY <1>6, <1>8
  <2> HIDE DEF n
  <2> QED
    BY <1>1, <1>7, <2>1
<1> QED
  BY <1>1, <1>4, <1>5, <1>9

-----------------------------------------------------------------------------
\* What the i-th character makes of the quote that is open before it.
Flipped(line, i, before) ==
  LET mark == /\ line[i] \in QuoteMark
              /\ i = 1 \/ line[i - 1] # Backslash
  IN IF mark /\ before = Space THEN line[i]
     ELSE IF mark /\ before = line[i] THEN Space
     ELSE before

LEMMA OpenQuoteIsDefined ==
  ASSUME NEW Character, Space \in Character, NEW line \in Seq(Character)
  PROVE  /\ OpenQuote(line)[0] = Space
         /\ \A i \in 1 .. Len(line) :
              OpenQuote(line)[i] = Flipped(line, i, OpenQuote(line)[i - 1])
<1> DEFINE n == Len(line)
           step == [i \in 1 .. n |->
                      [before \in Character |-> Flipped(line, i, before)]]
           Loop(f) == f = [i \in 0 .. n |->
                             IF i = 0 THEN Space ELSE Flipped(line, i, f[i - 1])]
<1>1. n \in Nat /\ \A i \in 1 .. n : line[i] \in Character
  OBVIOUS
<1>2. step \in [1 .. n -> [Character -> Character]]
  BY <1>1 DEF Flipped
<1> HIDE DEF n
<1>3. PICK f \in [0 .. n -> Character] : IsIteration(f, Space, step, n)
  <2> HIDE DEF step
  <2> QED
    BY <1>1, <1>2, Iteration
<1>4. Loop(f)
  <2>1. f[0] = Space /\ \A i \in 1 .. n : f[i] = step[i][f[i - 1]]
    BY <1>3 DEF IsIteration
  <2>2. \A i \in 1 .. n : i - 1 \in 0 .. n
    BY <1>1
  <2>3. \A i \in 1 .. n : f[i] = Flipped(line, i, f[i - 1])
    BY <1>3, <2>1, <2>2
  <2>4. \A i \in 0 .. n : i = 0 \/ i \in 1 .. n
    BY <1>1
  <2> QED
    BY <1>3, <2>1, <2>3, <2>4
<1>5. Loop(OpenQuote(line))
  <2> DEFINE O == CHOOSE g : Loop(g)
  <2>1. \E g : Loop(g)
    BY <1>4
  <2>2. OpenQuote(line) = O
    BY DEF OpenQuote, Flipped, n, Space, Backslash
  <2> HIDE DEF Loop
  <2> QED
    BY <2>1, <2>2
<1> QED
  BY <1>1, <1>5 DEF n

\* Between two quotes of another kind, or outside of quotes, what is open
\* stays so.
LEMMA QuoteStays ==
  ASSUME NEW Character, Space \in Character, NEW line \in Seq(Character),
         NEW a \in 0 .. Len(line), NEW b \in a .. Len(line),
         NEW open, OpenQuote(line)[a] = open,
         \A i \in a + 1 .. b :
           line[i] \notin QuoteMark \/ (open # Space /\ line[i] # open)
  PROVE  \A i \in a .. b : OpenQuote(line)[i] = open
<1> DEFINE O == OpenQuote(line)
           S == {m \in Nat : m <= b - a => O[a + m] = open}
<1>1. /\ a \in Nat /\ b \in Nat /\ a <= b /\ b <= Len(line)
      /\ Len(line) \in Nat
  OBVIOUS
<1>2. \A i \in 1 .. Len(line) : O[i] = Flipped(line, i, O[i - 1])
  BY OpenQuoteIsDefined
<1> HIDE DEF O
<1>3. 0 \in S
  BY <1>1 DEF O
<1>4. ASSUME NEW m \in Nat, m \in S
      PROVE  m + 1 \in S
  <2>1. SUFFICES ASSUME m + 1 <= b - a
                 PROVE  O[a + (m + 1)] = open
    OBVIOUS
  <2> DEFINE i == a + (m + 1)
  <2>2. i \in 1 .. Len(line) /\ i \in a + 1 .. b /\ i - 1 = a + m
    BY <1>1, <2>1
  <2>3. O[i - 1] = open
    BY <1>4, <2>1, <2>2
  <2> HIDE DEF i
  <2>4. O[i] = Flipped(line, i, open)
    BY <1>2, <2>2, <2>3
  <2>5. line[i] \notin QuoteMark \/ (open # Space /\ line[i] # open)
    BY <2>2
  <2>6. O[i] = open
    BY <2>4, <2>5 DEF Flipped
  <2> QED
    BY <2>6 DEF i
<1>5. \A m \in Nat : m \in S
  <2> HIDE DEF S
  <2> QED
    BY <1>3, <1>4, SetInduction
<1>6. ASSUME NEW i \in a .. b
      PROVE  O[i] = open
  <2>1. i - a \in Nat /\ i - a <= b - a /\ a + (i - a) = i
    BY <1>1
  <2>2. i - a \in S
    BY <1>5, <2>1
  <2>3. O[a + (i - a)] = open
    BY <2>1, <2>2
  <2> QED
    BY <2>1, <2>3
<1> QED
  BY <1>6 DEF O

-----------------------------------------------------------------------------
\* text is a and then b.
IsJoined(text, a, b) ==
  /\ Len(text) = Len(a) + Len(b)
  /\ \A i \in 1 .. Len(a) : text[i] = a[i]
  /\ \A i \in 1 .. Len(b) : text[Len(a) + i] = b[i]

LEMMA Joined ==
  ASSUME NEW Character, NEW a \in Seq(Character), NEW b \in Seq(Character)
  PROVE  a \o b \in Seq(Character) /\ IsJoined(a \o b, a, b)
  BY DEF IsJoined

Marks == {Space, Colon, Hash} \cup QuoteMark

\* Where the parts of a line are: the key, the value and the quotes around it.
Layout(line, l) ==
  LET k == Len(l.key)
      v == Len(l.value)
      q == IF l.quote = "" THEN 0 ELSE 1
      e == k + 4 + 2 * q + v
  IN /\ Len(line) \in Nat
     /\ Len(line) >= e /\ (~l.comment => Len(line) = e)
     /\ line[1] = Space /\ line[k + 2] = Space
     /\ line[k + 3] = Colon /\ line[k + 4] = Space
     /\ \A i \in 1 .. k : line[1 + i] = l.key[i]
     /\ q = 1 => line[k + 5] = l.quote /\ line[e] = l.quote
     /\ \A i \in 1 .. v : line[k + 4 + q + i] = l.value[i]
     /\ l.comment => /\ Len(line) >= e + 2
                     /\ line[e + 1] = Space /\ line[e + 2] = Hash

LEMMA LineLayout ==
  ASSUME NEW Character, Marks \subseteq Character, NEW l \in LineOf(Character)
  PROVE  LineText(l) \in Seq(Character) /\ Layout(LineText(l), l)
<1> DEFINE Text == Seq(Character)
           key == l.key
           value == l.value
           k == Len(key)
           v == Len(value)
           q == IF l.quote = "" THEN 0 ELSE 1
           e == k + 4 + 2 * q + v
           first == <<Space>>
           middle == <<Space, Colon, Space>>
           mark == Quote(l.quote)
           comment == IF l.comment THEN <<Space, Hash, "'", Colon>> ELSE <<>>
           a == first \o key
           b == a \o middle
           c == b \o mark
           d == c \o value
           f == d \o mark
           line == f \o comment
<1>1. LineText(l) = line
  BY DEF LineText, Space, Colon, Hash
<1>2. /\ key \in Text /\ value \in Text /\ k \in Nat /\ v \in Nat
      /\ l.comment \in BOOLEAN
  <2>1. key \in Text /\ value \in Text /\ l.comment \in BOOLEAN
    <3> HIDE DEF Text
    <3> QED
      BY DEF LineOf, Text
  <2> HIDE DEF key, value
  <2> QED
    BY <2>1
<1>3. first \in Text /\ Len(first) = 1 /\ first[1] = Space
  BY DEF Marks
<1>4. /\ middle \in Text /\ Len(middle) = 3 /\ middle[1] = Space
      /\ middle[2] = Colon /\ middle[3] = Space
  BY DEF Marks
<1>5. /\ q \in {0, 1} /\ mark \in Text /\ Len(mark) = q
      /\ q = 1 => mark[1] = l.quote
  <2>1. l.quote = "" \/ l.quote \in QuoteMark
    BY DEF LineOf, QuoteMark
  <2>2. CASE l.quote = ""
    <3>1. mark = <<>> /\ q = 0
      BY <2>2 DEF Quote
    <3> HIDE DEF mark, q
    <3> QED
      BY <3>1
  <2>3. CASE l.quote # ""
    <3> DEFINE x == l.quote
    <3>1. mark = <<x>> /\ q = 1 /\ x \in Character
      BY <2>1, <2>3 DEF Quote, Marks
    <3> HIDE DEF mark, q, x
    <3>2. mark \in Text /\ Len(mark) = q /\ mark[1] = x
      BY <3>1
    <3> QED
      BY <3>1, <3>2 DEF x
  <2> QED
    BY <2>2, <2>3
<1>6. /\ comment \in Text
      /\ ~l.comment => Len(comment) = 0
      /\ l.comment => /\ Len(comment) = 4
                      /\ comment[1] = Space /\ comment[2] = Hash
  <2> DEFINE single == "'"
  <2>1. Space \in Character /\ Hash \in Character /\ Colon \in Character
        /\ single \in Character
    BY DEF Marks, QuoteMark
  <2> HIDE DEF single
  <2>2. l.comment \in BOOLEAN
    BY <1>2
  <2>3. comment = IF l.comment THEN <<Space, Hash, single, Colon>> ELSE <<>>
    BY DEF single
  <2> HIDE DEF comment
  <2> QED
    BY <2>1, <2>2, <2>3
<1> HIDE DEF first, middle, mark, comment, key, value, k, v, q, e
<1>7. /\ a \in Text /\ Len(a) = 1 + k
      /\ a[1] = Space /\ \A i \in 1 .. k : a[1 + i] = key[i]
  <2>1. a \in Text /\ IsJoined(a, first, key)
    BY <1>2, <1>3, Joined
  <2> USE DEF IsJoined
  <2> HIDE DEF a
  <2> QED
    BY <1>3, <2>1 DEF k
<1> HIDE DEF a
<1>8. /\ b \in Text /\ Len(b) = k + 4
      /\ \A i \in 1 .. 1 + k : b[i] = a[i]
      /\ b[k + 2] = Space /\ b[k + 3] = Colon /\ b[k + 4] = Space
  <2>1. b \in Text /\ IsJoined(b, a, middle)
    BY <1>4, <1>7, Joined
  <2> USE DEF IsJoined
  <2> HIDE DEF b
  <2>2. /\ 1 \in 1 .. Len(middle) /\ 2 \in 1 .. Len(middle)
        /\ 3 \in 1 .. Len(middle)
        /\ Len(a) + 1 = k + 2 /\ Len(a) + 2 = k + 3 /\ Len(a) + 3 = k + 4
    BY <1>2, <1>4, <1>7
  <2>3. /\ b[Len(a) + 1] = middle[1] /\ b[Len(a) + 2] = middle[2]
        /\ b[Len(a) + 3] = middle[3]
    BY <2>1, <2>2
  <2> QED
    BY <1>2, <1>4, <1>7, <2>1, <2>2, <2>3
<1> HIDE DEF b
<1>9. /\ c \in Text /\ Len(c) = k + 4 + q
      /\ \A i \in 1 .. k + 4 : c[i] = b[i]
      /\ q = 1 => c[k + 5] = l.quote
  <2>1. c \in Text /\ IsJoined(c, b, mark)
    BY <1>5, <1>8, Joined
  <2> USE DEF IsJoined
  <2> HIDE DEF c
  <2>2. ASSUME q = 1
        PROVE  c[k + 5] = l.quote
    <3>1. 1 \in 1 .. Len(mark) /\ Len(b) + 1 = k + 5
      BY <1>2, <1>5, <1>8, <2>2
    <3> QED
      BY <1>5, <2>1, <2>2, <3>1
  <2> QED
    BY <1>5, <1>8, <2>1, <2>2
<1> HIDE DEF c
<1>10. /\ d \in Text /\ Len(d) = k + 4 + q + v
       /\ \A i \in 1 .. k + 4 + q : d[i] = c[i]
       /\ \A i \in 1 .. v : d[k + 4 + q + i] = value[i]
  <2>1. d \in Text /\ IsJoined(d, c, value)
    BY <1>2, <1>9, Joined
  <2> USE DEF IsJoined
  <2> HIDE DEF d
  <2> QED
    BY <1>9, <2>1 DEF v
<1> HIDE DEF d
<1>11. /\ f \in Text /\ Len(f) = e
       /\ \A i \in 1 .. k + 4 + q + v : f[i] = d[i]
       /\ q = 1 => f[e] = l.quote
  <2>1. f \in Text /\ IsJoined(f, d, mark)
    BY <1>5, <1>10, Joined
  <2> USE DEF IsJoined
  <2> HIDE DEF f
  <2>2. ASSUME q = 1
        PROVE  f[e] = l.quote
    <3>1. 1 \in 1 .. Len(mark) /\ Len(d) + 1 = e
      BY <1>2, <1>5, <1>10, <2>2 DEF e
    <3> QED
      BY <1>5, <2>1, <2>2, <3>1
  <2>3. Len(f) = e
    BY <1>2, <1>5, <1>10, <2>1 DEF e
  <2> QED
    BY <1>5, <1>10, <2>1, <2>2, <2>3
<1> HIDE DEF f
<1>12. /\ line \in Text /\ Len(line) = e + Len(comment)
       /\ \A i \in 1 .. e : line[i] = f[i]
       /\ \A i \in 1 .. Len(comment) : line[e + i] = comment[i]
  <2>1. line \in Text /\ IsJoined(line, f, comment)
    BY <1>6, <1>11, Joined
  <2> USE DEF IsJoined
  <2> HIDE DEF line
  <2> QED
    BY <1>11, <2>1
<1> HIDE DEF line
<1>13. \A i \in 1 .. k + 4 : line[i] = b[i]
  <2> SUFFICES ASSUME NEW i \in 1 .. k + 4
               PROVE  line[i] = b[i]
    OBVIOUS
  <2>1. i \in 1 .. e /\ i \in 1 .. k + 4 + q + v /\ i \in 1 .. k + 4 + q
    BY <1>2, <1>5 DEF e
  <2> QED
    BY <2>1, <1>9, <1>10, <1>11, <1>12
<1>14. /\ line[1] = Space /\ \A i \in 1 .. k : line[1 + i] = key[i]
       /\ line[k + 2] = Space /\ line[k + 3] = Colon /\ line[k + 4] = Space
  <2>1. /\ 1 \in 1 .. k + 4 /\ k + 2 \in 1 .. k + 4 /\ k + 3 \in 1 .. k + 4
        /\ k + 4 \in 1 .. k + 4 /\ 1 \in 1 .. 1 + k
        /\ \A i \in 1 .. k : 1 + i \in 1 .. k + 4 /\ 1 + i \in 1 .. 1 + k
    BY <1>2
  <2> QED
    BY <2>1, <1>7, <1>8, <1>13
<1>15. ASSUME q = 1
       PROVE  line[k + 5] = l.quote /\ line[e] = l.quote
  <2>1. /\ k + 5 \in 1 .. e /\ k + 5 \in 1 .. k + 4 + q + v
        /\ k + 5 \in 1 .. k + 4 + q /\ e \in 1 .. e
    BY <1>2, <1>15 DEF e
  <2> QED
    BY <2>1, <1>9, <1>10, <1>11, <1>12, <1>15
<1>16. \A i \in 1 .. v : line[k + 4 + q + i] = value[i]
  <2> SUFFICES ASSUME NEW i \in 1 .. v
               PROVE  line[k + 4 + q + i] = value[i]
    OBVIOUS
  <2>1. k + 4 + q + i \in 1 .. e /\ k + 4 + q + i \in 1 .. k + 4 + q + v
    BY <1>2, <1>5 DEF e
  <2> QED
    BY <2>1, <1>10, <1>11, <1>12
<1>17. ASSUME l.comment
       PROVE  line[e + 1] = Space /\ line[e + 2] = Hash
  <2>1. 1 \in 1 .. Len(comment) /\ 2 \in 1 .. Len(comment)
    BY <1>6, <1>17
  <2> QED
    BY <2>1, <1>6, <1>12, <1>17
<1>18. /\ Len(line) \in Nat /\ Len(line) >= e
       /\ ~l.comment => Len(line) = e
       /\ l.comment => Len(line) >= e + 2
  <2>1. e \in Nat
    BY <1>2, <1>5 DEF e
  <2>2. CASE l.comment
    BY <1>6, <1>12, <2>1, <2>2
  <2>3. CASE ~l.comment
    BY <1>6, <1>12, <2>1, <2>3
  <2> QED
    BY <2>2, <2>3
<1> QED
  BY <1>1, <1>12, <1>14, <1>15, <1>16, <1>17, <1>18
     DEF Layout, key, value, k, v, q, e

\* What an operator may write, by positions.
Parts(l, q) ==
  LET k == Len(l.key)
      v == Len(l.value)
  IN /\ k \in Nat /\ k > 0 /\ v \in Nat
     /\ l.key[1] # Space /\ l.key[k] # Space
     /\ \A i \in 1 .. k : l.key[i] \notin {Hash, Colon} \cup QuoteMark
     /\ q = 0 => /\ \A i \in 1 .. v : l.value[i] \notin {Hash} \cup QuoteMark
                 /\ v > 0 => l.value[1] # Space /\ l.value[v] # Space
     /\ q = 1 => /\ l.quote \in QuoteMark
                 /\ \A i \in 1 .. v : l.value[i] # l.quote
                 /\ v > 0 => l.value[v] # Backslash

LEMMA WritableParts ==
  ASSUME NEW Character, NEW l \in LineOf(Character), Writable(l)
  PROVE  Parts(l, IF l.quote = "" THEN 0 ELSE 1)
<1> DEFINE Text == Seq(Character)
           key == l.key
           value == l.value
           k == Len(key)
           v == Len(value)
<1>1. key \in Text /\ value \in Text
  <2> HIDE DEF Text
  <2> QED
    BY DEF LineOf, Text
<1>2. l.quote = "" \/ l.quote \in QuoteMark
  BY DEF LineOf, QuoteMark
<1>3. /\ key # <<>> /\ key = Trim(key)
      /\ \A i \in DOMAIN key : key[i] \notin {Hash, Colon} \cup QuoteMark
  BY DEF Writable, Hash, Colon
<1>4. l.quote = "" =>
        /\ value = Trim(value)
        /\ \A i \in DOMAIN value : value[i] \notin {Hash} \cup QuoteMark
  BY DEF Writable, Hash
<1>5. l.quote # "" =>
        /\ \A i \in DOMAIN value : value[i] # l.quote
        /\ value # <<>> => Last(value) # Backslash
  BY DEF Writable, Backslash
<1> HIDE DEF key, value
<1>6. /\ k \in Nat /\ DOMAIN key = 1 .. k
      /\ v \in Nat /\ DOMAIN value = 1 .. v /\ (v > 0 => value # <<>>)
      /\ Last(value) = value[v]
  BY <1>1 DEF Last
<1>7. k > 0 /\ key[1] # Space /\ key[k] # Space
  BY <1>1, <1>3, TrimmedEnds
<1>8. ASSUME l.quote = "", v > 0
      PROVE  value[1] # Space /\ value[v] # Space
  BY <1>1, <1>4, <1>6, <1>8, TrimmedEnds
<1> HIDE DEF k, v
<1> DEFINE q == IF l.quote = "" THEN 0 ELSE 1
<1>9. (q = 0 => l.quote = "") /\ (q = 1 => l.quote # "")
  <2>1. l.quote = "" => q = 0
    OBVIOUS
  <2>2. l.quote # "" => q = 1
    OBVIOUS
  <2> HIDE DEF q
  <2>3. q = 0 => q # 1
    OBVIOUS
  <2> QED
    BY <2>1, <2>2, <2>3
<1> HIDE DEF q
<1>10. Parts(l, q)
  BY <1>2, <1>3, <1>4, <1>5, <1>6, <1>7, <1>8, <1>9 DEF Parts, key, value, k, v
<1> QED
  BY <1>10 DEF q

\* Outside of the value's quotes none is open, up to where it ends, so that a
\* comment sign before that is in quotes.
LEMMA QuotesOfLine ==
  ASSUME NEW Character, Marks \subseteq Character, NEW l \in LineOf(Character),
         Writable(l)
  PROVE  LET line == LineText(l)
             q    == IF l.quote = "" THEN 0 ELSE 1
             e    == Len(l.key) + 4 + 2 * q + Len(l.value)
         IN /\ OpenQuote(line)[e] = Space
            /\ \A i \in 1 .. e : line[i] = Hash => OpenQuote(line)[i - 1] # Space
<1> DEFINE line == LineText(l)
           O == OpenQuote(line)
           key == l.key
           value == l.value
           k == Len(key)
           v == Len(value)
           q == IF l.quote = "" THEN 0 ELSE 1
           e == k + 4 + 2 * q + v
<1>1. line \in Seq(Character) /\ Layout(line, l)
  BY LineLayout
<1>2. Parts(l, q)
  BY WritableParts
<1>3. Space \in Character
  BY DEF Marks
<1>4. q \in {0, 1}
  OBVIOUS
<1>5. /\ Len(line) \in Nat /\ Len(line) >= e
      /\ line[1] = Space /\ line[k + 2] = Space
      /\ line[k + 3] = Colon /\ line[k + 4] = Space
      /\ \A i \in 1 .. k : line[1 + i] = key[i]
      /\ q = 1 => line[k + 5] = l.quote /\ line[e] = l.quote
      /\ \A i \in 1 .. v : line[k + 4 + q + i] = value[i]
  BY <1>1 DEF Layout
<1>6. /\ k \in Nat /\ v \in Nat
      /\ \A i \in 1 .. k : key[i] \notin {Hash, Colon} \cup QuoteMark
      /\ q = 0 => \A i \in 1 .. v : value[i] \notin {Hash} \cup QuoteMark
      /\ q = 1 => /\ l.quote \in QuoteMark
                  /\ \A i \in 1 .. v : value[i] # l.quote
                  /\ v > 0 => value[v] # Backslash
  BY <1>2 DEF Parts
<1> HIDE DEF line, O, key, value, k, v, q
<1>7. O[0] = Space /\ \A i \in 1 .. Len(line) : O[i] = Flipped(line, i, O[i - 1])
  BY <1>1, <1>3, OpenQuoteIsDefined DEF O
<1>8. /\ \A i \in 1 .. k + 4 : line[i] \notin {Hash} \cup QuoteMark
      /\ line[k + 4] # Backslash
  <2> SUFFICES ASSUME NEW i \in 1 .. k + 4
               PROVE  line[i] \notin {Hash} \cup QuoteMark
    BY <1>5, MarksDiffer
  <2>1. i = 1 \/ i = k + 2 \/ i = k + 3 \/ i = k + 4 \/ i - 1 \in 1 .. k
    BY <1>6
  <2>2. CASE i - 1 \in 1 .. k
    <3>1. line[1 + (i - 1)] = key[i - 1] /\ 1 + (i - 1) = i
      BY <1>5, <2>2
    <3> QED
      BY <1>6, <2>2, <3>1
  <2> QED
    BY <1>5, <2>1, <2>2, MarksDiffer
<1>9. /\ e \in Nat /\ e <= Len(line) /\ k + 4 <= e
      /\ k \in Nat /\ v \in Nat /\ Len(line) \in Nat
  BY <1>4, <1>5, <1>6
<1>10. \A i \in 0 .. k + 4 : O[i] = Space
  <2>1. 0 \in 0 .. Len(line) /\ k + 4 \in 0 .. Len(line)
    BY <1>5, <1>6, <1>9
  <2>2. \A i \in 0 + 1 .. k + 4 : line[i] \notin QuoteMark
    BY <1>8
  <2> HIDE DEF e
  <2> QED
    BY <1>1, <1>3, <1>7, <2>1, <2>2, QuoteStays DEF O
<1>11. CASE q = 0
  <2>1. \A i \in k + 5 .. e : line[i] \notin {Hash} \cup QuoteMark
    <3> SUFFICES ASSUME NEW i \in k + 5 .. e
                 PROVE  line[i] \notin {Hash} \cup QuoteMark
      OBVIOUS
    <3> DEFINE j == i - (k + 4)
    <3>1. j \in 1 .. v /\ i = k + 4 + q + j
      BY <1>6, <1>11
    <3> HIDE DEF j
    <3> QED
      BY <1>5, <1>6, <1>11, <3>1
  <2>2. \A i \in 1 .. e : line[i] \notin {Hash} \cup QuoteMark
    <3>1. \A i \in 1 .. e : i \in 1 .. k + 4 \/ i \in k + 5 .. e
      BY <1>6, <1>9
    <3> QED
      BY <1>8, <2>1, <3>1
  <2>3. 0 \in 0 .. Len(line) /\ e \in 0 .. Len(line)
    BY <1>5, <1>9
  <2>4. \A i \in 0 + 1 .. e : line[i] \notin QuoteMark
    BY <2>2
  <2> HIDE DEF e
  <2>5. \A i \in 0 .. e : O[i] = Space
    BY <1>1, <1>3, <1>7, <2>3, <2>4, QuoteStays DEF O
  <2>6. O[e] = Space
    BY <1>9, <2>5
  <2> QED
    BY <2>2, <2>6 DEF line, O, key, value, k, v, q, e
<1>12. CASE q = 1
  <2> DEFINE a == k + 5
  <2>1. /\ a \in 0 .. Len(line) /\ e - 1 \in a .. Len(line)
        /\ a \in 1 .. Len(line) /\ e \in 1 .. Len(line)
        /\ a - 1 = k + 4 /\ a # 1 /\ e # 1 /\ a \in Nat
    <3>1. e = k + v + 6
      BY <1>9, <1>12
    <3> HIDE DEF e
    <3> QED
      BY <1>9, <3>1
  <2>2. line[a] = l.quote /\ line[e] = l.quote /\ l.quote \in QuoteMark
    BY <1>5, <1>6, <1>12
  <2>3. O[a] = l.quote
    <3>1. O[a - 1] = Space /\ line[a - 1] # Backslash
      BY <1>6, <1>8, <1>10, <2>1
    <3> HIDE DEF a, e
    <3>2. O[a] = Flipped(line, a, Space)
      BY <1>7, <2>1, <3>1
    <3> QED
      BY <2>1, <2>2, <3>1, <3>2 DEF Flipped
  <2>4. \A i \in a + 1 .. e - 1 : line[i] # l.quote
    <3> SUFFICES ASSUME NEW i \in a + 1 .. e - 1
                 PROVE  line[i] # l.quote
      OBVIOUS
    <3> DEFINE j == i - (k + 5)
    <3>1. j \in 1 .. v /\ i = k + 4 + q + j
      BY <1>6, <1>12
    <3> HIDE DEF j
    <3> QED
      BY <1>5, <1>6, <1>12, <3>1
  <2>5. l.quote # Space /\ l.quote # Backslash /\ l.quote # Hash
    BY <2>2, MarksDiffer
  <2>6. line[e - 1] # Backslash
    <3>1. CASE v = 0
      <4>1. e - 1 = a
        BY <1>6, <1>12, <3>1
      <4> QED
        BY <2>2, <2>5, <4>1
    <3>2. CASE v > 0
      <4>1. v \in 1 .. v /\ e - 1 = k + 4 + q + v
        BY <1>6, <1>12, <3>2
      <4>2. line[e - 1] = value[v]
        BY <1>5, <4>1
      <4> QED
        BY <1>6, <1>12, <3>2, <4>2
    <3> QED
      BY <1>6, <3>1, <3>2
  <2> HIDE DEF a, e
  <2>7. \A i \in a .. e - 1 : O[i] = l.quote
    <3>1. a \in 0 .. Len(line) /\ e - 1 \in a .. Len(line)
      BY <2>1
    <3>2. \A i \in a + 1 .. e - 1 :
            line[i] \notin QuoteMark \/ (l.quote # Space /\ line[i] # l.quote)
      BY <2>4, <2>5
    <3>3. line \in Seq(Character) /\ OpenQuote(line)[a] = l.quote
      BY <1>1, <2>3 DEF O
    <3>4. \A i \in a .. e - 1 : OpenQuote(line)[i] = l.quote
      BY <1>3, <3>1, <3>2, <3>3, QuoteStays
    <3> QED
      BY <3>4 DEF O
  <2>8. O[e] = Space
    <3>1. O[e - 1] = l.quote
      BY <1>9, <2>1, <2>7
    <3>2. O[e] = Flipped(line, e, l.quote)
      BY <1>7, <2>1, <3>1
    <3> QED
      BY <2>1, <2>2, <2>5, <2>6, <3>2 DEF Flipped
  <2>9. ASSUME NEW i \in 1 .. e, line[i] = Hash
        PROVE  O[i - 1] # Space
    <3>1. i \notin 1 .. k + 4
      BY <1>8, <2>9
    <3>2. i # a /\ i # e
      BY <2>2, <2>5, <2>9
    <3>3. i - 1 \in a .. e - 1
      BY <1>6, <1>9, <2>1, <3>1, <3>2
    <3> QED
      BY <2>5, <2>7, <3>3
  <2> QED
    BY <2>8, <2>9 DEF line, O, key, value, k, v, q, e
<1> QED
  BY <1>4, <1>11, <1>12

\* Spaces and comments around the key and the value are taken off.
LEMMA TextOfLine ==
  ASSUME NEW Character, Marks \subseteq Character, NEW l \in LineOf(Character),
         Writable(l)
  PROVE  LET line == LineText(l)
             k    == Len(l.key)
             v    == Len(l.value)
             q    == IF l.quote = "" THEN 0 ELSE 1
             z    == IF q + v = 0 THEN k + 3 ELSE k + 4 + 2 * q + v
         IN /\ z \in 3 .. Len(line)
            /\ Trim(StripComment(line)) = SubSeq(line, 2, z)
<1> DEFINE line == LineText(l)
           O == OpenQuote(line)
           key == l.key
           value == l.value
           k == Len(key)
           v == Len(value)
           q == IF l.quote = "" THEN 0 ELSE 1
           e == k + 4 + 2 * q + v
           z == IF q + v = 0 THEN k + 3 ELSE e
<1>1. line \in Seq(Character) /\ Layout(line, l)
  BY LineLayout
<1>2. Parts(l, q)
  BY WritableParts
<1>3. Space \in Character
  BY DEF Marks
<1>4. q \in {0, 1}
  OBVIOUS
<1>5. /\ Len(line) \in Nat /\ Len(line) >= e
      /\ ~l.comment => Len(line) = e
      /\ line[1] = Space /\ line[k + 2] = Space
      /\ line[k + 3] = Colon /\ line[k + 4] = Space
      /\ \A i \in 1 .. k : line[1 + i] = key[i]
      /\ q = 1 => line[e] = l.quote
      /\ \A i \in 1 .. v : line[k + 4 + q + i] = value[i]
      /\ l.comment => /\ Len(line) >= e + 2
                      /\ line[e + 1] = Space /\ line[e + 2] = Hash
  BY <1>1 DEF Layout
<1>6. /\ k \in Nat /\ k > 0 /\ v \in Nat /\ key[1] # Space
      /\ q = 0 /\ v > 0 => value[v] # Space
      /\ q = 1 => l.quote \in QuoteMark
  BY <1>2 DEF Parts
<1>7. /\ O[e] = Space
      /\ \A i \in 1 .. e : line[i] = Hash => O[i - 1] # Space
  BY QuotesOfLine
<1> HIDE DEF key, value, k, v, q
<1>8. l.comment => O[e + 1] = Space
  <2> SUFFICES ASSUME l.comment
               PROVE  O[e + 1] = Space
    OBVIOUS
  <2>1. e + 1 \in 1 .. Len(line) /\ (e + 1) - 1 = e
    BY <1>4, <1>5, <1>6
  <2>2. O[e + 1] = Flipped(line, e + 1, O[(e + 1) - 1])
    BY <1>1, <1>3, <2>1, OpenQuoteIsDefined DEF O
  <2> HIDE DEF line, O, e
  <2>3. O[e + 1] = Flipped(line, e + 1, Space)
    BY <1>7, <2>1, <2>2
  <2>4. line[e + 1] = Space /\ Space \notin QuoteMark
    BY <1>5, MarksDiffer
  <2> QED
    BY <2>3, <2>4 DEF Flipped
<1> HIDE DEF line, O
<1>9. /\ e \in Nat /\ z \in 3 .. e /\ e <= Len(line)
      /\ k + 3 <= z /\ (z = e \/ (z = k + 3 /\ e = k + 4))
  BY <1>4, <1>5, <1>6
<1>10. /\ line[2] # Space /\ line[z] # Space
       /\ \A i \in z + 1 .. e : line[i] = Space
  <2>1. line[2] # Space
    <3>1. 1 \in 1 .. k /\ 1 + 1 = 2
      BY <1>6
    <3> QED
      BY <1>5, <1>6, <3>1
  <2>2. CASE q + v = 0
    <3>1. z = k + 3 /\ e = k + 4
      BY <1>4, <1>6, <2>2
    <3>2. \A i \in z + 1 .. e : i = k + 4
      BY <1>6, <3>1
    <3> HIDE DEF z, e
    <3> QED
      BY <1>5, <2>1, <3>1, <3>2, MarksDiffer
  <2>3. CASE q = 1
    <3>1. z = e
      BY <1>6, <2>3
    <3>2. \A i \in z + 1 .. e : FALSE
      BY <1>9, <3>1
    <3> HIDE DEF z, e
    <3> QED
      BY <1>5, <1>6, <2>1, <2>3, <3>1, <3>2, MarksDiffer
  <2>4. CASE q = 0 /\ v > 0
    <3>1. z = e /\ e = k + 4 + q + v /\ v \in 1 .. v
      BY <1>6, <2>4
    <3>2. \A i \in z + 1 .. e : FALSE
      BY <1>9, <3>1
    <3> HIDE DEF z, e
    <3>3. line[e] = value[v]
      BY <1>5, <3>1
    <3> QED
      BY <1>6, <2>1, <2>4, <3>1, <3>2, <3>3
  <2> QED
    BY <1>4, <1>6, <2>2, <2>3, <2>4
<1> HIDE DEF e, z
<1> DEFINE hashes == {i \in DOMAIN line : line[i] = Hash /\ O[i - 1] = Space}
           cut == StripComment(line)
           c == IF l.comment THEN e + 1 ELSE e
<1>11. cut = IF hashes = {} THEN line ELSE SubSeq(line, 1, Least(hashes) - 1)
  BY DEF StripComment, Hash, Space, O
<1>12. /\ cut \in Seq(Character) /\ Len(cut) = c
       /\ \A i \in 1 .. c : cut[i] = line[i]
       /\ c = e \/ (c = e + 1 /\ line[e + 1] = Space)
  <2> HIDE DEF cut
  <2>1. DOMAIN line = 1 .. Len(line)
    BY <1>1
  <2>2. CASE l.comment
    <3>1. e + 2 \in hashes
      <4>1. e + 2 \in 1 .. Len(line) /\ (e + 2) - 1 = e + 1
        BY <1>5, <1>9, <2>2
      <4> QED
        BY <1>5, <1>7, <1>8, <2>1, <2>2, <4>1 DEF O
    <3>2. \A i \in hashes : i \in Int /\ e + 2 <= i
      <4> SUFFICES ASSUME NEW i \in hashes
                   PROVE  i \in Int /\ e + 2 <= i
        OBVIOUS
      <4>1. i \in 1 .. Len(line) /\ line[i] = Hash /\ O[i - 1] = Space
        BY <2>1
      <4>2. i \notin 1 .. e
        BY <1>7, <4>1
      <4>3. i # e + 1
        BY <1>5, <2>2, <4>1, MarksDiffer
      <4> QED
        BY <1>5, <1>9, <4>1, <4>2, <4>3
    <3> HIDE DEF hashes
    <3>3. Least(hashes) = e + 2
      <4>1. hashes \subseteq Int
        BY <3>2
      <4> QED
        BY <3>1, <3>2, <4>1, LeastIs
    <3>4. cut = SubSeq(line, 1, c)
      <4>1. (e + 2) - 1 = c
        BY <1>9, <2>2
      <4>2. hashes # {}
        BY <3>1
      <4> QED
        BY <1>11, <3>3, <4>1, <4>2
    <3>5. c = e + 1 /\ c \in 1 .. Len(line)
      BY <1>5, <1>9, <2>2
    <3> HIDE DEF c
    <3>6. /\ SubSeq(line, 1, c) \in Seq(Character) /\ Len(SubSeq(line, 1, c)) = c
          /\ \A i \in 1 .. c : SubSeq(line, 1, c)[i] = line[i]
      BY <1>1, <3>5
    <3> QED
      BY <1>5, <2>2, <3>4, <3>5, <3>6
  <2>3. CASE ~l.comment
    <3>1. \A i \in hashes : FALSE
      <4> SUFFICES ASSUME NEW i \in hashes
                   PROVE  FALSE
        OBVIOUS
      <4>1. i \in 1 .. Len(line) /\ line[i] = Hash /\ O[i - 1] = Space
        BY <2>1
      <4>2. i \in 1 .. e
        BY <1>5, <2>3, <4>1
      <4> QED
        BY <1>7, <4>1, <4>2
    <3>2. hashes = {}
      BY <3>1
    <3> HIDE DEF hashes
    <3>3. cut = line /\ c = e /\ Len(line) = e
      BY <1>5, <1>11, <2>3, <3>2
    <3> QED
      BY <1>1, <3>3
  <2>4. l.comment \in BOOLEAN
    BY DEF LineOf
  <2> QED
    BY <2>2, <2>3
<1> HIDE DEF cut, c
<1>13. Trim(cut) = SubSeq(cut, 2, z)
  <2>1. /\ c \in Nat /\ 2 \in 1 .. Len(cut) /\ z \in 2 .. Len(cut)
        /\ z \in 1 .. c /\ 2 \in 1 .. c /\ 1 \in 1 .. c
    BY <1>9, <1>12
  <2>2. cut[2] # Space /\ cut[z] # Space
    BY <1>10, <1>12, <2>1
  <2>3. \A i \in 1 .. 2 - 1 : cut[i] = Space
    <3>1. \A i \in 1 .. 2 - 1 : i = 1
      OBVIOUS
    <3> QED
      BY <1>5, <1>12, <2>1, <3>1
  <2>4. \A i \in z + 1 .. Len(cut) : cut[i] = Space
    <3> SUFFICES ASSUME NEW i \in z + 1 .. Len(cut)
                 PROVE  cut[i] = Space
      OBVIOUS
    <3>1. i \in 1 .. c /\ (i \in z + 1 .. e \/ (i = e + 1 /\ c = e + 1))
      BY <1>9, <1>12, <2>1
    <3>2. c = e + 1 => line[e + 1] = Space
      BY <1>9, <1>12
    <3> QED
      BY <1>10, <1>12, <3>1, <3>2
  <2> QED
    BY <1>12, <2>1, <2>2, <2>3, <2>4, TrimOf
<1>14. SubSeq(cut, 2, z) = SubSeq(line, 2, z)
  <2>1. /\ z \in Nat /\ c \in Nat
        /\ \A i \in 2 .. z : cut[i] = line[i]
    <3>1. \A i \in 2 .. z : i \in 1 .. c
      BY <1>9, <1>12
    <3> QED
      BY <1>9, <1>12, <3>1
  <2> QED
    BY <2>1
<1>15. z \in 3 .. Len(line)
  BY <1>5, <1>9
<1> QED
  BY <1>13, <1>14, <1>15 DEF line, key, value, k, v, q, e, z, cut

\* The value is taken out of its quotes.
LEMMA UnquoteOf ==
  ASSUME NEW Character, "unreadable" \notin Character,
         NEW value \in Seq(Character), NEW mark, NEW text \in Seq(Character),
         \/ /\ text = value
            /\ \A i \in 1 .. Len(value) : value[i] \notin QuoteMark
         \/ /\ mark \in QuoteMark /\ Len(text) = Len(value) + 2
            /\ text[1] = mark /\ text[Len(value) + 2] = mark
            /\ \A i \in 1 .. Len(value) : text[i + 1] = value[i]
  PROVE  Unquote(text) = value
<1> DEFINE v == Len(value)
<1>1. v \in Nat /\ Len(text) \in Nat /\ (text = <<>> <=> Len(text) = 0)
  OBVIOUS
<1>2. /\ text # <<>> => Head(text) = text[1] /\ Last(text) = text[Len(text)]
  BY DEF Last
<1> HIDE DEF v
<1>3. CASE text = value /\ \A i \in 1 .. v : value[i] \notin QuoteMark
  <2>1. CASE text = <<>>
    BY <1>3, <2>1 DEF Unquote
  <2>2. CASE text # <<>>
    <3>1. 1 \in 1 .. v /\ Len(text) \in 1 .. v
      BY <1>1, <1>3, <2>2 DEF v
    <3>2. Head(text) \notin QuoteMark /\ Last(text) \notin QuoteMark
      BY <1>2, <1>3, <2>2, <3>1
    <3>3. {Head(text), Last(text)} \cap QuoteMark = {}
      BY <3>2
    <3> QED
      BY <1>3, <3>3 DEF Unquote
  <2> QED
    BY <2>1, <2>2
<1>4. CASE /\ mark \in QuoteMark /\ Len(text) = v + 2
           /\ text[1] = mark /\ text[v + 2] = mark
           /\ \A i \in 1 .. v : text[i + 1] = value[i]
  <2>1. text # <<>> /\ ~ (Len(text) < 2) /\ Len(text) - 1 = v + 1
    BY <1>1, <1>4
  <2>2. Head(text) = mark /\ Last(text) = mark
    BY <1>2, <1>4, <2>1
  <2>3. {Head(text), Last(text)} \cap QuoteMark # {}
    BY <1>4, <2>2
  <2>4. Unquote(text) = SubSeq(text, 2, v + 1)
    BY <2>1, <2>2, <2>3 DEF Unquote
  <2>5. SubSeq(text, 2, v + 1) = value
    <3>1. /\ SubSeq(text, 2, v + 1) \in Seq(Character)
          /\ Len(SubSeq(text, 2, v + 1)) = v
          /\ \A i \in 1 .. v : SubSeq(text, 2, v + 1)[i] = text[i + 1]
      BY <1>1, <1>4
    <3> DEFINE inner == SubSeq(text, 2, v + 1)
    <3> HIDE DEF inner
    <3>2. /\ inner \in Seq(Character) /\ Len(inner) = Len(value)
          /\ \A i \in 1 .. Len(value) : inner[i] = value[i]
      BY <1>4, <3>1 DEF inner, v
    <3>3. inner = value
      BY <3>2
    <3> QED
      BY <3>3 DEF inner
  <2> QED
    BY <2>4, <2>5
<1> QED
  BY <1>3, <1>4 DEF v

\* A line is read as what is written in it.
LEMMA EntryOfLine ==
  ASSUME NEW Character, Marks \subseteq Character,
         "unreadable" \notin Character,
         NEW l \in LineOf(Character), Writable(l)
  PROVE  Entry(LineText(l)) = [key |-> l.key, value |-> l.value]
<1> DEFINE line == LineText(l)
           key == l.key
           value == l.value
           k == Len(key)
           v == Len(value)
           q == IF l.quote = "" THEN 0 ELSE 1
           z == IF q + v = 0 THEN k + 3 ELSE k + 4 + 2 * q + v
           text == Trim(StripComment(line))
           colons == {i \in DOMAIN text : text[i] = Colon}
           left == SubSeq(text, 1, Least(colons) - 1)
           right == SubSeq(text, Least(colons) + 1, Len(text))
           K == Trim(left)
           V == Unquote(Trim(right))
<1>1. line \in Seq(Character) /\ Layout(line, l)
  BY LineLayout
<1>2. Parts(l, q)
  BY WritableParts
<1>3. /\ key \in Seq(Character) /\ value \in Seq(Character)
  <2> DEFINE Text == Seq(Character)
  <2> HIDE DEF Text
  <2> QED
    BY DEF LineOf, Text
<1>4. q \in {0, 1}
  OBVIOUS
<1>5. /\ Len(line) \in Nat /\ line[k + 2] = Space
      /\ line[k + 3] = Colon /\ line[k + 4] = Space
      /\ \A i \in 1 .. k : line[1 + i] = key[i]
      /\ q = 1 => /\ line[k + 5] = l.quote
                  /\ line[k + 4 + 2 * q + v] = l.quote
      /\ \A i \in 1 .. v : line[k + 4 + q + i] = value[i]
  BY <1>1 DEF Layout
<1>6. /\ k \in Nat /\ k > 0 /\ v \in Nat
      /\ key[1] # Space /\ key[k] # Space
      /\ \A i \in 1 .. k : key[i] \notin {Hash, Colon} \cup QuoteMark
      /\ q = 0 => /\ \A i \in 1 .. v : value[i] \notin {Hash} \cup QuoteMark
                  /\ v > 0 => value[1] # Space /\ value[v] # Space
      /\ q = 1 => l.quote \in QuoteMark
  BY <1>2 DEF Parts
<1>7. z \in 3 .. Len(line) /\ text = SubSeq(line, 2, z)
  BY TextOfLine
<1>8. Entry(line) =
        IF text = <<>> THEN Blank
        ELSE IF colons = {} \/ K = <<>> \/ V = Unreadable THEN BadEntry
        ELSE [key |-> K, value |-> V]
  BY DEF Entry, Colon
<1> HIDE DEF line, key, value, k, v, q, z, text
<1>9. /\ z \in Nat /\ z >= k + 3
      /\ q + v = 0 => z = k + 3
      /\ q + v # 0 => z = k + 4 + 2 * q + v
  BY <1>4, <1>6 DEF z
<1>10. /\ text \in Seq(Character) /\ Len(text) = z - 1
       /\ \A i \in 1 .. z - 1 : text[i] = line[i + 1]
  BY <1>1, <1>7, <1>9
<1>11. /\ \A i \in 1 .. k : text[i] = key[i]
       /\ text[k + 1] = Space /\ text[k + 2] = Colon
  <2>1. \A i \in 1 .. k : text[i] = key[i]
    <3> SUFFICES ASSUME NEW i \in 1 .. k
                 PROVE  text[i] = key[i]
      OBVIOUS
    <3>1. i \in 1 .. z - 1 /\ i + 1 = 1 + i
      BY <1>6, <1>9
    <3> QED
      BY <1>5, <1>10, <3>1
  <2>2. /\ k + 1 \in 1 .. z - 1 /\ k + 2 \in 1 .. z - 1
        /\ (k + 1) + 1 = k + 2 /\ (k + 2) + 1 = k + 3
    BY <1>6, <1>9
  <2> QED
    BY <1>5, <1>10, <2>1, <2>2
<1>12. colons # {} /\ Least(colons) = k + 2
  <2>1. DOMAIN text = 1 .. z - 1
    BY <1>10
  <2>2. k + 2 \in colons
    BY <1>6, <1>9, <1>11, <2>1
  <2>3. \A i \in colons : i \in Int /\ k + 2 <= i
    <3> SUFFICES ASSUME NEW i \in colons
                 PROVE  i \in Int /\ k + 2 <= i
      OBVIOUS
    <3>1. i \in 1 .. z - 1 /\ text[i] = Colon
      BY <2>1
    <3>2. i \notin 1 .. k
      BY <1>6, <1>11, <3>1
    <3>3. i # k + 1
      BY <1>11, <3>1, MarksDiffer
    <3> QED
      BY <1>6, <1>9, <3>1, <3>2, <3>3
  <2> HIDE DEF colons
  <2>4. colons \subseteq Int
    BY <2>3
  <2> QED
    BY <2>2, <2>3, <2>4, LeastIs
<1> HIDE DEF colons, K, V
<1>13. K = key
  <2> DEFINE t == SubSeq(text, 1, k + 1)
  <2>1. left = t
    <3>1. Least(colons) - 1 = k + 1
      BY <1>6, <1>12
    <3> QED
      BY <3>1
  <2>2. /\ t \in Seq(Character) /\ Len(t) = k + 1
        /\ \A i \in 1 .. k + 1 : t[i] = text[i]
    BY <1>6, <1>9, <1>10
  <2> HIDE DEF t, left
  <2>3. /\ \A i \in 1 .. k : t[i] = key[i]
        /\ t[k + 1] = Space
    BY <1>6, <1>11, <2>2
  <2>4. Trim(t) = SubSeq(t, 1, k)
    <3>1. /\ 1 \in 1 .. Len(t) /\ k \in 1 .. Len(t)
          /\ 1 \in 1 .. k /\ k \in 1 .. k
      BY <1>6, <2>2
    <3>2. t[1] # Space /\ t[k] # Space
      BY <1>6, <2>3, <3>1
    <3>3. \A i \in 1 .. 1 - 1 : t[i] = Space
      OBVIOUS
    <3>4. \A i \in k + 1 .. Len(t) : t[i] = Space
      <4>1. \A i \in k + 1 .. Len(t) : i = k + 1
        BY <1>6, <2>2
      <4> QED
        BY <2>3, <4>1
    <3> QED
      BY <2>2, <3>1, <3>2, <3>3, <3>4, TrimOf
  <2>5. SubSeq(t, 1, k) = key
    <3> DEFINE u == SubSeq(t, 1, k)
    <3>1. /\ u \in Seq(Character) /\ Len(u) = k
          /\ \A i \in 1 .. k : u[i] = t[i]
      BY <1>6, <2>2
    <3> HIDE DEF u
    <3>2. /\ Len(u) = Len(key) /\ \A i \in 1 .. Len(key) : u[i] = key[i]
      BY <2>3, <3>1 DEF k
    <3>3. u = key
      BY <1>3, <3>1, <3>2
    <3> QED
      BY <3>3 DEF u
  <2> QED
    BY <2>1, <2>4, <2>5 DEF K
<1>14. V = value
  <2> DEFINE t == SubSeq(text, k + 3, z - 1)
  <2>1. right = t
    <3>1. Least(colons) + 1 = k + 3
      BY <1>6, <1>12
    <3> QED
      BY <1>10, <3>1
  <2>2. /\ t \in Seq(Character) /\ Len(t) = z - (k + 3)
        /\ \A i \in 1 .. z - (k + 3) : t[i] = line[k + 3 + i]
    <3>1. /\ t \in Seq(Character) /\ Len(t) = z - (k + 3)
          /\ \A i \in 1 .. z - (k + 3) : t[i] = text[k + 2 + i]
      BY <1>6, <1>9, <1>10
    <3> HIDE DEF t
    <3>2. ASSUME NEW i \in 1 .. z - (k + 3)
          PROVE  t[i] = line[k + 3 + i]
      <4>1. k + 2 + i \in 1 .. z - 1 /\ (k + 2 + i) + 1 = k + 3 + i
        BY <1>6, <1>9
      <4> QED
        BY <1>10, <3>1, <4>1
    <3> QED
      BY <3>1, <3>2
  <2> HIDE DEF t, right
  <2>3. CASE q + v = 0
    <3>1. q = 0 /\ v = 0 /\ Len(t) = 0
      BY <1>4, <1>6, <1>9, <2>2, <2>3
    <3>2. t = <<>> /\ value = <<>>
      BY <1>3, <2>2, <3>1 DEF v
    <3>3. Unquote(<<>>) = <<>>
      BY DEF Unquote
    <3> QED
      BY <2>1, <3>2, <3>3, TrimOfNothing DEF V
  <2>4. CASE q + v # 0
    <3> DEFINE w == 2 * q + v
               u == SubSeq(t, 2, w + 1)
    <3>1. w \in Nat /\ w > 0 /\ Len(t) = w + 1
      BY <1>4, <1>6, <1>9, <2>2, <2>4
    <3>2. /\ t[1] = Space
          /\ \A i \in 1 .. v : t[1 + q + i] = value[i]
          /\ q = 1 => t[2] = l.quote /\ t[w + 1] = l.quote
      <4>1. t[1] = Space
        <5>1. 1 \in 1 .. z - (k + 3) /\ k + 3 + 1 = k + 4
          BY <1>6, <2>2, <3>1
        <5> QED
          BY <1>5, <2>2, <5>1
      <4>2. ASSUME NEW i \in 1 .. v
            PROVE  t[1 + q + i] = value[i]
        <5>1. /\ 1 + q + i \in 1 .. z - (k + 3)
              /\ k + 3 + (1 + q + i) = k + 4 + q + i
          BY <1>4, <1>6, <1>9, <2>4
        <5> QED
          BY <1>5, <2>2, <5>1
      <4>3. ASSUME q = 1
            PROVE  t[2] = l.quote /\ t[w + 1] = l.quote
        <5>1. /\ 2 \in 1 .. z - (k + 3) /\ w + 1 \in 1 .. z - (k + 3)
              /\ k + 3 + 2 = k + 5 /\ k + 3 + (w + 1) = k + 4 + 2 * q + v
          BY <1>6, <1>9, <2>4, <4>3
        <5> QED
          BY <1>5, <2>2, <4>3, <5>1
      <4> QED
        BY <4>1, <4>2, <4>3
    <3>3. t[2] # Space /\ t[w + 1] # Space
      <4>1. CASE q = 1
        BY <1>6, <3>2, <4>1, MarksDiffer
      <4>2. CASE q = 0
        <5>1. /\ v > 0 /\ 1 \in 1 .. v /\ v \in 1 .. v
              /\ 1 + q + 1 = 2 /\ 1 + q + v = w + 1
          BY <1>6, <2>4, <4>2
        <5> HIDE DEF w
        <5>2. t[2] = value[1] /\ t[w + 1] = value[v]
          BY <3>2, <5>1
        <5> QED
          BY <1>6, <4>2, <5>1, <5>2
      <4> QED
        BY <1>4, <4>1, <4>2
    <3> HIDE DEF w
    <3>4. Trim(t) = u
      <4>1. /\ 2 \in 1 .. Len(t) /\ w + 1 \in 2 .. Len(t)
        BY <3>1
      <4>2. \A i \in 1 .. 2 - 1 : t[i] = Space
        <5>1. \A i \in 1 .. 2 - 1 : i = 1
          OBVIOUS
        <5> QED
          BY <3>2, <5>1
      <4>3. \A i \in (w + 1) + 1 .. Len(t) : t[i] = Space
        BY <3>1
      <4> QED
        BY <2>2, <3>3, <4>1, <4>2, <4>3, TrimOf
    <3>5. /\ u \in Seq(Character) /\ Len(u) = w
          /\ \A i \in 1 .. w : u[i] = t[i + 1]
      BY <2>2, <3>1
    <3> HIDE DEF u
    <3>6. Unquote(u) = value
      <4>1. CASE q = 0
        <5>1. w = v /\ \A i \in 1 .. v : 1 + q + i = i + 1
          BY <1>6, <4>1 DEF w
        <5>2. \A i \in 1 .. v : u[i] = value[i]
          BY <3>2, <3>5, <5>1
        <5>3. u = value
          BY <1>3, <3>5, <5>1, <5>2 DEF v
        <5>4. \A i \in 1 .. Len(value) : value[i] \notin QuoteMark
          BY <1>6, <4>1 DEF v
        <5> QED
          BY <1>3, <3>5, <5>3, <5>4, UnquoteOf
      <4>2. CASE q = 1
        <5>1. /\ w = v + 2 /\ 1 \in 1 .. w /\ w \in 1 .. w
              /\ \A i \in 1 .. v : /\ i + 1 \in 1 .. w
                                   /\ (i + 1) + 1 = 1 + q + i
          BY <1>6, <4>2 DEF w
        <5>2. u[1] = l.quote /\ u[w] = l.quote
          BY <3>2, <3>5, <4>2, <5>1
        <5>3. \A i \in 1 .. v : u[i + 1] = value[i]
          BY <3>2, <3>5, <5>1
        <5>4. /\ Len(u) = Len(value) + 2 /\ u[Len(value) + 2] = l.quote
              /\ \A i \in 1 .. Len(value) : u[i + 1] = value[i]
          BY <3>5, <5>1, <5>2, <5>3 DEF v
        <5> QED
          BY <1>3, <1>6, <3>5, <4>2, <5>2, <5>4, UnquoteOf
      <4> QED
        BY <1>4, <4>1, <4>2
    <3> QED
      BY <2>1, <3>4, <3>6 DEF V
  <2> QED
    BY <2>3, <2>4
<1>15. text # <<>> /\ key # <<>> /\ value # Unreadable
  <2>1. text # <<>>
    BY <1>6, <1>9, <1>10
  <2>2. key # <<>>
    BY <1>6 DEF k
  <2>3. value # Unreadable
    <3> DEFINE bad == "unreadable"
    <3>1. Unreadable = <<bad>> /\ bad \notin Character
      BY DEF Unreadable
    <3> HIDE DEF bad
    <3>2. <<bad>> \notin Seq(Character)
      BY <3>1
    <3> QED
      BY <1>3, <3>1, <3>2
  <2> QED
    BY <2>1, <2>2, <2>3
<1>16. Entry(line) = [key |-> key, value |-> value]
  BY <1>8, <1>12, <1>13, <1>14, <1>15
<1> QED
  BY <1>16 DEF line, key, value

\* For every configuration an operator can write, of any length and in any
\* characters (unreadable stands for none): what load_config_file returns is
\* what is written, the last line of each key.
THEOREM ConfigIsLoadedAsWritten ==
  ASSUME NEW Character, Marks \subseteq Character,
         "unreadable" \notin Character,
         input \in Seq({l \in LineOf(Character) : Writable(l)})
  PROVE  ConfigAsWritten
<1> DEFINE Line == {l \in LineOf(Character) : Writable(l)}
           lines == [i \in DOMAIN input |-> LineText(input[i])]
           entries == [i \in DOMAIN lines |-> Entry(lines[i])]
           keyed == {i \in DOMAIN lines : entries[i] # Blank}
<1>1. input \in Seq(Line)
  OBVIOUS
<1>2. \A i \in DOMAIN input : input[i] \in LineOf(Character) /\ Writable(input[i])
  <2> HIDE DEF Line
  <2>1. \A i \in DOMAIN input : input[i] \in Line
    BY <1>1
  <2> QED
    BY <2>1 DEF Line
<1>3. DOMAIN lines = DOMAIN input /\ \A i \in DOMAIN input :
        entries[i] = Entry(LineText(input[i]))
  OBVIOUS
<1>4. \A i \in DOMAIN input :
        entries[i] = [key |-> input[i].key, value |-> input[i].value]
  BY <1>2, <1>3, EntryOfLine
<1>5. \A i \in DOMAIN input : input[i].key # <<>>
  BY <1>2 DEF Writable
<1>6. LoadConfigLines(lines) =
        IF \E i \in DOMAIN lines : entries[i] = BadEntry THEN NoValues
        ELSE [key \in {entries[i].key : i \in keyed} |->
                entries[Greatest({i \in keyed : entries[i].key = key})].value]
  BY DEF LoadConfigLines
<1> HIDE DEF lines, entries
<1>7. \A i \in DOMAIN input :
        /\ entries[i].key = input[i].key /\ entries[i].value = input[i].value
        /\ entries[i] # BadEntry /\ entries[i] # Blank
  <2>1. BadEntry.key = <<>> /\ Blank.key = <<>>
    BY DEF BadEntry, Blank
  <2>2. \A i \in DOMAIN input :
          entries[i].key = input[i].key /\ entries[i].value = input[i].value
    <3> SUFFICES ASSUME NEW i \in DOMAIN input
                 PROVE  /\ entries[i].key = input[i].key
                        /\ entries[i].value = input[i].value
      OBVIOUS
    <3> DEFINE e == entries[i]
               key == input[i].key
               value == input[i].value
    <3>1. e = [key |-> key, value |-> value]
      BY <1>4
    <3> HIDE DEF e, key, value
    <3>2. e.key = key /\ e.value = value
      BY <3>1
    <3> QED
      BY <3>2 DEF e, key, value
  <2> QED
    BY <1>5, <2>1, <2>2
<1>8. keyed = DOMAIN input
  BY <1>3, <1>7
<1> HIDE DEF keyed
<1> DEFINE Lines(key) == {i \in DOMAIN input : input[i].key = key}
           Keys == {input[i].key : i \in DOMAIN input}
<1>9. /\ {entries[i].key : i \in keyed} = Keys
      /\ \A key : {i \in keyed : entries[i].key = key} = Lines(key)
  BY <1>7, <1>8
<1>10. ASSUME NEW key \in Keys
       PROVE  entries[Greatest(Lines(key))].value
                = input[Greatest(Lines(key))].value
  <2>1. Lines(key) # {} /\ Lines(key) \subseteq 1 .. Len(input)
    BY <1>1
  <2>2. Len(input) \in Nat
    BY <1>1
  <2>3. Greatest(Lines(key)) \in Lines(key)
    <3> HIDE DEF Lines
    <3> QED
      BY <2>1, <2>2, GreatestExists
  <2> QED
    BY <1>7, <2>3
<1>11. LoadConfigLines(lines)
         = [key \in Keys |-> input[Greatest(Lines(key))].value]
  <2>1. LoadConfigLines(lines)
          = [key \in Keys |-> entries[Greatest(Lines(key))].value]
    <3> HIDE DEF Keys, Lines
    <3> QED
      BY <1>3, <1>6, <1>7, <1>9
  <2> HIDE DEF Keys, Lines
  <2> QED
    BY <1>10, <2>1
<1> QED
  BY <1>11 DEF ConfigAsWritten, lines

-----------------------------------------------------------------------------
(* The lines of an index                                                   *)

IsFolder(line) == line.kind = "folder"
IsRecord(line) == line.kind = "record"

\* A folder, or none so far.
Folder == Index \cup {NoFolder}

\* What the lines say is recorded, below a folder or not.
Said == [folder : Folder, file : Index, suffix : Suffix]

BodyLine ==
  {FolderLine(n, TRUE) : n \in Folder}
  \cup {RecordLine(n, s) : n \in Index, s \in Suffix}

\* Any line of an index file, whatever is wrong with it.
IndexTextLine ==
  {VersionLine, FoldersLine, OtherLine}
  \cup {MaxLine(n) : n \in Nat} \cup {SizeLine(n) : n \in Nat}
  \cup {FolderLine(n, padded) : n \in Index, padded \in BOOLEAN}
  \cup {RecordLine(n, s) : n \in Index, s \in Suffix}

\* The lines in their canonical spelling are among these.
Text == IndexTextLine \cup BodyLine

LEMMA BodyForms ==
  /\ \A n, p : /\ IsFolder(FolderLine(n, p)) /\ ~IsRecord(FolderLine(n, p))
               /\ FolderLine(n, p).n = n /\ FolderLine(n, p).padded = p
  /\ \A n, s : /\ IsRecord(RecordLine(n, s)) /\ ~IsFolder(RecordLine(n, s))
               /\ RecordLine(n, s).n = n /\ RecordLine(n, s).suffix = s
  /\ \A l \in BodyLine : IsFolder(l) \/ IsRecord(l)
  BY DEF IsFolder, IsRecord, FolderLine, RecordLine, BodyLine

LEMMA BodyMembers ==
  /\ \A n \in Folder : FolderLine(n, TRUE) \in BodyLine
  /\ \A n \in Index, s \in Suffix : RecordLine(n, s) \in BodyLine
<1> DEFINE F == {FolderLine(n, TRUE) : n \in Folder}
           R == {RecordLine(n, s) : n \in Index, s \in Suffix}
<1>1. \A n \in Folder : FolderLine(n, TRUE) \in F
  OBVIOUS
<1>2. \A n \in Index, s \in Suffix : RecordLine(n, s) \in R
  OBVIOUS
<1>3. BodyLine = F \cup R
  BY DEF BodyLine
<1> HIDE DEF F, R
<1> QED
  BY <1>1, <1>2, <1>3

\* The lines of the first records.
Bodies(records) ==
  CHOOSE body : body = [k \in 0 .. Len(records) |->
    IF k = 0 THEN <<>> ELSE body[k - 1] \o RecordLines(records, k)]

LEMMA RecordLinesType ==
  ASSUME NEW records \in Seq(Said), NEW k \in 1 .. Len(records)
  PROVE  /\ RecordLines(records, k) \in Seq(BodyLine)
         /\ Len(RecordLines(records, k)) \in 1 .. 2
         /\ RecordLines(records, k)[Len(RecordLines(records, k))]
              = RecordLine(records[k].file, records[k].suffix)
<1>1. records[k] \in Said
  OBVIOUS
<1> DEFINE f == FolderLine(records[k].folder, TRUE)
           l == RecordLine(records[k].file, records[k].suffix)
<1>2. f \in BodyLine /\ l \in BodyLine
  <2>1. records[k].folder \in Folder
    BY <1>1 DEF Said
  <2>2. records[k].file \in Index /\ records[k].suffix \in Suffix
    BY <1>1 DEF Said
  <2> QED
    BY <2>1, <2>2, BodyMembers
<1>3. RecordLines(records, k) = <<l>> \/ RecordLines(records, k) = <<f, l>>
  BY DEF RecordLines
<1> HIDE DEF f, l
<1>4. l = RecordLine(records[k].file, records[k].suffix)
  BY DEF l
<1>5. CASE RecordLines(records, k) = <<l>>
  BY <1>2, <1>4, <1>5
<1>6. CASE RecordLines(records, k) = <<f, l>>
  BY <1>2, <1>4, <1>6
<1> QED
  BY <1>3, <1>5, <1>6

LEMMA BodiesAreDefined ==
  ASSUME NEW records \in Seq(Said)
  PROVE  /\ Bodies(records) \in [0 .. Len(records) -> Seq(BodyLine)]
         /\ Bodies(records)[0] = <<>>
         /\ \A k \in 1 .. Len(records) :
              Bodies(records)[k]
                = Bodies(records)[k - 1] \o RecordLines(records, k)
         /\ BodyLines(records) = Bodies(records)[Len(records)]
         /\ BodyLines(records) \in Seq(BodyLine)
<1> DEFINE n == Len(records)
           V == Seq(BodyLine)
           more(k) == RecordLines(records, k)
           step == [k \in 1 .. n |-> [t \in V |-> t \o more(k)]]
           Loop(f) == f = [k \in 0 .. n |->
                             IF k = 0 THEN <<>>
                             ELSE f[k - 1] \o RecordLines(records, k)]
<1>1. n \in Nat /\ <<>> \in V
  OBVIOUS
<1>2. step \in [1 .. n -> [V -> V]]
  <2>1. \A k \in 1 .. n : more(k) \in Seq(BodyLine)
    BY RecordLinesType
  <2> HIDE DEF more
  <2>2. \A k \in 1 .. n : \A t \in V : t \o more(k) \in V
    BY <2>1
  <2> QED
    BY <2>2
<1> HIDE DEF n, V
<1>3. PICK f \in [0 .. n -> V] : IsIteration(f, <<>>, step, n)
  <2> HIDE DEF step
  <2> QED
    BY <1>1, <1>2, Iteration
<1>4. /\ f[0] = <<>>
      /\ \A k \in 1 .. n : f[k] = f[k - 1] \o RecordLines(records, k)
  <2>1. f[0] = <<>> /\ \A k \in 1 .. n : f[k] = step[k][f[k - 1]]
    BY <1>3 DEF IsIteration
  <2>2. \A k \in 1 .. n : k - 1 \in 0 .. n
    BY <1>1
  <2> QED
    BY <1>3, <2>1, <2>2
<1>5. Loop(f)
  <2>1. \A k \in 0 .. n : k = 0 \/ k \in 1 .. n
    BY <1>1
  <2>2. \A k \in 0 .. n : f[k] = IF k = 0 THEN <<>>
                                 ELSE f[k - 1] \o RecordLines(records, k)
    BY <1>4, <2>1
  <2>3. f = [k \in 0 .. n |-> f[k]]
    BY <1>3
  <2> QED
    BY <2>2, <2>3, Zenon
<1>6. Loop(Bodies(records))
  <2> DEFINE O == CHOOSE g : Loop(g)
  <2>1. \E g : Loop(g)
    BY <1>5
  <2>2. Bodies(records) = O
    BY DEF Bodies, n
  <2> HIDE DEF Loop
  <2> QED
    BY <2>1, <2>2
<1>7. /\ Bodies(records)[0] = <<>>
      /\ \A k \in 1 .. n : Bodies(records)[k]
            = Bodies(records)[k - 1] \o RecordLines(records, k)
  <2>1. \A k \in 0 .. n :
          Bodies(records)[k] = IF k = 0 THEN <<>>
                ELSE Bodies(records)[k - 1] \o RecordLines(records, k)
    BY <1>6, Zenon
  <2>2. 0 \in 0 .. n /\ \A k \in 1 .. n : k \in 0 .. n /\ k # 0
    BY <1>1
  <2> QED
    BY <2>1, <2>2, Zenon
<1>8. Bodies(records) \in [0 .. n -> V]
  <2>1. Bodies(records) = [k \in 0 .. n |-> Bodies(records)[k]]
    BY <1>6, Zenon
  <2> HIDE DEF Loop, step
  <2>2. ASSUME NEW k \in 1 .. n, Bodies(records)[k - 1] \in V
        PROVE  Bodies(records)[k] \in V
    <3>1. RecordLines(records, k) \in V
      BY RecordLinesType DEF V, n
    <3> DEFINE a == Bodies(records)[k - 1]
               b == RecordLines(records, k)
    <3>2. a \in Seq(BodyLine) /\ b \in Seq(BodyLine)
      BY <2>2, <3>1 DEF V
    <3>3. Bodies(records)[k] = a \o b
      BY <1>7
    <3> HIDE DEF a, b
    <3> QED
      BY <3>2, <3>3 DEF V
  <2>3. Bodies(records)[0] \in V
    BY <1>1, <1>7
  <2> QED
    BY <1>1, <2>1, <2>2, <2>3, IterationType
<1>9. BodyLines(records) = Bodies(records)[n]
  BY DEF BodyLines, Bodies, n
<1> QED
  BY <1>1, <1>7, <1>8, <1>9 DEF n, V

\* A body begins with a folder and ends with a record.
LEMMA BodyEnds ==
  ASSUME NEW records \in Seq(Said), records # <<>>
  PROVE  LET body == BodyLines(records)
         IN Len(body) > 0 /\ IsFolder(body[1]) /\ IsRecord(body[Len(body)])
<1> DEFINE n == Len(records)
           B == Bodies(records)
           more(k) == RecordLines(records, k)
           S == {m \in Nat : 1 <= m /\ m <= n =>
                   /\ Len(B[m]) > 0 /\ IsFolder(B[m][1])
                   /\ IsRecord(B[m][Len(B[m])])}
<1>1. n \in Nat \ {0}
  OBVIOUS
<1>2. /\ B \in [0 .. n -> Seq(BodyLine)] /\ B[0] = <<>>
      /\ \A k \in 1 .. n : B[k] = B[k - 1] \o more(k)
      /\ BodyLines(records) = B[n]
  BY BodiesAreDefined
<1>3. \A k \in 1 .. n :
        /\ more(k) \in Seq(BodyLine) /\ Len(more(k)) \in 1 .. 2
        /\ IsRecord(more(k)[Len(more(k))])
  BY RecordLinesType, BodyForms
<1>4. Len(more(1)) = 2 /\ IsFolder(more(1)[1])
  <2> DEFINE f == FolderLine(records[1].folder, TRUE)
             l == RecordLine(records[1].file, records[1].suffix)
  <2>1. more(1) = <<f, l>>
    BY DEF RecordLines
  <2>2. IsFolder(f)
    BY BodyForms
  <2> HIDE DEF f, l, more
  <2> QED
    BY <2>1, <2>2
<1> HIDE DEF n, B, more
<1>5. 0 \in S
  OBVIOUS
<1>6. ASSUME NEW m \in Nat, m \in S
      PROVE  m + 1 \in S
  <2>1. SUFFICES ASSUME m + 1 <= n
                 PROVE  /\ Len(B[m + 1]) > 0 /\ IsFolder(B[m + 1][1])
                        /\ IsRecord(B[m + 1][Len(B[m + 1])])
    OBVIOUS
  <2>2. m + 1 \in 1 .. n /\ (m + 1) - 1 = m /\ m \in 0 .. n
    BY <1>1, <2>1
  <2> DEFINE k == m + 1
             a == B[m]
             b == more(m + 1)
             c == B[m + 1]
  <2>3. c = a \o b
    BY <1>2, <2>2
  <2>4. /\ a \in Seq(BodyLine) /\ b \in Seq(BodyLine) /\ Len(b) \in 1 .. 2
        /\ IsRecord(b[Len(b)])
    BY <1>2, <1>3, <2>2
  <2>5. m >= 1 => Len(a) > 0 /\ IsFolder(a[1])
    BY <1>6, <2>2
  <2>6. m = 0 => a = <<>> /\ IsFolder(b[1])
    BY <1>2, <1>4
  <2> HIDE DEF a, b, c
  <2>7. Len(b) \in Nat /\ Len(b) > 0
    <3> DEFINE w == Len(b)
    <3>1. w \in 1 .. 2
      BY <2>4
    <3> HIDE DEF w
    <3>2. w \in Nat /\ w > 0
      BY <3>1
    <3> QED
      BY <3>2 DEF w
  <2>8. /\ Len(c) = Len(a) + Len(b)
        /\ \A i \in 1 .. Len(a) : c[i] = a[i]
        /\ \A i \in 1 .. Len(b) : c[Len(a) + i] = b[i]
    BY <2>3, <2>4, Joined DEF IsJoined
  <2>9. Len(c) > 0 /\ IsRecord(c[Len(c)])
    <3>1. Len(a) \in Nat
      BY <2>4
    <3>2. Len(b) \in 1 .. Len(b)
      BY <2>7
    <3> QED
      BY <2>4, <2>7, <2>8, <3>1, <3>2
  <2>10. IsFolder(c[1])
    <3>1. CASE m = 0
      <4>1. Len(a) = 0 /\ 1 \in 1 .. Len(b) /\ 0 + 1 = 1
        BY <2>6, <2>7, <3>1
      <4>2. c[1] = b[1]
        BY <2>8, <4>1
      <4> QED
        BY <2>6, <3>1, <4>2
    <3>2. CASE m # 0
      <4>1. 1 \in 1 .. Len(a) /\ Len(a) > 0 /\ IsFolder(a[1])
        BY <2>4, <2>5, <3>2
      <4> QED
        BY <2>8, <4>1
    <3> QED
      BY <3>1, <3>2
  <2> QED
    BY <2>9, <2>10 DEF c
<1>7. n \in S
  <2> HIDE DEF S
  <2> QED
    BY <1>1, <1>5, <1>6, SetInduction
<1> QED
  BY <1>1, <1>2, <1>7

\* One record more adds its lines.
LEMMA BodyAppended ==
  ASSUME NEW records \in Seq(Said), NEW r \in Said
  PROVE  BodyLines(Append(records, r))
           = BodyLines(records)
               \o RecordLines(Append(records, r), Len(records) + 1)
<1> DEFINE t == Append(records, r)
           n == Len(records)
           A == Bodies(records)
           B == Bodies(t)
           S == {m \in Nat : m <= n => B[m] = A[m]}
<1>1. t \in Seq(Said) /\ Len(t) = n + 1 /\ n \in Nat
      /\ \A k \in 1 .. n : t[k] = records[k]
  OBVIOUS
<1>2. /\ A[0] = <<>> /\ BodyLines(records) = A[n]
      /\ \A k \in 1 .. n : A[k] = A[k - 1] \o RecordLines(records, k)
  BY BodiesAreDefined
<1> HIDE DEF t
<1>3. /\ B[0] = <<>> /\ BodyLines(t) = B[n + 1]
      /\ \A k \in 1 .. n + 1 : B[k] = B[k - 1] \o RecordLines(t, k)
  BY <1>1, BodiesAreDefined
<1>4. \A k \in 1 .. n : RecordLines(t, k) = RecordLines(records, k)
  <2> SUFFICES ASSUME NEW k \in 1 .. n
               PROVE  RecordLines(t, k) = RecordLines(records, k)
    OBVIOUS
  <2>1. t[k] = records[k] /\ (k > 1 => t[k - 1] = records[k - 1])
    <3>1. k > 1 => k - 1 \in 1 .. n
      BY <1>1
    <3> QED
      BY <1>1, <3>1
  <2> QED
    BY <2>1 DEF RecordLines
<1> HIDE DEF A, B, n
<1>5. 0 \in S
  BY <1>2, <1>3
<1>6. ASSUME NEW m \in Nat, m \in S
      PROVE  m + 1 \in S
  <2>1. SUFFICES ASSUME m + 1 <= n
                 PROVE  B[m + 1] = A[m + 1]
    OBVIOUS
  <2>2. m + 1 \in 1 .. n /\ m + 1 \in 1 .. n + 1 /\ (m + 1) - 1 = m
    BY <1>1, <2>1
  <2>3. B[m] = A[m]
    BY <1>1, <1>6, <2>1
  <2>4. B[m + 1] = B[(m + 1) - 1] \o RecordLines(t, m + 1)
    BY <1>3, <2>2
  <2>5. A[m + 1] = A[(m + 1) - 1] \o RecordLines(records, m + 1)
    BY <1>2, <2>2
  <2> QED
    BY <1>4, <2>2, <2>3, <2>4, <2>5
<1>7. n \in S
  <2> HIDE DEF S
  <2> QED
    BY <1>1, <1>5, <1>6, SetInduction
<1>8. B[n] = A[n]
  BY <1>1, <1>7
<1>9. B[n + 1] = B[(n + 1) - 1] \o RecordLines(t, n + 1)
  <2>1. n + 1 \in 1 .. n + 1
    BY <1>1
  <2> QED
    BY <1>3, <2>1
<1>10. (n + 1) - 1 = n
  BY <1>1
<1> QED
  BY <1>2, <1>3, <1>8, <1>9, <1>10 DEF n, t

LEMMA BodyOfNothing == BodyLines(<<>>) = <<>>
<1>1. <<>> \in Seq(Said) /\ Len(<<>>) = 0
  OBVIOUS
<1> QED
  BY <1>1, BodiesAreDefined

\* What is counted up to a record does not depend on the later ones.
LEMMA CountOfPrefix ==
  ASSUME NEW s \in Seq(Said), NEW r \in Said, NEW i \in 1 .. Len(s)
  PROVE  /\ Append(s, r)[i] = s[i]
         /\ CountUpTo(Append(s, r), i) = CountUpTo(s, i)
<1>1. \A j \in 1 .. i : j \in 1 .. Len(s) /\ Append(s, r)[j] = s[j]
  OBVIOUS
<1>2. {j \in 1 .. i : Append(s, r)[j].folder = Append(s, r)[i].folder}
        = {j \in 1 .. i : s[j].folder = s[i].folder}
  BY <1>1
<1>3. i \in 1 .. i
  OBVIOUS
<1> QED
  BY <1>1, <1>2, <1>3, Zenon DEF CountUpTo

\* What load_index_file demands of the last record.
Follows(t, max) ==
  LET n == Len(t)
  IN /\ CountUpTo(t, n) <= max
     /\ CanAdvance(PositionOf(t[n]), CountUpTo(t, n), max)

\* Records are valid if all but the last are and the last one follows them.
LEMMA ValidAppended ==
  ASSUME NEW s \in Seq(Said), NEW r \in Said, NEW max
  PROVE  ValidRecords(Append(s, r), max) <=>
           /\ ValidRecords(s, max)
           /\ s # <<>> => PositionOf(r) = NextOf(s, max)
           /\ Follows(Append(s, r), max)
<1> DEFINE t == Append(s, r)
           n == Len(s)
           Each(u, i) ==
             /\ CountUpTo(u, i) <= max
             /\ CanAdvance(PositionOf(u[i]), CountUpTo(u, i), max)
           Meets(u, i) == PositionOf(u[i + 1]) = NextAfter(u, i, max)
<1>1. /\ Len(t) = n + 1 /\ n \in Nat /\ t[n + 1] = r
      /\ s # <<>> <=> n > 0
  OBVIOUS
<1>2. \A i \in 1 .. n : t[i] = s[i] /\ CountUpTo(t, i) = CountUpTo(s, i)
  BY CountOfPrefix
<1>3. \A u : ValidRecords(u, max) <=>
               \A i \in 1 .. Len(u) : Each(u, i) /\ (i < Len(u) => Meets(u, i))
  BY DEF ValidRecords
<1>4. Follows(t, max) <=> Each(t, n + 1)
  BY <1>1, Zenon DEF Follows
<1>5. s # <<>> => NextOf(s, max) = NextAfter(s, n, max)
  BY DEF NextOf
<1> HIDE DEF t
<1>6. \A i \in 1 .. n : Each(t, i) <=> Each(s, i)
  BY <1>2
<1>7. \A i \in 1 .. n : NextAfter(t, i, max) = NextAfter(s, i, max)
  BY <1>2 DEF NextAfter
<1>8. \A i \in 1 .. n : i < n => (Meets(t, i) <=> Meets(s, i))
  <2> SUFFICES ASSUME NEW i \in 1 .. n, i < n
               PROVE  Meets(t, i) <=> Meets(s, i)
    OBVIOUS
  <2>1. i + 1 \in 1 .. n
    BY <1>1
  <2>2. t[i + 1] = s[i + 1]
    BY <1>2, <2>1
  <2> QED
    BY <1>7, <2>2
<1>9. n > 0 => (Meets(t, n) <=> PositionOf(r) = NextAfter(s, n, max))
  <2>1. n > 0 => n \in 1 .. n
    BY <1>1
  <2> QED
    BY <1>1, <1>7, <2>1
<1> HIDE DEF n, Each, Meets
<1>10. ValidRecords(t, max) <=>
         \A i \in 1 .. n + 1 : Each(t, i) /\ (i < n + 1 => Meets(t, i))
  BY <1>1, <1>3
<1>11. ValidRecords(s, max) <=>
         \A i \in 1 .. n : Each(s, i) /\ (i < n => Meets(s, i))
  BY <1>3 DEF n
<1>12. ASSUME ValidRecords(t, max)
       PROVE  /\ ValidRecords(s, max)
              /\ s # <<>> => PositionOf(r) = NextOf(s, max)
              /\ Follows(t, max)
  <2>1. \A i \in 1 .. n : i \in 1 .. n + 1 /\ i < n + 1
    BY <1>1
  <2>2. n + 1 \in 1 .. n + 1 /\ (n > 0 => n \in 1 .. n)
    BY <1>1
  <2>3. Follows(t, max)
    BY <1>4, <1>10, <1>12, <2>2
  <2>4. ValidRecords(s, max)
    BY <1>6, <1>8, <1>10, <1>11, <1>12, <2>1
  <2>5. n > 0 => Meets(t, n)
    BY <1>10, <1>12, <2>1, <2>2
  <2> QED
    BY <1>1, <1>5, <1>9, <2>3, <2>4, <2>5
<1>13. ASSUME ValidRecords(s, max), Follows(t, max),
              s # <<>> => PositionOf(r) = NextOf(s, max)
       PROVE  ValidRecords(t, max)
  <2>1. n > 0 => Meets(t, n)
    BY <1>1, <1>5, <1>9, <1>13
  <2>2. ASSUME NEW i \in 1 .. n + 1
        PROVE  Each(t, i) /\ (i < n + 1 => Meets(t, i))
    <3>1. CASE i = n + 1
      BY <1>1, <1>4, <1>13, <3>1
    <3>2. CASE i = n /\ i # n + 1
      <4>1. i \in 1 .. n /\ n > 0
        BY <1>1, <3>2
      <4> QED
        BY <1>6, <1>11, <1>13, <2>1, <3>2, <4>1
    <3>3. CASE i # n /\ i # n + 1
      <4>1. i \in 1 .. n /\ i < n
        BY <1>1, <3>3
      <4> QED
        BY <1>6, <1>8, <1>11, <1>13, <4>1
    <3> QED
      BY <3>1, <3>2, <3>3
  <2> QED
    BY <1>10, <2>2
<1> QED
  BY <1>12, <1>13 DEF t

\* The folders of valid records never go back.
LEMMA FoldersGrow ==
  ASSUME NEW s \in Seq(Said), NEW max, ValidRecords(s, max)
  PROVE  \A i \in 1 .. Len(s) : s[i].folder <= s[Len(s)].folder
<1> DEFINE n == Len(s)
           Below(m) == \A i \in 1 .. m : s[i].folder <= s[m].folder
           S == {m \in Nat : m <= n => Below(m)}
<1>1. n \in Nat /\ \A i \in 1 .. n : s[i].folder \in Int
  <2>1. \A i \in 1 .. n : s[i] \in Said
    OBVIOUS
  <2>2. \A r \in Said : r.folder \in Int
    BY DEF Said, Folder, Index, NoFolder
  <2> QED
    BY <2>1, <2>2
<1>2. \A i \in 1 .. n : i < n => s[i].folder <= s[i + 1].folder
  <2> SUFFICES ASSUME NEW i \in 1 .. n, i < n
               PROVE  s[i].folder <= s[i + 1].folder
    OBVIOUS
  <2>1. PositionOf(s[i + 1]) = NextAfter(s, i, max)
    BY DEF ValidRecords
  <2>2. PositionOf(s[i + 1]).folder = s[i + 1].folder
    BY DEF PositionOf
  <2>3. NextAfter(s, i, max).folder \in {s[i].folder, s[i].folder + 1}
    BY DEF NextAfter, Advance, PositionOf
  <2>4. s[i].folder \in Int
    BY <1>1
  <2> QED
    BY <2>1, <2>2, <2>3, <2>4
<1> HIDE DEF n
<1>3. 0 \in S
  OBVIOUS
<1>4. ASSUME NEW m \in Nat, m \in S
      PROVE  m + 1 \in S
  <2> SUFFICES ASSUME m + 1 <= n, NEW i \in 1 .. m + 1
               PROVE  s[i].folder <= s[m + 1].folder
    OBVIOUS
  <2>1. m + 1 \in 1 .. n /\ i \in 1 .. n
    BY <1>1
  <2>2. CASE i = m + 1
    BY <1>1, <2>1, <2>2
  <2>3. CASE i # m + 1
    <3>1. i \in 1 .. m /\ m \in 1 .. n /\ m < n
      BY <1>1, <2>1, <2>3
    <3>2. s[i].folder <= s[m].folder
      BY <1>1, <1>4, <3>1
    <3>3. s[m].folder <= s[m + 1].folder
      BY <1>2, <3>1
    <3> QED
      BY <1>1, <2>1, <3>1, <3>2, <3>3
  <2> QED
    BY <2>2, <2>3
<1>5. n \in S
  <2> HIDE DEF S
  <2> QED
    BY <1>1, <1>3, <1>4, SetInduction
<1>6. Below(n)
  BY <1>1, <1>5
<1> QED
  BY <1>6 DEF n

\* The last line of two texts.
LEMMA LastLine ==
  ASSUME NEW Element, NEW c \in Seq(Element), NEW b \in Seq(Element),
         NEW l \in Element, NEW m \in Element
  PROVE  Append(c, l) = Append(b, m) <=> c = b /\ l = m
<1> SUFFICES ASSUME Append(c, l) = Append(b, m)
             PROVE  c = b /\ l = m
  OBVIOUS
<1>1. Len(c) + 1 = Len(b) + 1 /\ Len(c) \in Nat /\ Len(b) \in Nat
  OBVIOUS
<1>2. l = m
  <2>1. Append(c, l)[Len(c) + 1] = l /\ Append(b, m)[Len(b) + 1] = m
    OBVIOUS
  <2> QED
    BY <1>1, <2>1
<1>3. \A i \in 1 .. Len(c) : c[i] = b[i]
  <2>1. \A i \in 1 .. Len(c) :
          Append(c, l)[i] = c[i] /\ Append(b, m)[i] = b[i]
    BY <1>1
  <2> QED
    BY <2>1
<1> QED
  BY <1>1, <1>2, <1>3

\* One line more and two.
LEMMA MoreLines ==
  ASSUME NEW Element, NEW a \in Seq(Element), NEW k \in Element, NEW m \in Element
  PROVE  /\ a \o <<>> = a
         /\ a \o <<m>> = Append(a, m)
         /\ a \o <<k, m>> = Append(Append(a, k), m)
         /\ Append(a, m) \in Seq(Element)
         /\ Append(a, m) # <<>>
         /\ Len(Append(a, m)) = Len(a) + 1
         /\ Append(a, m)[Len(a) + 1] = m
  OBVIOUS

-----------------------------------------------------------------------------
(* What the lines of a body say, whether it is one that is written          *)

\* Nothing is recorded in the folder that is open.
FolderIsEmpty(records, f) ==
  f # NoFolder /\ \A i \in 1 .. Len(records) : records[i].folder # f

Pending(records, f) ==
  IF FolderIsEmpty(records, f) THEN <<FolderLine(f, TRUE)>> ELSE <<>>

\* The lines so far are those of valid records, and of the next folder.
WellWritten(body, records, f, max) ==
  /\ body = BodyLines(records) \o Pending(records, f)
  /\ ValidRecords(records, max)
  /\ FolderIsEmpty(records, f) /\ records # <<>>
       => NextOf(records, max) = [folder |-> f, file |-> 0]

\* Lines that may say these records, in a last folder f.
Saying(body, records, f) ==
  /\ records \in Seq(Said)
  /\ f \in Folder
  /\ body = <<>> => records = <<>> /\ f = NoFolder
  /\ body # <<>> /\ IsRecord(body[Len(body)])
       => records # <<>> /\ records[Len(records)].folder = f
  /\ f = NoFolder => \A i \in 1 .. Len(body) : ~IsFolder(body[i])

LEMMA WrittenIsDone ==
  ASSUME NEW records, NEW f, Saying(BodyLines(records), records, f)
  PROVE  ~FolderIsEmpty(records, f)
<1>1. records \in Seq(Said)
  BY DEF Saying
<1>2. CASE records = <<>>
  BY <1>2, BodyOfNothing DEF Saying, FolderIsEmpty
<1>3. CASE records # <<>>
  <2> DEFINE body == BodyLines(records)
  <2>1. body # <<>> /\ IsRecord(body[Len(body)])
    <3>1. body \in Seq(BodyLine) /\ Len(body) > 0 /\ IsRecord(body[Len(body)])
      BY <1>1, <1>3, BodyEnds, BodiesAreDefined
    <3> HIDE DEF body
    <3> QED
      BY <3>1
  <2>2. records[Len(records)].folder = f
    BY <2>1 DEF Saying
  <2>3. Len(records) \in 1 .. Len(records)
    BY <1>1, <1>3
  <2> QED
    BY <2>2, <2>3 DEF FolderIsEmpty
<1> QED
  BY <1>2, <1>3

\* The line of a folder.
LEMMA FolderStep ==
  ASSUME NEW c \in Seq(Text),
         NEW records, NEW f, Saying(c, records, f),
         NEW n \in Index, NEW max
  PROVE  WellWritten(Append(c, FolderLine(n, TRUE)), records, n, max) <=>
           /\ WellWritten(c, records, f, max)
           /\ ~FolderIsEmpty(records, f)
           /\ records # <<>> => NextOf(records, max) = [folder |-> n, file |-> 0]
           /\ \A i \in 1 .. Len(records) : records[i].folder # n
<1> DEFINE l == FolderLine(n, TRUE)
           body == BodyLines(records)
           expected == [folder |-> n, file |-> 0]
<1>1. records \in Seq(Said) /\ f \in Folder /\ n # NoFolder /\ n \in Folder
  BY StorageIndexAssumption DEF Saying, Folder, Index, NoFolder
<1>2. l \in Text /\ body \in Seq(Text) /\ ~IsRecord(l)
  <2>1. l \in BodyLine
    BY <1>1, BodyMembers
  <2>2. body \in Seq(BodyLine)
    BY <1>1, BodiesAreDefined
  <2>3. ~IsRecord(l)
    BY BodyForms
  <2> HIDE DEF l, body
  <2> QED
    BY <2>1, <2>2, <2>3 DEF Text
<1>3. c = body => ~FolderIsEmpty(records, f)
  BY WrittenIsDone
<1>4. body # <<>> => IsRecord(body[Len(body)])
  <2>1. records # <<>> => IsRecord(body[Len(body)])
    BY <1>1, BodyEnds
  <2> QED
    BY <2>1, BodyOfNothing
<1> HIDE DEF l, body, expected
<1>5. /\ Append(c, l) = body \o <<l>> <=> c = body
      /\ body \o <<>> = body
      /\ Append(c, l) # body
  <2>1. /\ body \o <<l>> = Append(body, l) /\ body \o <<>> = body
        /\ Append(c, l) # <<>> /\ Len(Append(c, l)) = Len(c) + 1
        /\ Append(c, l)[Len(c) + 1] = l
    BY <1>2, MoreLines
  <2>2. Append(c, l) = Append(body, l) <=> c = body
    BY <1>2, LastLine
  <2>3. Append(c, l) # body
    BY <1>2, <1>4, <2>1
  <2> QED
    BY <2>1, <2>2, <2>3, Zenon
<1>6. WellWritten(Append(c, l), records, n, max) <=>
        /\ Append(c, l) = body \o Pending(records, n)
        /\ ValidRecords(records, max)
        /\ FolderIsEmpty(records, n) /\ records # <<>>
             => NextOf(records, max) = expected
  BY DEF WellWritten, body, expected
<1>7. WellWritten(c, records, f, max) /\ ~FolderIsEmpty(records, f) <=>
        /\ c = body \o <<>>
        /\ ValidRecords(records, max)
        /\ ~FolderIsEmpty(records, f)
  BY DEF WellWritten, Pending, body
<1>8. /\ FolderIsEmpty(records, n)
          <=> \A i \in 1 .. Len(records) : records[i].folder # n
      /\ Pending(records, n)
           = IF FolderIsEmpty(records, n) THEN <<l>> ELSE <<>>
  BY <1>1 DEF FolderIsEmpty, Pending, l
<1>9. WellWritten(Append(c, l), records, n, max) <=>
           /\ WellWritten(c, records, f, max)
           /\ ~FolderIsEmpty(records, f)
           /\ records # <<>> => NextOf(records, max) = expected
           /\ \A i \in 1 .. Len(records) : records[i].folder # n
  BY <1>3, <1>5, <1>6, <1>7, <1>8, Zenon
<1> QED
  BY <1>9 DEF l, expected

\* A line of another kind.
LEMMA OtherStep ==
  ASSUME NEW c \in Seq(Text), NEW l \in Text,
         ~IsFolder(l), ~IsRecord(l),
         NEW records \in Seq(Said), NEW f \in Folder, NEW max
  PROVE  ~WellWritten(Append(c, l), records, f, max)
<1> DEFINE p == Pending(records, f)
           body == BodyLines(records)
<1>1. p \in Seq(BodyLine)
  <2> DEFINE k == FolderLine(f, TRUE)
  <2>1. k \in BodyLine
    BY BodyMembers
  <2>2. p = <<k>> \/ p = <<>>
    BY DEF Pending
  <2> HIDE DEF k, p
  <2>3. CASE p = <<k>>
    BY <2>1, <2>3
  <2>4. CASE p = <<>>
    BY <2>4
  <2> QED
    BY <2>2, <2>3, <2>4
<1>2. body \in Seq(BodyLine)
  BY BodiesAreDefined
<1>3. \A k \in BodyLine : IsFolder(k) \/ IsRecord(k)
  BY BodyForms
<1> HIDE DEF p, body
<1>4. body \o p \in Seq(BodyLine)
  BY <1>1, <1>2
<1>5. Append(c, l) # body \o p
  <2>1. \A t \in Seq(BodyLine) : t # <<>> => t[Len(t)] \in BodyLine
    OBVIOUS
  <2>2. Append(c, l) # <<>> /\ Append(c, l)[Len(Append(c, l))] = l
    BY MoreLines
  <2>3. l \notin BodyLine
    BY <1>3
  <2> QED
    BY <1>4, <2>1, <2>2, <2>3, Zenon
<1> QED
  BY <1>5 DEF WellWritten, p, body

\* A record that follows those of another folder is the first of a folder
\* without records.
LEMMA NextFolderIsEmpty ==
  ASSUME NEW records \in Seq(Said), NEW max, ValidRecords(records, max),
         NEW r \in Said, r.folder # NoFolder,
         records # <<>> => PositionOf(r) = NextOf(records, max),
         records = <<>> \/ records[Len(records)].folder # r.folder
  PROVE  /\ FolderIsEmpty(records, r.folder)
         /\ records # <<>>
              => NextOf(records, max) = [folder |-> r.folder, file |-> 0]
<1>1. CASE records = <<>>
  BY <1>1 DEF FolderIsEmpty
<1>2. CASE records # <<>>
  <2> DEFINE n == Len(records)
             last == records[n]
             next == NextOf(records, max)
  <2>1. n \in 1 .. n /\ last \in Said
    BY <1>2
  <2>2. \A q \in Said : q.folder \in Int
    BY DEF Said, Folder, Index, NoFolder
  <2>3. next = Advance(PositionOf(last), CountUpTo(records, n), max)
    BY <1>2 DEF NextOf, NextAfter
  <2>4. \/ next = [folder |-> last.folder, file |-> last.file + 1]
        \/ next = [folder |-> last.folder + 1, file |-> 0]
    BY <2>3 DEF Advance, PositionOf
  <2>5. next = [folder |-> r.folder, file |-> r.file]
    BY <1>2 DEF PositionOf
  <2>6. last.folder # r.folder
    BY <1>2
  <2>7. \A i \in 1 .. n : records[i].folder <= last.folder
    BY FoldersGrow
  <2>8. \A i \in 1 .. n : records[i] \in Said
    OBVIOUS
  <2> HIDE DEF next, last, n
  <2>9. r.folder = last.folder + 1 /\ next = [folder |-> r.folder, file |-> 0]
    BY <2>4, <2>5, <2>6
  <2>10. \A i \in 1 .. n : records[i].folder # r.folder
    BY <2>1, <2>2, <2>7, <2>8, <2>9
  <2> QED
    BY <2>9, <2>10 DEF FolderIsEmpty, n, next
<1> QED
  BY <1>1, <1>2

\* The line of a record.
LEMMA RecordStep ==
  ASSUME NEW c \in Seq(Text),
         NEW records, NEW f, Saying(c, records, f),
         NEW n \in Index, NEW s \in Suffix, NEW max
  PROVE  LET r == [folder |-> f, file |-> n, suffix |-> s]
         IN WellWritten(Append(c, RecordLine(n, s)), Append(records, r), f, max)
              <=> /\ WellWritten(c, records, f, max)
                  /\ f # NoFolder
                  /\ records # <<>> => PositionOf(r) = NextOf(records, max)
                  /\ Follows(Append(records, r), max)
<1> DEFINE r == [folder |-> f, file |-> n, suffix |-> s]
           t == Append(records, r)
           l == RecordLine(n, s)
           k == FolderLine(f, TRUE)
           body == BodyLines(records)
           same == records # <<>> /\ records[Len(records)].folder = f
           follows == /\ records # <<>> => PositionOf(r) = NextOf(records, max)
                      /\ Follows(t, max)
<1>1. records \in Seq(Said) /\ f \in Folder
  BY DEF Saying
<1>2. r \in Said /\ r.folder = f /\ r.file = n /\ r.suffix = s
  BY <1>1 DEF Said
<1> HIDE DEF r
<1>3. t \in Seq(Said) /\ Len(t) = Len(records) + 1 /\ t # <<>>
      /\ t[Len(t)] = r /\ t[Len(records) + 1] = r /\ Len(records) \in Nat
      /\ \A i \in 1 .. Len(records) : t[i] = records[i]
  BY <1>1, <1>2
<1>4. l \in BodyLine /\ k \in BodyLine /\ body \in Seq(BodyLine)
  BY <1>1, BodyMembers, BodiesAreDefined
<1>5. IsRecord(l) /\ ~IsFolder(l) /\ IsFolder(k)
  BY BodyForms
<1>6. l \in Text /\ k \in Text /\ body \in Seq(Text)
  <2> HIDE DEF l, k, body
  <2> QED
    BY <1>4 DEF Text
<1>7. RecordLines(t, Len(records) + 1) = IF same THEN <<l>> ELSE <<k, l>>
  <2>1. Len(records) + 1 > 1 <=> records # <<>>
    BY <1>1
  <2>2. records # <<>> =>
          t[(Len(records) + 1) - 1] = records[Len(records)]
    <3>1. (Len(records) + 1) - 1 = Len(records)
      BY <1>1
    <3>2. records # <<>> => Len(records) \in 1 .. Len(records)
      BY <1>1
    <3> QED
      BY <1>3, <3>1, <3>2
  <2> HIDE DEF t
  <2> QED
    BY <1>2, <1>3, <2>1, <2>2 DEF RecordLines
<1>8. BodyLines(t) = body \o RecordLines(t, Len(records) + 1)
  BY <1>1, <1>2, BodyAppended
<1>9. Pending(t, f) = <<>>
  <2>1. Len(t) \in 1 .. Len(t)
    BY <1>3
  <2> HIDE DEF t
  <2>2. ~FolderIsEmpty(t, f)
    BY <1>2, <1>3, <2>1 DEF FolderIsEmpty
  <2> QED
    BY <2>2 DEF Pending
<1>10. ValidRecords(t, max) <=> ValidRecords(records, max) /\ follows
  BY <1>1, <1>2, ValidAppended
<1>11. BodyLines(t) \in Seq(BodyLine) /\ Len(BodyLines(t)) > 0
       /\ IsFolder(BodyLines(t)[1])
  BY <1>3, BodyEnds, BodiesAreDefined
<1>12. ValidRecords(records, max) /\ follows /\ f # NoFolder /\ ~same
         => /\ FolderIsEmpty(records, f)
            /\ records # <<>>
                 => NextOf(records, max) = [folder |-> f, file |-> 0]
  BY <1>1, <1>2, NextFolderIsEmpty
<1>13. same => ~FolderIsEmpty(records, f)
  <2>1. records # <<>> => Len(records) \in 1 .. Len(records)
    BY <1>1
  <2> QED
    BY <2>1 DEF FolderIsEmpty
<1>14. c = body => ~FolderIsEmpty(records, f)
  BY WrittenIsDone
<1>15. c = body /\ f # NoFolder /\ ~FolderIsEmpty(records, f) => same
  <2> SUFFICES ASSUME c = body, f # NoFolder, ~FolderIsEmpty(records, f)
               PROVE  same
    OBVIOUS
  <2>1. records # <<>>
    BY <1>1 DEF FolderIsEmpty
  <2>2. Len(body) > 0 /\ IsRecord(body[Len(body)])
    BY <1>1, <2>1, BodyEnds
  <2>3. body # <<>>
    <3> HIDE DEF body
    <3> QED
      BY <1>4, <2>2
  <2> QED
    BY <2>2, <2>3 DEF Saying
<1> HIDE DEF t, l, k, body
<1>16. /\ body \o <<l>> = Append(body, l)
       /\ body \o <<k, l>> = Append(Append(body, k), l)
       /\ body \o <<k>> = Append(body, k)
       /\ body \o <<>> = body
       /\ Append(body, k) \in Seq(Text)
  BY <1>6, MoreLines
<1>17. /\ Append(c, l) = Append(body, l) <=> c = body
       /\ Append(c, l) = Append(Append(body, k), l) <=> c = Append(body, k)
  BY <1>6, <1>16, LastLine
<1>18. BodyLines(t) \o Pending(t, f) = BodyLines(t)
  <2>1. \A b \in Seq(BodyLine) : b \o <<>> = b
    OBVIOUS
  <2> QED
    BY <1>9, <1>11, <2>1
<1>19. WellWritten(Append(c, l), t, f, max)
         <=> Append(c, l) = BodyLines(t) /\ ValidRecords(t, max)
  <2>1. ~FolderIsEmpty(t, f)
    BY <1>9, <1>16 DEF Pending
  <2> QED
    BY <1>18, <2>1 DEF WellWritten
<1>20. BodyLines(t) = IF same THEN Append(body, l)
                      ELSE Append(Append(body, k), l)
  BY <1>7, <1>8, <1>16
<1>21. Append(c, l) = BodyLines(t)
         <=> c = IF same THEN body ELSE Append(body, k)
  BY <1>17, <1>20
<1>22. WellWritten(c, records, f, max) <=>
         /\ c = IF FolderIsEmpty(records, f) THEN Append(body, k) ELSE body
         /\ ValidRecords(records, max)
         /\ FolderIsEmpty(records, f) /\ records # <<>>
              => NextOf(records, max) = [folder |-> f, file |-> 0]
  BY <1>16 DEF WellWritten, Pending, body, k
<1>23. Append(c, l) = BodyLines(t) => f # NoFolder
  <2> SUFFICES ASSUME Append(c, l) = BodyLines(t)
               PROVE  f # NoFolder
    OBVIOUS
  <2>1. IsFolder(Append(c, l)[1])
    BY <1>11
  <2>2. Append(c, l)[Len(c) + 1] = l /\ Len(c) \in Nat
    BY <1>6
  <2>3. Len(c) # 0
    BY <1>5, <2>1, <2>2
  <2>4. 1 \in 1 .. Len(c)
    BY <2>2, <2>3
  <2>5. Append(c, l)[1] = c[1]
    BY <1>6, <2>4
  <2> QED
    BY <2>1, <2>4, <2>5 DEF Saying
<1> HIDE DEF same
<1>24. WellWritten(Append(c, l), t, f, max) <=>
         WellWritten(c, records, f, max) /\ f # NoFolder /\ follows
  <2> HIDE DEF follows
  <2> QED
    BY <1>10, <1>12, <1>13, <1>14, <1>15, <1>19, <1>21, <1>22, <1>23
<1> QED
  BY <1>24 DEF l, t, r

-----------------------------------------------------------------------------
(* The loops over the lines                                                *)

LEMMA TextForms ==
  ASSUME NEW l \in IndexTextLine
  PROVE  /\ IsFolder(l) => /\ l.n \in Index /\ l.padded \in BOOLEAN
                           /\ l = FolderLine(l.n, l.padded)
         /\ IsRecord(l) => /\ l.n \in Index /\ l.suffix \in Suffix
                           /\ l = RecordLine(l.n, l.suffix)
         /\ ~(IsFolder(l) /\ IsRecord(l))
<1>1. CASE l \in {VersionLine, FoldersLine, OtherLine}
  BY <1>1 DEF VersionLine, FoldersLine, OtherLine, IsFolder, IsRecord
<1>2. CASE \E n \in Nat : l = MaxLine(n) \/ l = SizeLine(n)
  BY <1>2 DEF MaxLine, SizeLine, IsFolder, IsRecord
<1>3. CASE \E n \in Index, padded \in BOOLEAN : l = FolderLine(n, padded)
  BY <1>3 DEF FolderLine, IsFolder, IsRecord
<1>4. CASE \E n \in Index, s \in Suffix : l = RecordLine(n, s)
  BY <1>4 DEF RecordLine, IsFolder, IsRecord
<1> QED
  BY <1>1, <1>2, <1>3, <1>4 DEF IndexTextLine

\* A line with its number in the spelling that is written.
CanonicalLine(line) ==
  IF IsFolder(line) THEN FolderLine(line.n, TRUE) ELSE line

\* What the lines so far say.
SayState == [folder : Folder, records : Seq(Said)]

Say(before, line) ==
  CASE line.kind = "folder" -> [before EXCEPT !.folder = line.n]
    [] line.kind = "record" ->
         [before EXCEPT !.records = Append(@, [folder |-> before.folder,
                                               file   |-> line.n,
                                               suffix |-> line.suffix])]
    [] OTHER -> before

Sayings(body) ==
  CHOOSE said : said = [k \in 0 .. Len(body) |->
    IF k = 0 THEN [folder |-> NoFolder, records |-> <<>>]
    ELSE Say(said[k - 1], body[k])]

LEMMA SayOf ==
  ASSUME NEW p \in SayState, NEW l \in IndexTextLine
  PROVE  /\ Say(p, l) \in SayState
         /\ IsFolder(l) => /\ Say(p, l).folder = l.n
                           /\ Say(p, l).records = p.records
         /\ IsRecord(l) =>
              /\ Say(p, l).folder = p.folder
              /\ Say(p, l).records
                   = Append(p.records, [folder |-> p.folder, file |-> l.n,
                                        suffix |-> l.suffix])
         /\ ~IsFolder(l) /\ ~IsRecord(l) => Say(p, l) = p
<1> DEFINE r == [folder |-> p.folder, file |-> l.n, suffix |-> l.suffix]
<1>1. p.folder \in Folder /\ p.records \in Seq(Said)
      /\ p = [folder |-> p.folder, records |-> p.records]
  BY DEF SayState
<1>2. CASE IsFolder(l)
  <2>1. Say(p, l) = [p EXCEPT !.folder = l.n] /\ ~IsRecord(l)
    BY <1>2, TextForms DEF Say, IsFolder
  <2>2. l.n \in Folder
    BY <1>2, TextForms DEF Folder
  <2>3. Say(p, l) = [folder |-> l.n, records |-> p.records]
    BY <1>1, <2>1
  <2> QED
    BY <1>1, <1>2, <2>1, <2>2, <2>3 DEF SayState
<1>3. CASE IsRecord(l)
  <2>1. ~IsFolder(l) /\ l.n \in Index /\ l.suffix \in Suffix
    BY <1>3, TextForms
  <2>2. Say(p, l) = [p EXCEPT !.records = Append(p.records, r)]
    BY <1>3, <2>1 DEF Say, IsFolder, IsRecord
  <2>3. r \in Said
    BY <1>1, <2>1 DEF Said
  <2> HIDE DEF r
  <2>4. Say(p, l) = [folder |-> p.folder, records |-> Append(p.records, r)]
    BY <1>1, <2>2
  <2>5. Append(p.records, r) \in Seq(Said)
    BY <1>1, <2>3
  <2>6. Say(p, l) \in SayState /\ Say(p, l).folder = p.folder
        /\ Say(p, l).records = Append(p.records, r)
    BY <1>1, <2>4, <2>5 DEF SayState
  <2> QED
    BY <1>3, <2>1, <2>6 DEF r
<1>4. CASE ~IsFolder(l) /\ ~IsRecord(l)
  BY <1>4 DEF Say, IsFolder, IsRecord
<1> QED
  BY <1>2, <1>3, <1>4

LEMMA SayingsAreDefined ==
  ASSUME NEW body \in Seq(IndexTextLine)
  PROVE  /\ Sayings(body) \in [0 .. Len(body) -> SayState]
         /\ Sayings(body)[0] = [folder |-> NoFolder, records |-> <<>>]
         /\ \A k \in 1 .. Len(body) :
              Sayings(body)[k] = Say(Sayings(body)[k - 1], body[k])
         /\ PlainRecords(body) = Sayings(body)[Len(body)].records
<1> DEFINE n == Len(body)
           base == [folder |-> NoFolder, records |-> <<>>]
           step == [k \in 1 .. n |-> [p \in SayState |-> Say(p, body[k])]]
           Loop(f) == f = [k \in 0 .. n |->
             IF k = 0 THEN base ELSE Say(f[k - 1], body[k])]
<1>1. n \in Nat /\ base \in SayState
      /\ \A k \in 1 .. n : body[k] \in IndexTextLine
  BY DEF SayState, Folder
<1> HIDE DEF n, base
<1>2. step \in [1 .. n -> [SayState -> SayState]]
  <2>1. \A k \in 1 .. n : \A p \in SayState : Say(p, body[k]) \in SayState
    BY <1>1, SayOf
  <2> QED
    BY <2>1
<1>3. PICK f \in [0 .. n -> SayState] : IsIteration(f, base, step, n)
  <2> HIDE DEF step
  <2> QED
    BY <1>1, <1>2, Iteration
<1>4. Loop(f)
  <2>1. f[0] = base /\ \A k \in 1 .. n : f[k] = step[k][f[k - 1]]
    BY <1>3 DEF IsIteration
  <2>2. \A k \in 1 .. n : k - 1 \in 0 .. n
    BY <1>1
  <2>3. \A k \in 1 .. n : f[k] = Say(f[k - 1], body[k])
    BY <1>3, <2>1, <2>2
  <2>4. \A k \in 0 .. n : k = 0 \/ k \in 1 .. n
    BY <1>1
  <2>5. \A k \in 0 .. n :
          f[k] = IF k = 0 THEN base ELSE Say(f[k - 1], body[k])
    BY <2>1, <2>3, <2>4
  <2>6. f = [k \in 0 .. n |-> f[k]]
    BY <1>3
  <2> QED
    BY <2>5, <2>6, Zenon
<1>5. Loop(Sayings(body))
  <2> DEFINE O == CHOOSE g : Loop(g)
  <2>1. \E g : Loop(g)
    BY <1>4
  <2>2. Sayings(body) = O
    BY DEF Sayings, n, base
  <2> HIDE DEF Loop
  <2> QED
    BY <2>1, <2>2
<1>6. /\ Sayings(body)[0] = base
      /\ \A k \in 1 .. n :
           Sayings(body)[k] = Say(Sayings(body)[k - 1], body[k])
  <2>1. \A k \in 0 .. n : Sayings(body)[k] =
          IF k = 0 THEN base ELSE Say(Sayings(body)[k - 1], body[k])
    BY <1>5, Zenon
  <2>2. 0 \in 0 .. n /\ \A k \in 1 .. n : k \in 0 .. n /\ k # 0
    BY <1>1
  <2> QED
    BY <2>1, <2>2, Zenon
<1>7. Sayings(body) \in [0 .. n -> SayState]
  <2>1. Sayings(body) = [k \in 0 .. n |-> Sayings(body)[k]]
    BY <1>5, Zenon
  <2> HIDE DEF Loop, step
  <2>2. \A k \in 1 .. n : Sayings(body)[k - 1] \in SayState
                            => Sayings(body)[k] \in SayState
    BY <1>1, <1>6, SayOf
  <2>3. Sayings(body)[0] \in SayState
    BY <1>1, <1>6
  <2> QED
    BY <1>1, <2>1, <2>2, <2>3, IterationType
<1>8. PlainRecords(body) = Sayings(body)[n].records
  BY DEF PlainRecords, Sayings, Say, n
<1> QED
  BY <1>6, <1>7, <1>8 DEF n, base

-----------------------------------------------------------------------------
ReadState ==
  [ok : BOOLEAN, current : Folder, folders : SUBSET Folder,
   records : Seq(Said), next : [folder : Int, file : Int], rewrite : BOOLEAN]

\* What a folder line leaves, when it is taken.
LEMMA FolderTaken ==
  ASSUME NEW s \in ReadState, NEW l \in IndexTextLine, IsFolder(l),
         NEW legacy \in BOOLEAN, ReadFolder(s, l, legacy).ok
  PROVE  LET t == ReadFolder(s, l, legacy)
         IN /\ t.current = l.n /\ t.records = s.records
            /\ t.folders = s.folders \cup {l.n}
            /\ t.next = s.next
            /\ t.rewrite <=> s.rewrite \/ ~l.padded
<1> DEFINE t == ReadFolder(s, l, legacy)
<1>1. \/ t = [s EXCEPT !.ok = FALSE]
      \/ t = [s EXCEPT !.current = l.n, !.folders = @ \cup {l.n},
                       !.rewrite = @ \/ ~l.padded]
  BY DEF ReadFolder, Rejected
<1>2. t.ok
  OBVIOUS
<1> HIDE DEF t
<1>3. t # [s EXCEPT !.ok = FALSE]
  <2> SUFFICES ASSUME t = [s EXCEPT !.ok = FALSE]
               PROVE  FALSE
    OBVIOUS
  <2>1. t.ok = FALSE
    BY DEF ReadState
  <2> QED
    BY <1>2, <2>1
<1>4. t = [ok |-> s.ok, current |-> l.n, folders |-> s.folders \cup {l.n},
           records |-> s.records, next |-> s.next,
           rewrite |-> s.rewrite \/ ~l.padded]
  BY <1>1, <1>3 DEF ReadState
<1>5. /\ t.current = l.n /\ t.records = s.records
      /\ t.folders = s.folders \cup {l.n}
      /\ t.next = s.next
  BY <1>4
<1>6. t.rewrite = (s.rewrite \/ ~l.padded)
  BY <1>4
<1> QED
  BY <1>5, <1>6 DEF t

LEMMA ReadFolderOf ==
  ASSUME NEW s \in ReadState, NEW l \in IndexTextLine, IsFolder(l),
         NEW legacy \in BOOLEAN
  PROVE  LET t == ReadFolder(s, l, legacy)
         IN /\ t \in ReadState
            /\ s.ok =>
                 (t.ok <=>
                    /\ l.padded \/ legacy
                    /\ ~LastFolderEmpty(s)
                    /\ s.records # <<>> => s.next = [folder |-> l.n, file |-> 0]
                    /\ l.n \notin s.folders)
            /\ t.ok => /\ t.current = l.n /\ t.records = s.records
                       /\ t.folders = s.folders \cup {l.n}
                       /\ t.next = s.next
                       /\ t.rewrite <=> s.rewrite \/ ~l.padded
<1> DEFINE accepted == /\ l.padded \/ legacy
                       /\ ~LastFolderEmpty(s)
                       /\ s.records # <<>>
                            => s.next = [folder |-> l.n, file |-> 0]
                       /\ l.n \notin s.folders
           t == ReadFolder(s, l, legacy)
<1>1. l.n \in Folder /\ l.padded \in BOOLEAN
  BY TextForms DEF Folder
<1>2. CASE accepted
  <2>1. t = [s EXCEPT !.current = l.n, !.folders = @ \cup {l.n},
                      !.rewrite = @ \/ ~l.padded]
    BY <1>2 DEF ReadFolder
  <2>2. t = [ok |-> s.ok, current |-> l.n, folders |-> s.folders \cup {l.n},
             records |-> s.records, next |-> s.next,
             rewrite |-> s.rewrite \/ ~l.padded]
    BY <2>1 DEF ReadState
  <2> HIDE DEF t
  <2> QED
    BY <1>1, <1>2, <2>2 DEF ReadState, t
<1>3. CASE ~accepted
  <2>1. t = [s EXCEPT !.ok = FALSE]
    BY <1>3 DEF ReadFolder, Rejected
  <2>2. t \in ReadState /\ t.ok = FALSE
    BY <2>1 DEF ReadState
  <2> QED
    BY <1>3, <2>2
<1> QED
  BY <1>2, <1>3

LEMMA ReadRecordOf ==
  ASSUME NEW s \in ReadState, NEW l \in IndexTextLine, IsRecord(l), NEW max
  PROVE  LET t == ReadRecord(s, l, max)
             r == [folder |-> s.current, file |-> l.n, suffix |-> l.suffix]
             found == Append(s.records, r)
         IN /\ t \in ReadState
            /\ s.ok =>
                 (t.ok <=> /\ s.current # NoFolder
                           /\ s.records # <<>> => PositionOf(r) = s.next
                           /\ Follows(found, max))
            /\ t.ok => /\ t.current = s.current /\ t.records = found
                       /\ t.folders = s.folders
                       /\ t.next = NextOf(found, max)
                       /\ t.rewrite <=> s.rewrite
<1> DEFINE t == ReadRecord(s, l, max)
           r == [folder |-> s.current, file |-> l.n, suffix |-> l.suffix]
           found == Append(s.records, r)
           count == CountUpTo(found, Len(found))
           next == Advance(PositionOf(r), count, max)
           accepted == /\ s.current # NoFolder
                       /\ s.records # <<>> => PositionOf(r) = s.next
                       /\ count <= max
                       /\ CanAdvance(PositionOf(r), count, max)
<1>1. r \in Said
  BY TextForms DEF ReadState, Said
<1>2. /\ PositionOf(r) \in [folder : Int, file : Int]
      /\ next \in [folder : Int, file : Int]
  <2>1. PositionOf(r) = [folder |-> r.folder, file |-> r.file]
    BY DEF PositionOf
  <2>2. r.folder \in Int /\ r.file \in Int
    BY <1>1 DEF Said, Folder, Index, NoFolder
  <2> HIDE DEF r
  <2>3. /\ PositionOf(r) \in [folder : Int, file : Int]
        /\ PositionOf(r).folder = r.folder /\ PositionOf(r).file = r.file
    BY <2>1, <2>2
  <2> HIDE DEF count
  <2> QED
    BY <2>2, <2>3 DEF Advance
<1> HIDE DEF r
<1>3. s.records \in Seq(Said)
  BY DEF ReadState
<1>4. found \in Seq(Said) /\ found # <<>> /\ found[Len(found)] = r
  BY <1>1, <1>3
<1>5. next = NextOf(found, max)
  <2> HIDE DEF found
  <2> QED
    BY <1>4 DEF NextOf, NextAfter
<1>6. Follows(found, max)
        <=> count <= max /\ CanAdvance(PositionOf(r), count, max)
  <2> HIDE DEF found
  <2> QED
    BY <1>4, Zenon DEF Follows
<1>7. CASE accepted
  <2>1. t = [s EXCEPT !.records = found, !.next = next]
    BY <1>7 DEF ReadRecord, r
  <2> HIDE DEF found, next, t
  <2>2. t = [ok |-> s.ok, current |-> s.current, folders |-> s.folders,
             records |-> found, next |-> next, rewrite |-> s.rewrite]
    BY <2>1 DEF ReadState
  <2>3. t \in ReadState
    BY <1>2, <1>4, <2>2 DEF ReadState
  <2> QED
    BY <1>5, <1>6, <1>7, <2>2, <2>3 DEF t, r, found
<1>8. CASE ~accepted
  <2>1. t = [s EXCEPT !.ok = FALSE]
    BY <1>8 DEF ReadRecord, Rejected, r
  <2> HIDE DEF t
  <2>2. t \in ReadState /\ t.ok = FALSE
    BY <2>1 DEF ReadState
  <2> QED
    BY <1>6, <1>8, <2>2 DEF t, r, found
<1> QED
  BY <1>7, <1>8

\* A line that is read, and no other.
LEMMA ReadLineOf ==
  ASSUME NEW s \in ReadState, NEW l \in IndexTextLine, NEW max,
         NEW legacy \in BOOLEAN
  PROVE  LET t == ReadLine(s, l, max, legacy)
         IN /\ t \in ReadState
            /\ ~s.ok => ~t.ok
            /\ s.ok /\ IsFolder(l) => t = ReadFolder(s, l, legacy)
            /\ s.ok /\ IsRecord(l) => t = ReadRecord(s, l, max)
            /\ ~IsFolder(l) /\ ~IsRecord(l) => ~t.ok
<1> DEFINE t == ReadLine(s, l, max, legacy)
<1>1. ~s.ok => t = s
  BY DEF ReadLine
<1>2. s.ok /\ IsFolder(l) => t = ReadFolder(s, l, legacy)
  BY TextForms DEF ReadLine, IsFolder, IsRecord
<1>3. s.ok /\ IsRecord(l) => t = ReadRecord(s, l, max)
  BY TextForms DEF ReadLine, IsFolder, IsRecord
<1>4. s.ok /\ ~IsFolder(l) /\ ~IsRecord(l) => t = Rejected(s)
  BY DEF ReadLine, IsFolder, IsRecord
<1>5. Rejected(s) \in ReadState /\ ~Rejected(s).ok
  BY DEF Rejected, ReadState
<1>6. IsFolder(l) => ReadFolder(s, l, legacy) \in ReadState
  BY ReadFolderOf
<1>7. IsRecord(l) => ReadRecord(s, l, max) \in ReadState
  BY ReadRecordOf
<1> HIDE DEF t
<1> QED
  BY <1>1, <1>2, <1>3, <1>4, <1>5, <1>6, <1>7 DEF t

\* What load_index_file has read of the lines of the folders.
Reads(lines, legacy) ==
  CHOOSE read : read = [k \in 0 .. Len(BodyOf(lines)) |->
    IF k = 0 THEN Unread(lines)
    ELSE ReadLine(read[k - 1], BodyOf(lines)[k], Settings(lines).max, legacy)]

LEMMA BodyType ==
  ASSUME NEW lines \in Seq(IndexTextLine)
  PROVE  /\ BodyOf(lines) \in Seq(IndexTextLine)
         /\ HeadLength(lines) \in {0, 2, 4}
         /\ HeadLength(lines) <= Len(lines)
         /\ Len(BodyOf(lines)) = Len(lines) - HeadLength(lines)
         /\ \A k \in 1 .. Len(BodyOf(lines)) :
              BodyOf(lines)[k] = lines[HeadLength(lines) + k]
<1>1. HeadLength(lines) \in {0, 2, 4} /\ HeadLength(lines) <= Len(lines)
  BY DEF HeadLength
<1> DEFINE h == HeadLength(lines)
<1> HIDE DEF h
<1>2. SubSeq(lines, h + 1, Len(lines)) \in Seq(IndexTextLine)
  BY <1>1 DEF h
<1>3. Len(SubSeq(lines, h + 1, Len(lines))) = Len(lines) - h
  BY <1>1 DEF h
<1>4. \A k \in 1 .. Len(lines) - h :
        SubSeq(lines, h + 1, Len(lines))[k] = lines[h + k]
  BY <1>1 DEF h
<1> QED
  BY <1>1, <1>2, <1>3, <1>4 DEF BodyOf, h

LEMMA UnreadType ==
  ASSUME NEW lines
  PROVE  Unread(lines) \in ReadState
<1>1. <<>> \in Seq(Said) /\ Origin \in [folder : Int, file : Int]
      /\ NoFolder \in Folder
  BY DEF Origin, Folder
<1> QED
  BY <1>1 DEF Unread, ReadState

LEMMA ReadsAreDefined ==
  ASSUME NEW lines \in Seq(IndexTextLine), NEW legacy \in BOOLEAN
  PROVE  LET body == BodyOf(lines)
             read == Reads(lines, legacy)
         IN /\ read \in [0 .. Len(body) -> ReadState]
            /\ read[0] = Unread(lines)
            /\ \A k \in 1 .. Len(body) :
                 read[k] = ReadLine(read[k - 1], body[k],
                                    Settings(lines).max, legacy)
            /\ ReadIndex(lines, legacy) = read[Len(body)]
<1> DEFINE body == BodyOf(lines)
           n == Len(body)
           base == Unread(lines)
           max == Settings(lines).max
           read == Reads(lines, legacy)
           step == [k \in 1 .. n |->
                      [s \in ReadState |-> ReadLine(s, body[k], max, legacy)]]
           Loop(f) == f = [k \in 0 .. n |->
             IF k = 0 THEN base ELSE ReadLine(f[k - 1], body[k], max, legacy)]
<1>1. base \in ReadState /\ body \in Seq(IndexTextLine)
  BY UnreadType, BodyType
<1> HIDE DEF body, base, max, read
<1>2. n \in Nat /\ \A k \in 1 .. n : body[k] \in IndexTextLine
  BY <1>1
<1> HIDE DEF n
<1>3. \A k \in 1 .. n : \A s \in ReadState :
        ReadLine(s, body[k], max, legacy) \in ReadState
  BY <1>2, ReadLineOf
<1>4. step \in [1 .. n -> [ReadState -> ReadState]]
  BY <1>3
<1>5. PICK f \in [0 .. n -> ReadState] : IsIteration(f, base, step, n)
  <2> HIDE DEF step
  <2> QED
    BY <1>1, <1>2, <1>4, Iteration
<1>6. Loop(f)
  <2>1. f[0] = base /\ \A k \in 1 .. n : f[k] = step[k][f[k - 1]]
    BY <1>5 DEF IsIteration
  <2>2. \A k \in 1 .. n : k - 1 \in 0 .. n
    BY <1>2
  <2>3. \A k \in 1 .. n : f[k] = ReadLine(f[k - 1], body[k], max, legacy)
    BY <1>5, <2>1, <2>2
  <2>4. \A k \in 0 .. n : k = 0 \/ k \in 1 .. n
    BY <1>2
  <2>5. \A k \in 0 .. n : f[k] =
          IF k = 0 THEN base ELSE ReadLine(f[k - 1], body[k], max, legacy)
    BY <2>1, <2>3, <2>4
  <2>6. f = [k \in 0 .. n |-> f[k]]
    BY <1>5
  <2> QED
    BY <2>5, <2>6, Zenon
<1>7. Loop(read)
  <2> DEFINE O == CHOOSE g : Loop(g)
  <2>1. \E g : Loop(g)
    BY <1>6
  <2>2. read = O
    BY DEF read, Reads, n, base, body, max
  <2> HIDE DEF Loop
  <2> QED
    BY <2>1, <2>2
<1>8. /\ read[0] = base
      /\ \A k \in 1 .. n :
           read[k] = ReadLine(read[k - 1], body[k], max, legacy)
  <2>1. \A k \in 0 .. n : read[k] =
          IF k = 0 THEN base ELSE ReadLine(read[k - 1], body[k], max, legacy)
    BY <1>7, Zenon
  <2>2. 0 \in 0 .. n /\ \A k \in 1 .. n : k \in 0 .. n /\ k # 0
    BY <1>2
  <2> QED
    BY <2>1, <2>2, Zenon
<1>9. read \in [0 .. n -> ReadState]
  <2>1. read = [k \in 0 .. n |-> read[k]]
    BY <1>7, Zenon
  <2> HIDE DEF Loop, step
  <2>2. \A k \in 1 .. n : read[k - 1] \in ReadState => read[k] \in ReadState
    BY <1>3, <1>8
  <2>3. read[0] \in ReadState
    BY <1>1, <1>8
  <2> QED
    BY <1>2, <2>1, <2>2, <2>3, IterationType
<1>10. ReadIndex(lines, legacy) = read[n]
  BY DEF ReadIndex, read, Reads, n, body, max
<1> QED
  BY <1>8, <1>9, <1>10 DEF n, body, base, max, read

-----------------------------------------------------------------------------
(* The loop accepts what is well written, and reads what it says            *)

\* After some lines: s is what is read, p what they say, body the lines in
\* their canonical spelling; unpadded, whether one has another.
Agree(s, p, body, unpadded, first, max, legacy) ==
  /\ Saying(body, p.records, p.folder)
  /\ s.ok <=> /\ WellWritten(body, p.records, p.folder, max)
              /\ legacy \/ ~unpadded
  /\ s.ok =>
       /\ s.records = p.records
       /\ s.current = p.folder
       /\ s.folders = {p.records[i].folder : i \in 1 .. Len(p.records)}
                        \cup ({p.folder} \ {NoFolder})
       /\ s.next = NextOf(p.records, max)
       /\ s.rewrite <=> first \/ unpadded

LEMMA CanonicalOf ==
  ASSUME NEW l \in IndexTextLine
  PROVE  /\ CanonicalLine(l) \in Text
         /\ IsFolder(CanonicalLine(l)) <=> IsFolder(l)
         /\ IsRecord(CanonicalLine(l)) <=> IsRecord(l)
         /\ IsFolder(l) => CanonicalLine(l) = FolderLine(l.n, TRUE)
         /\ IsRecord(l) => CanonicalLine(l) = RecordLine(l.n, l.suffix)
<1>1. CASE IsFolder(l)
  <2>1. CanonicalLine(l) = FolderLine(l.n, TRUE) /\ ~IsRecord(l)
    BY <1>1, TextForms DEF CanonicalLine
  <2>2. l.n \in Folder
    BY <1>1, TextForms DEF Folder
  <2>3. FolderLine(l.n, TRUE) \in Text
    BY <2>2, BodyMembers DEF Text
  <2> QED
    BY <1>1, <2>1, <2>3, BodyForms
<1>2. CASE ~IsFolder(l)
  BY <1>2, TextForms DEF CanonicalLine, Text
<1> QED
  BY <1>1, <1>2

LEMMA SayingStep ==
  ASSUME NEW p \in SayState, NEW c \in Seq(Text), NEW l \in IndexTextLine,
         Saying(c, p.records, p.folder)
  PROVE  Saying(Append(c, CanonicalLine(l)), Say(p, l).records,
                Say(p, l).folder)
<1> DEFINE q == Say(p, l)
           m == CanonicalLine(l)
           t == Append(c, m)
<1>1. q \in SayState
  BY SayOf
<1>2. q.records \in Seq(Said) /\ q.folder \in Folder
  BY <1>1 DEF SayState
<1>3. m \in Text /\ (IsFolder(m) <=> IsFolder(l)) /\ (IsRecord(m) <=> IsRecord(l))
  BY CanonicalOf
<1> HIDE DEF m
<1>4. /\ t # <<>> /\ Len(t) = Len(c) + 1 /\ t[Len(c) + 1] = m /\ Len(c) \in Nat
      /\ \A i \in 1 .. Len(c) : t[i] = c[i]
  BY <1>3
<1>5. IsRecord(l) => /\ q.records # <<>>
                     /\ q.records[Len(q.records)].folder = q.folder
  <2> SUFFICES ASSUME IsRecord(l)
               PROVE  /\ q.records # <<>>
                      /\ q.records[Len(q.records)].folder = q.folder
    OBVIOUS
  <2> DEFINE r == [folder |-> p.folder, file |-> l.n, suffix |-> l.suffix]
  <2>1. q.records = Append(p.records, r) /\ q.folder = p.folder
    BY SayOf
  <2>2. p.records \in Seq(Said) /\ r.folder = p.folder
    BY DEF SayState
  <2> HIDE DEF q, r
  <2>3. Len(Append(p.records, r)) = Len(p.records) + 1
        /\ Append(p.records, r)[Len(p.records) + 1] = r
        /\ Append(p.records, r) # <<>>
    BY <2>2
  <2> QED
    BY <2>1, <2>2, <2>3
<1>6. q.folder = NoFolder => ~IsFolder(l) /\ p.folder = NoFolder
  <2>1. IsFolder(l) => q.folder = l.n /\ l.n \in Index
    BY SayOf, TextForms
  <2>2. ~IsFolder(l) => q.folder = p.folder
    BY SayOf
  <2>3. NoFolder \notin Index
    BY StorageIndexAssumption DEF NoFolder, Index
  <2> QED
    BY <2>1, <2>2, <2>3
<1> HIDE DEF t, q
<1>7. q.folder = NoFolder => \A i \in 1 .. Len(t) : ~IsFolder(t[i])
  <2> SUFFICES ASSUME q.folder = NoFolder, NEW i \in 1 .. Len(t)
               PROVE  ~IsFolder(t[i])
    OBVIOUS
  <2>1. CASE i = Len(c) + 1
    BY <1>3, <1>4, <1>6, <2>1
  <2>2. CASE i # Len(c) + 1
    <3>1. i \in 1 .. Len(c)
      BY <1>4, <2>2
    <3> QED
      BY <1>4, <1>6, <3>1 DEF Saying
  <2> QED
    BY <2>1, <2>2
<1>8. Saying(t, q.records, q.folder)
  BY <1>2, <1>3, <1>4, <1>5, <1>7 DEF Saying
<1> QED
  BY <1>8 DEF t, q, m

LEMMA OneLineMore ==
  ASSUME NEW s \in ReadState, NEW p \in SayState, NEW c \in Seq(Text),
         NEW l \in IndexTextLine, NEW unpadded \in BOOLEAN,
         NEW first \in BOOLEAN, NEW max, NEW legacy \in BOOLEAN,
         Agree(s, p, c, unpadded, first, max, legacy)
  PROVE  Agree(ReadLine(s, l, max, legacy), Say(p, l),
               Append(c, CanonicalLine(l)),
               unpadded \/ (IsFolder(l) /\ ~l.padded), first, max, legacy)
<1> DEFINE t == ReadLine(s, l, max, legacy)
           q == Say(p, l)
           d == Append(c, CanonicalLine(l))
           R == p.records
           f == p.folder
<1>1. Saying(c, R, f) /\ R \in Seq(Said) /\ f \in Folder
  BY DEF Agree, SayState
<1>2. Saying(d, q.records, q.folder)
  BY <1>1, SayingStep
<1>3. s.ok <=> WellWritten(c, R, f, max) /\ (legacy \/ ~unpadded)
  BY DEF Agree
<1>4. s.ok =>
       /\ s.records = R
       /\ s.current = f
       /\ s.folders = {R[i].folder : i \in 1 .. Len(R)} \cup ({f} \ {NoFolder})
       /\ s.next = NextOf(R, max)
       /\ s.rewrite <=> first \/ unpadded
  BY DEF Agree
<1>5. s.ok => (LastFolderEmpty(s) <=> FolderIsEmpty(R, f))
  <2>1. DOMAIN R = 1 .. Len(R)
    BY <1>1
  <2> HIDE DEF R, f
  <2> QED
    BY <1>4, <2>1 DEF LastFolderEmpty, FolderIsEmpty
<1>6. t \in ReadState /\ (~s.ok => ~t.ok)
  BY ReadLineOf
<1>7. CASE IsFolder(l)
  <2> DEFINE n == l.n
             new == \A i \in 1 .. Len(R) : R[i].folder # n
             next == R # <<>> => NextOf(R, max) = [folder |-> n, file |-> 0]
  <2>1. n \in Index /\ l.padded \in BOOLEAN /\ ~IsRecord(l)
    BY <1>7, TextForms
  <2>2. d = Append(c, FolderLine(n, TRUE))
    BY <1>7, CanonicalOf
  <2>3. q.records = R /\ q.folder = n
    BY <1>7, SayOf
  <2>4. WellWritten(d, R, n, max) <=>
          /\ WellWritten(c, R, f, max)
          /\ ~FolderIsEmpty(R, f)
          /\ next
          /\ new
    BY <1>1, <2>1, <2>2, FolderStep
  <2>5. s.ok => t = ReadFolder(s, l, legacy)
    BY <1>7, ReadLineOf
  <2>6. s.ok =>
          (t.ok <=> /\ l.padded \/ legacy
                    /\ ~LastFolderEmpty(s)
                    /\ s.records # <<>> => s.next = [folder |-> n, file |-> 0]
                    /\ n \notin s.folders)
    BY <1>7, <2>5, ReadFolderOf
  <2>7. s.ok /\ t.ok =>
          /\ t.current = n /\ t.records = s.records
          /\ t.folders = s.folders \cup {n}
          /\ t.next = s.next
          /\ t.rewrite <=> s.rewrite \/ ~l.padded
    <3> DEFINE u == ReadFolder(s, l, legacy)
    <3>1. u.ok => /\ u.current = n /\ u.records = s.records
                  /\ u.folders = s.folders \cup {n}
                  /\ u.next = s.next
                  /\ u.rewrite <=> s.rewrite \/ ~l.padded
      BY <1>7, FolderTaken
    <3>2. s.ok => t = u
      BY <2>5
    <3> HIDE DEF t, u
    <3> QED
      BY <3>1, <3>2
  <2>8. s.ok /\ ~FolderIsEmpty(R, f) =>
          s.folders = {R[i].folder : i \in 1 .. Len(R)}
    BY <1>4 DEF FolderIsEmpty
  <2>9. s.ok /\ ~FolderIsEmpty(R, f) => (n \notin s.folders <=> new)
    BY <2>8
  <2>10. n # NoFolder
    BY <2>1, StorageIndexAssumption DEF NoFolder, Index
  <2> HIDE DEF t, q, d, R, f, n, new
  <2>11. t.ok <=> /\ WellWritten(d, R, n, max)
                  /\ legacy \/ ~(unpadded \/ ~l.padded)
    <3>1. CASE s.ok
      <4>1. (s.records # <<>> => s.next = [folder |-> n, file |-> 0]) <=> next
        BY <1>4, <3>1
      <4> HIDE DEF next
      <4> QED
        BY <1>3, <1>5, <2>4, <2>6, <2>9, <3>1, <4>1
    <3>2. CASE ~s.ok
      BY <1>3, <1>6, <2>4, <3>2
    <3> QED
      BY <3>1, <3>2
  <2>12. t.ok => s.ok /\ ~FolderIsEmpty(R, f)
    BY <1>5, <1>6, <2>6
  <2>13. t.ok =>
       /\ t.records = R
       /\ t.current = n
       /\ t.folders = {R[i].folder : i \in 1 .. Len(R)} \cup ({n} \ {NoFolder})
       /\ t.next = NextOf(R, max)
       /\ t.rewrite <=> first \/ unpadded \/ ~l.padded
    <3> SUFFICES ASSUME t.ok
                 PROVE  /\ t.records = R
                        /\ t.current = n
                        /\ t.folders = {R[i].folder : i \in 1 .. Len(R)}
                                         \cup ({n} \ {NoFolder})
                        /\ t.next = NextOf(R, max)
                        /\ t.rewrite <=> first \/ unpadded \/ ~l.padded
      OBVIOUS
    <3>1. {n} \ {NoFolder} = {n}
      BY <2>10
    <3>2. t.folders = {R[i].folder : i \in 1 .. Len(R)}
                        \cup ({n} \ {NoFolder})
      BY <2>7, <2>8, <2>12, <3>1
    <3> QED
      BY <1>4, <2>7, <2>12, <3>2
  <2> QED
    BY <1>2, <1>7, <2>3, <2>11, <2>13 DEF Agree, t, q, d
<1>8. CASE IsRecord(l)
  <2> DEFINE n == l.n
             r == [folder |-> f, file |-> n, suffix |-> l.suffix]
             found == Append(R, r)
             next == R # <<>> => PositionOf(r) = NextOf(R, max)
  <2>1. n \in Index /\ l.suffix \in Suffix /\ ~IsFolder(l)
    BY <1>8, TextForms
  <2>2. d = Append(c, RecordLine(n, l.suffix))
    BY <1>8, CanonicalOf
  <2>3. q.records = found /\ q.folder = f
    BY <1>8, SayOf
  <2>4. WellWritten(d, found, f, max) <=>
          /\ WellWritten(c, R, f, max)
          /\ f # NoFolder
          /\ next
          /\ Follows(found, max)
    BY <1>1, <2>1, <2>2, RecordStep
  <2>5. s.ok => t = ReadRecord(s, l, max)
    BY <1>8, ReadLineOf
  <2>6. s.ok =>
          (t.ok <=> /\ f # NoFolder
                    /\ R # <<>> => PositionOf(r) = s.next
                    /\ Follows(found, max))
    BY <1>4, <1>8, <2>5, ReadRecordOf
  <2>7. s.ok /\ t.ok =>
          /\ t.current = s.current /\ t.records = found
          /\ t.folders = s.folders
          /\ t.next = NextOf(found, max)
          /\ t.rewrite <=> s.rewrite
    BY <1>4, <1>8, <2>5, ReadRecordOf
  <2>8. {found[i].folder : i \in 1 .. Len(found)}
          = {R[i].folder : i \in 1 .. Len(R)} \cup {f}
    <3>1. r \in Said /\ r.folder = f
      BY <1>1, <2>1 DEF Said
    <3> HIDE DEF r, R
    <3>2. /\ Len(found) = Len(R) + 1 /\ Len(R) \in Nat
          /\ found[Len(R) + 1] = r
          /\ \A i \in 1 .. Len(R) : found[i] = R[i]
      BY <1>1, <3>1
    <3> HIDE DEF found
    <3>3. 1 .. Len(found) = 1 .. Len(R) \cup {Len(R) + 1}
      BY <3>2
    <3> QED
      BY <3>1, <3>2, <3>3
  <2> HIDE DEF t, q, d, R, f, n, r, found
  <2>9. t.ok <=> WellWritten(d, found, f, max) /\ (legacy \/ ~unpadded)
    <3>1. CASE s.ok
      BY <1>3, <1>4, <2>4, <2>6, <3>1
    <3>2. CASE ~s.ok
      BY <1>3, <1>6, <2>4, <3>2
    <3> QED
      BY <3>1, <3>2
  <2>10. t.ok => s.ok /\ f # NoFolder
    BY <1>6, <2>6
  <2>11. t.ok =>
       /\ t.records = found
       /\ t.current = f
       /\ t.folders = {found[i].folder : i \in 1 .. Len(found)}
                        \cup ({f} \ {NoFolder})
       /\ t.next = NextOf(found, max)
       /\ t.rewrite <=> first \/ unpadded
    <3>1. t.ok => t.folders = {found[i].folder : i \in 1 .. Len(found)}
                        \cup ({f} \ {NoFolder})
      BY <1>4, <2>7, <2>8, <2>10
    <3> QED
      BY <1>4, <2>7, <2>10, <3>1
  <2> QED
    BY <1>2, <2>1, <2>3, <2>9, <2>11 DEF Agree, t, q, d
<1>9. CASE ~IsFolder(l) /\ ~IsRecord(l)
  <2>1. ~t.ok
    BY <1>9, ReadLineOf
  <2>2. q = p
    BY <1>9, SayOf
  <2>3. /\ CanonicalLine(l) \in Text
        /\ ~IsFolder(CanonicalLine(l)) /\ ~IsRecord(CanonicalLine(l))
    BY <1>9, CanonicalOf
  <2>4. ~WellWritten(d, R, f, max)
    BY <1>1, <2>3, OtherStep
  <2> HIDE DEF t, q, d
  <2> QED
    BY <1>2, <2>1, <2>2, <2>4 DEF Agree, t, q, d
<1> QED
  BY <1>7, <1>8, <1>9

CanonicalUpTo(body, k) == [i \in 1 .. k |-> CanonicalLine(body[i])]

Unpadded(body, k) == \E i \in 1 .. k : IsFolder(body[i]) /\ ~body[i].padded

LEMMA NothingReadAgrees ==
  ASSUME NEW lines, HeadLength(lines) > 0, NEW max, NEW legacy \in BOOLEAN
  PROVE  Agree(Unread(lines), [folder |-> NoFolder, records |-> <<>>], <<>>,
               FALSE, HeadLength(lines) = 2, max, legacy)
<1>1. Saying(<<>>, <<>>, NoFolder)
  <2>1. <<>> \in Seq(Said) /\ NoFolder \in Folder /\ Len(<<>>) = 0
    BY DEF Folder
  <2> QED
    BY <2>1 DEF Saying
<1>2. Pending(<<>>, NoFolder) = <<>>
  BY DEF Pending, FolderIsEmpty
<1>3. ValidRecords(<<>>, max)
  BY DEF ValidRecords
<1>4. <<>> \o <<>> = <<>>
  OBVIOUS
<1>5. WellWritten(<<>>, <<>>, NoFolder, max)
  BY <1>2, <1>3, <1>4, BodyOfNothing, Zenon DEF WellWritten
<1>6. NextOf(<<>>, max) = Origin
  BY DEF NextOf
<1>7. {<<>>[i].folder : i \in 1 .. Len(<<>>)} \cup ({NoFolder} \ {NoFolder})
        = {}
  <2>1. 1 .. Len(<<>>) = {}
    OBVIOUS
  <2> QED
    BY <2>1
<1>8. /\ Unread(lines).ok /\ Unread(lines).records = <<>>
      /\ Unread(lines).current = NoFolder /\ Unread(lines).folders = {}
      /\ Unread(lines).next = Origin
      /\ Unread(lines).rewrite <=> HeadLength(lines) = 2
  BY DEF Unread
<1> DEFINE p == [folder |-> NoFolder, records |-> <<>>]
<1>9. p.folder = NoFolder /\ p.records = <<>>
  OBVIOUS
<1> HIDE DEF p
<1>10. Agree(Unread(lines), p, <<>>, FALSE, HeadLength(lines) = 2, max, legacy)
  BY <1>1, <1>5, <1>6, <1>7, <1>8, <1>9 DEF Agree
<1> QED
  BY <1>10 DEF p

LEMMA CanonicalGrows ==
  ASSUME NEW body \in Seq(IndexTextLine), NEW k \in Nat, k + 1 <= Len(body)
  PROVE  /\ CanonicalUpTo(body, k) \in Seq(Text)
         /\ CanonicalUpTo(body, k + 1)
              = Append(CanonicalUpTo(body, k), CanonicalLine(body[k + 1]))
         /\ Unpadded(body, k + 1)
              <=> \/ Unpadded(body, k)
                  \/ IsFolder(body[k + 1]) /\ ~body[k + 1].padded
<1>1. \A i \in 1 .. k + 1 : body[i] \in IndexTextLine
  OBVIOUS
<1>2. \A i \in 1 .. k + 1 : CanonicalLine(body[i]) \in Text
  BY <1>1, CanonicalOf
<1>3. CanonicalUpTo(body, k) \in Seq(Text)
  BY <1>2 DEF CanonicalUpTo
<1>4. CanonicalUpTo(body, k + 1)
        = Append(CanonicalUpTo(body, k), CanonicalLine(body[k + 1]))
  <2> DEFINE a == CanonicalUpTo(body, k)
             b == CanonicalUpTo(body, k + 1)
             m == CanonicalLine(body[k + 1])
  <2>1. /\ b \in Seq(Text) /\ Len(b) = k + 1 /\ Len(a) = k
        /\ \A i \in 1 .. k : a[i] = b[i]
        /\ b[k + 1] = m
    BY <1>2 DEF CanonicalUpTo
  <2>2. a \in Seq(Text) /\ m \in Text
    BY <1>2, <1>3
  <2> HIDE DEF a, b, m
  <2>3. /\ Append(a, m) \in Seq(Text) /\ Len(Append(a, m)) = k + 1
        /\ Append(a, m)[k + 1] = m
        /\ \A i \in 1 .. k : Append(a, m)[i] = a[i]
    BY <2>1, <2>2
  <2>4. \A i \in 1 .. k + 1 : b[i] = Append(a, m)[i]
    <3> SUFFICES ASSUME NEW i \in 1 .. k + 1
                 PROVE  b[i] = Append(a, m)[i]
      OBVIOUS
    <3>1. i = k + 1 \/ i \in 1 .. k
      OBVIOUS
    <3> QED
      BY <2>1, <2>3, <3>1
  <2>5. b = Append(a, m)
    BY <2>1, <2>3, <2>4
  <2> QED
    BY <2>5 DEF a, b, m
<1>5. 1 .. k + 1 = 1 .. k \cup {k + 1}
  OBVIOUS
<1> QED
  BY <1>3, <1>4, <1>5 DEF Unpadded

LEMMA LoopAgrees ==
  ASSUME NEW lines \in Seq(IndexTextLine), HeadLength(lines) > 0,
         NEW legacy \in BOOLEAN
  PROVE  LET body == BodyOf(lines)
             n    == Len(body)
         IN Agree(Reads(lines, legacy)[n], Sayings(body)[n],
                  CanonicalUpTo(body, n), Unpadded(body, n),
                  HeadLength(lines) = 2, Settings(lines).max, legacy)
<1> DEFINE body == BodyOf(lines)
           n == Len(body)
           max == Settings(lines).max
           first == HeadLength(lines) = 2
           read == Reads(lines, legacy)
           said == Sayings(body)
           S == {m \in Nat : m <= n =>
                   Agree(read[m], said[m], CanonicalUpTo(body, m),
                         Unpadded(body, m), first, max, legacy)}
<1>1. /\ body \in Seq(IndexTextLine) /\ n \in Nat /\ first \in BOOLEAN
      /\ \A k \in 1 .. n : body[k] \in IndexTextLine
  BY BodyType
<1>2. /\ read \in [0 .. n -> ReadState] /\ read[0] = Unread(lines)
      /\ \A k \in 1 .. n :
           read[k] = ReadLine(read[k - 1], body[k], max, legacy)
  BY ReadsAreDefined
<1>3. /\ said \in [0 .. n -> SayState]
      /\ said[0] = [folder |-> NoFolder, records |-> <<>>]
      /\ \A k \in 1 .. n : said[k] = Say(said[k - 1], body[k])
  BY <1>1, SayingsAreDefined
<1>4. 0 \in S
  <2>1. Unpadded(body, 0) = FALSE
    BY DEF Unpadded
  <2>2. CanonicalUpTo(body, 0) = <<>>
    BY DEF CanonicalUpTo
  <2>3. Agree(read[0], said[0], <<>>, FALSE, first, max, legacy)
    BY <1>2, <1>3, NothingReadAgrees
  <2> HIDE DEF body, n, max, first, read, said
  <2> QED
    BY <2>1, <2>2, <2>3
<1> HIDE DEF body, n, max, first, read, said
<1>5. ASSUME NEW m \in Nat, m \in S
      PROVE  m + 1 \in S
  <2>1. SUFFICES ASSUME m + 1 <= n
                 PROVE  Agree(read[m + 1], said[m + 1],
                              CanonicalUpTo(body, m + 1),
                              Unpadded(body, m + 1), first, max, legacy)
    OBVIOUS
  <2>2. m + 1 \in 1 .. n /\ (m + 1) - 1 = m /\ m \in 0 .. n
    BY <1>1, <2>1
  <2> DEFINE s == read[m]
             p == said[m]
             c == CanonicalUpTo(body, m)
             l == body[m + 1]
             u == Unpadded(body, m)
  <2>3. Agree(s, p, c, u, first, max, legacy)
    BY <1>5, <2>2, <1>1
  <2>4. s \in ReadState /\ p \in SayState /\ l \in IndexTextLine
    BY <1>1, <1>2, <1>3, <2>2
  <2>5. u \in BOOLEAN
    BY DEF Unpadded
  <2>6. /\ c \in Seq(Text)
        /\ CanonicalUpTo(body, m + 1) = Append(c, CanonicalLine(l))
        /\ Unpadded(body, m + 1) <=> u \/ (IsFolder(l) /\ ~l.padded)
    BY <1>1, <2>1, CanonicalGrows DEF n
  <2>7. read[m + 1] = ReadLine(s, l, max, legacy)
    <3>1. read[m + 1] = ReadLine(read[(m + 1) - 1], body[m + 1], max, legacy)
      BY <1>2, <2>2
    <3> QED
      BY <2>2, <3>1
  <2>8. said[m + 1] = Say(p, l)
    <3>1. said[m + 1] = Say(said[(m + 1) - 1], body[m + 1])
      BY <1>3, <2>2
    <3> QED
      BY <2>2, <3>1
  <2>9. Unpadded(body, m + 1) = (u \/ (IsFolder(l) /\ ~l.padded))
    BY <2>6 DEF Unpadded
  <2> HIDE DEF s, p, c, l, u
  <2>10. Agree(ReadLine(s, l, max, legacy), Say(p, l),
               Append(c, CanonicalLine(l)),
               u \/ (IsFolder(l) /\ ~l.padded), first, max, legacy)
    BY <1>1, <2>3, <2>4, <2>5, <2>6, OneLineMore
  <2> QED
    BY <2>6, <2>7, <2>8, <2>9, <2>10
<1>6. n \in S
  <2> HIDE DEF S
  <2> QED
    BY <1>1, <1>4, <1>5, SetInduction
<1>7. Agree(read[n], said[n], CanonicalUpTo(body, n), Unpadded(body, n),
            first, max, legacy)
  BY <1>1, <1>6
<1> QED
  BY <1>7 DEF read, said, n, body, first, max

\* Whatever is below a head that is not as it has to be is rejected.
LEMMA WithoutHeadRejected ==
  ASSUME NEW lines \in Seq(IndexTextLine), HeadLength(lines) = 0,
         NEW legacy \in BOOLEAN
  PROVE  ~ReadIndex(lines, legacy).ok
<1> DEFINE body == BodyOf(lines)
           n == Len(body)
           max == Settings(lines).max
           read == Reads(lines, legacy)
           S == {m \in Nat : m <= n => ~read[m].ok}
<1>1. n \in Nat /\ \A k \in 1 .. n : body[k] \in IndexTextLine
  BY BodyType
<1>2. /\ read \in [0 .. n -> ReadState] /\ read[0] = Unread(lines)
      /\ \A k \in 1 .. n :
           read[k] = ReadLine(read[k - 1], body[k], max, legacy)
      /\ ReadIndex(lines, legacy) = read[n]
  BY ReadsAreDefined
<1>3. 0 \in S
  <2>1. ~Unread(lines).ok
    <3>1. ~(HeadLength(lines) > 0)
      OBVIOUS
    <3> QED
      BY <3>1, Zenon DEF Unread
  <2> QED
    BY <1>2, <2>1
<1> HIDE DEF body, n, max, read
<1>4. ASSUME NEW m \in Nat, m \in S
      PROVE  m + 1 \in S
  <2>1. SUFFICES ASSUME m + 1 <= n
                 PROVE  ~read[m + 1].ok
    OBVIOUS
  <2>2. m + 1 \in 1 .. n /\ (m + 1) - 1 = m /\ m \in 0 .. n
    BY <1>1, <2>1
  <2>3. ~read[m].ok /\ read[m] \in ReadState /\ body[m + 1] \in IndexTextLine
    BY <1>1, <1>2, <1>4, <2>2
  <2>4. read[m + 1] = ReadLine(read[(m + 1) - 1], body[m + 1], max, legacy)
    BY <1>2, <2>2
  <2>5. read[m + 1] = ReadLine(read[m], body[m + 1], max, legacy)
    BY <2>2, <2>4
  <2> QED
    BY <2>3, <2>5, ReadLineOf
<1>5. n \in S
  <2> HIDE DEF S
  <2> QED
    BY <1>1, <1>3, <1>4, SetInduction
<1> QED
  BY <1>1, <1>2, <1>5

\* What the loop makes of the lines below a head.
LEMMA LoopIsExact ==
  ASSUME NEW lines \in Seq(IndexTextLine), HeadLength(lines) > 0,
         NEW legacy \in BOOLEAN
  PROVE  LET s    == ReadIndex(lines, legacy)
             body == BodyOf(lines)
             says == PlainRecords(body)
             max  == Settings(lines).max
             odd  == Unpadded(body, Len(body))
         IN /\ says \in Seq(Said)
            /\ Accepted(s) <=>
                 /\ legacy \/ ~odd
                 /\ CanonicalUpTo(body, Len(body)) = BodyLines(says)
                 /\ ValidRecords(says, max)
            /\ Accepted(s) =>
                 /\ s.records = says
                 /\ s.next = NextOf(says, max)
                 /\ s.rewrite <=> HeadLength(lines) = 2 \/ odd
<1> DEFINE s == ReadIndex(lines, legacy)
           body == BodyOf(lines)
           p == Sayings(body)[Len(body)]
           says == PlainRecords(body)
           f == p.folder
           max == Settings(lines).max
           odd == Unpadded(body, Len(body))
           first == HeadLength(lines) = 2
           c == CanonicalUpTo(body, Len(body))
<1>1. s = Reads(lines, legacy)[Len(body)]
  BY ReadsAreDefined
<1>2. says = p.records /\ p \in SayState
  <2>1. body \in Seq(IndexTextLine) /\ Len(body) \in 0 .. Len(body)
    BY BodyType
  <2> HIDE DEF body
  <2> QED
    BY <2>1, SayingsAreDefined
<1>3. Agree(s, p, c, odd, first, max, legacy)
  BY <1>1, LoopAgrees
<1>4. says \in Seq(Said) /\ Saying(c, says, f)
  BY <1>2, <1>3 DEF SayState, Agree
<1>5. /\ s.ok <=> WellWritten(c, says, f, max) /\ (legacy \/ ~odd)
      /\ s.ok => /\ s.records = says /\ s.current = f
                 /\ s.next = NextOf(says, max)
                 /\ s.rewrite <=> first \/ odd
  BY <1>2, <1>3 DEF Agree
<1> HIDE DEF s, p, c, odd, first, max, f, body, says
<1>6. s.ok => (LastFolderEmpty(s) <=> FolderIsEmpty(says, f))
  <2>1. DOMAIN says = 1 .. Len(says)
    BY <1>4
  <2> QED
    BY <1>5, <2>1 DEF LastFolderEmpty, FolderIsEmpty
<1>7. c = BodyLines(says) => ~FolderIsEmpty(says, f)
  BY <1>4, WrittenIsDone
<1>8. WellWritten(c, says, f, max) /\ ~FolderIsEmpty(says, f) <=>
        c = BodyLines(says) /\ ValidRecords(says, max)
  <2>1. BodyLines(says) \o <<>> = BodyLines(says)
    <3>1. BodyLines(says) \in Seq(BodyLine)
      BY <1>4, BodiesAreDefined
    <3> QED
      BY <3>1
  <2>2. ~FolderIsEmpty(says, f) => Pending(says, f) = <<>>
    BY DEF Pending
  <2> QED
    BY <1>7, <2>1, <2>2, Zenon DEF WellWritten
<1>9. Accepted(s) <=> /\ legacy \/ ~odd
                      /\ c = BodyLines(says)
                      /\ ValidRecords(says, max)
  BY <1>5, <1>6, <1>8 DEF Accepted
<1>10. Accepted(s) => /\ s.records = says
                      /\ s.next = NextOf(says, max)
                      /\ s.rewrite <=> first \/ odd
  BY <1>5 DEF Accepted
<1> QED
  BY <1>4, <1>9, <1>10 DEF s, c, odd, first, max, says, body

-----------------------------------------------------------------------------
(* The head                                                                *)

IsVersion(line) == line.kind = "version"
IsFolders(line) == line.kind = "folders"
IsMax(line)     == line.kind = "max"
IsSize(line)    == line.kind = "size"

LEMMA HeadForms ==
  /\ \A l \in IndexTextLine :
       /\ IsVersion(l) <=> l = VersionLine
       /\ IsFolders(l) <=> l = FoldersLine
       /\ IsMax(l) => l.n \in Nat /\ l = MaxLine(l.n)
       /\ IsSize(l) => l.n \in Nat /\ l = SizeLine(l.n)
       /\ ~(IsFolders(l) /\ IsMax(l))
       /\ IsVersion(l) \/ IsFolders(l) \/ IsMax(l) \/ IsSize(l)
            => ~IsFolder(l)
  /\ IsVersion(VersionLine) /\ IsFolders(FoldersLine)
  /\ \A n : IsMax(MaxLine(n)) /\ IsSize(SizeLine(n))
            /\ MaxLine(n).n = n /\ SizeLine(n).n = n
<1>1. ASSUME NEW l \in IndexTextLine
      PROVE  /\ IsVersion(l) <=> l = VersionLine
             /\ IsFolders(l) <=> l = FoldersLine
             /\ IsMax(l) => l.n \in Nat /\ l = MaxLine(l.n)
             /\ IsSize(l) => l.n \in Nat /\ l = SizeLine(l.n)
             /\ ~(IsFolders(l) /\ IsMax(l))
             /\ IsVersion(l) \/ IsFolders(l) \/ IsMax(l) \/ IsSize(l)
                  => ~IsFolder(l)
  <2>1. CASE l \in {VersionLine, FoldersLine, OtherLine}
    BY <2>1 DEF VersionLine, FoldersLine, OtherLine, IsFolder, IsVersion,
                IsFolders, IsMax, IsSize
  <2>2. CASE \E n \in Nat : l = MaxLine(n)
    BY <2>2 DEF MaxLine, VersionLine, FoldersLine, IsFolder, IsVersion,
                IsFolders, IsMax, IsSize
  <2>3. CASE \E n \in Nat : l = SizeLine(n)
    BY <2>3 DEF SizeLine, VersionLine, FoldersLine, IsFolder, IsVersion,
                IsFolders, IsMax, IsSize
  <2>4. CASE \E n \in Index, padded \in BOOLEAN : l = FolderLine(n, padded)
    BY <2>4 DEF FolderLine, VersionLine, FoldersLine, IsFolder, IsVersion,
                IsFolders, IsMax, IsSize
  <2>5. CASE \E n \in Index, s \in Suffix : l = RecordLine(n, s)
    BY <2>5 DEF RecordLine, VersionLine, FoldersLine, IsFolder, IsVersion,
                IsFolders, IsMax, IsSize
  <2> QED
    BY <2>1, <2>2, <2>3, <2>4, <2>5 DEF IndexTextLine
<1>2. /\ IsVersion(VersionLine) /\ IsFolders(FoldersLine)
      /\ \A n : IsMax(MaxLine(n)) /\ IsSize(SizeLine(n))
                /\ MaxLine(n).n = n /\ SizeLine(n).n = n
  BY DEF VersionLine, FoldersLine, MaxLine, SizeLine, IsVersion, IsFolders,
         IsMax, IsSize
<1> QED
  BY <1>1, <1>2

LEMMA HeadLengthOf ==
  ASSUME NEW lines
  PROVE  HeadLength(lines) =
           IF Len(lines) >= 2 /\ IsVersion(lines[1]) /\ IsFolders(lines[2])
             THEN 2
           ELSE IF /\ Len(lines) >= 4
                   /\ IsVersion(lines[1])
                   /\ IsMax(lines[2]) /\ lines[2].n > 0
                   /\ IsSize(lines[3]) /\ lines[3].n > 0
                   /\ IsFolders(lines[4])
             THEN 4
           ELSE 0
  BY Zenon DEF HeadLength, IsVersion, IsMax, IsSize, IsFolders

\* What the lines say, settings first.
LEMMA PlainOf ==
  ASSUME NEW lines \in Seq(IndexTextLine)
  PROVE  LET headed == Len(lines) > 1 /\ IsMax(lines[2])
             says   == Plain(lines)
         IN /\ says.headed = headed
            /\ says.max \in Nat /\ says.size \in Nat
            /\ ~headed => /\ says.max = DefaultMaxFileNum
                          /\ says.size = DefaultSegmentSize
                          /\ says.records = PlainRecords(SubSeq(lines, 3, Len(lines)))
            /\ headed =>
                 /\ says.max = lines[2].n
                 /\ Len(lines) > 2 /\ IsSize(lines[3])
                      => says.size = lines[3].n
                 /\ says.records = PlainRecords(SubSeq(lines, 5, Len(lines)))
            /\ says.records \in Seq(Said)
<1> DEFINE headed == Len(lines) > 1 /\ IsMax(lines[2])
           sized == headed /\ Len(lines) > 2 /\ IsSize(lines[3])
           max == IF headed THEN lines[2].n ELSE DefaultMaxFileNum
           size == IF sized THEN lines[3].n ELSE DefaultSegmentSize
           below == SubSeq(lines, IF headed THEN 5 ELSE 3, Len(lines))
<1>1. Plain(lines) = [headed |-> headed, max |-> max, size |-> size,
                      records |-> PlainRecords(below)]
  BY Zenon DEF Plain, IsMax, IsSize
<1>2. max \in Nat /\ size \in Nat
  <2>1. headed => lines[2] \in IndexTextLine
    OBVIOUS
  <2>2. sized => lines[3] \in IndexTextLine
    OBVIOUS
  <2>3. headed => lines[2].n \in Nat
    BY <2>1, HeadForms
  <2>4. sized => lines[3].n \in Nat
    BY <2>2, HeadForms
  <2>5. DefaultMaxFileNum \in Nat /\ DefaultSegmentSize \in Nat
    BY StorageIndexAssumption
  <2> QED
    BY <2>3, <2>4, <2>5
<1>3. PlainRecords(below) \in Seq(Said)
  <2>1. below \in Seq(IndexTextLine)
    <3>1. /\ SubSeq(lines, 3, Len(lines)) \in Seq(IndexTextLine)
          /\ SubSeq(lines, 5, Len(lines)) \in Seq(IndexTextLine)
      OBVIOUS
    <3> QED
      BY <3>1
  <2> HIDE DEF below
  <2>2. Sayings(below)[Len(below)] \in SayState
    <3>1. Len(below) \in 0 .. Len(below)
      BY <2>1
    <3> QED
      BY <2>1, <3>1, SayingsAreDefined
  <2> QED
    BY <2>1, <2>2, SayingsAreDefined DEF SayState
<1>4. below = IF headed THEN SubSeq(lines, 5, Len(lines))
              ELSE SubSeq(lines, 3, Len(lines))
  OBVIOUS
<1> HIDE DEF below
<1> QED
  BY <1>1, <1>2, <1>3, <1>4

\* The lines that are written, one by one.
LEMMA WrittenOf ==
  ASSUME NEW content, content.records \in Seq(Said),
         content.max \in Nat, content.size \in Nat
  PROVE  LET w == WrittenLines(content)
             b == BodyLines(content.records)
             h == IF content.headed THEN 4 ELSE 2
         IN /\ w \in Seq(Text) /\ b \in Seq(Text)
            /\ Len(w) = h + Len(b)
            /\ w[1] = VersionLine /\ w[h] = FoldersLine
            /\ content.headed => /\ w[2] = MaxLine(content.max)
                                 /\ w[3] = SizeLine(content.size)
            /\ \A i \in 1 .. Len(b) : w[h + i] = b[i]
<1> DEFINE v == VersionLine
           f == FoldersLine
           m == MaxLine(content.max)
           s == SizeLine(content.size)
           b == BodyLines(content.records)
           w == WrittenLines(content)
<1>1. v \in Text /\ f \in Text /\ m \in Text /\ s \in Text
  BY DEF Text, IndexTextLine
<1>2. b \in Seq(Text)
  <2>1. b \in Seq(BodyLine)
    BY BodiesAreDefined
  <2> HIDE DEF b
  <2> QED
    BY <2>1 DEF Text
<1>3. w = <<v>> \o (IF content.headed THEN <<m, s>> ELSE <<>>) \o <<f>> \o b
  BY DEF WrittenLines
<1> HIDE DEF v, f, m, s, b, w
<1> DEFINE one == <<v>>
           middle == IF content.headed THEN <<m, s>> ELSE <<>>
           end == <<f>>
           x == one \o middle
           a == x \o end
           k == Len(middle)
<1>4. /\ one \in Seq(Text) /\ Len(one) = 1 /\ one[1] = v
      /\ end \in Seq(Text) /\ Len(end) = 1 /\ end[1] = f
      /\ middle \in Seq(Text)
      /\ content.headed => k = 2 /\ middle[1] = m /\ middle[2] = s
      /\ ~content.headed => k = 0
  BY <1>1
<1>5. w = a \o b
  BY <1>3
<1> HIDE DEF one, middle, end
<1>6. x \in Seq(Text) /\ IsJoined(x, one, middle)
  BY <1>4, Joined
<1> HIDE DEF x
<1>7. a \in Seq(Text) /\ IsJoined(a, x, end)
  BY <1>4, <1>6, Joined
<1> HIDE DEF a
<1>8. w \in Seq(Text) /\ IsJoined(w, a, b)
  BY <1>2, <1>5, <1>7, Joined
<1>9. Len(x) = 1 + k /\ x[1] = v /\ k \in Nat
      /\ \A i \in 1 .. k : x[1 + i] = middle[i]
  <2>1. 1 \in 1 .. Len(one)
    BY <1>4
  <2> QED
    BY <1>4, <1>6, <2>1 DEF IsJoined
<1>10. /\ Len(a) = 2 + k /\ a[2 + k] = f
       /\ \A i \in 1 .. 1 + k : a[i] = x[i]
  <2>1. 1 \in 1 .. Len(end)
    BY <1>4
  <2>2. Len(x) + 1 = 2 + k
    BY <1>9
  <2> QED
    BY <1>4, <1>7, <1>9, <2>1, <2>2 DEF IsJoined
<1>11. /\ Len(w) = (2 + k) + Len(b)
       /\ \A i \in 1 .. 2 + k : w[i] = a[i]
       /\ \A i \in 1 .. Len(b) : w[(2 + k) + i] = b[i]
  BY <1>8, <1>10 DEF IsJoined
<1> HIDE DEF k
<1>12. w[1] = v /\ w[2 + k] = f
  <2>1. 1 \in 1 .. 1 + k /\ 1 \in 1 .. 2 + k /\ 2 + k \in 1 .. 2 + k
    BY <1>9
  <2> QED
    BY <1>9, <1>10, <1>11, <2>1
<1>13. CASE content.headed
  <2>1. k = 2
    BY <1>4, <1>13
  <2>2. x[2] = m /\ x[3] = s
    <3>1. x[1 + 1] = middle[1] /\ x[1 + 2] = middle[2]
      BY <1>9, <2>1
    <3> QED
      BY <1>4, <1>13, <3>1
  <2>3. w[2] = m /\ w[3] = s
    <3>1. a[2] = x[2] /\ a[3] = x[3]
      BY <1>10, <2>1
    <3>2. w[2] = a[2] /\ w[3] = a[3]
      BY <1>11, <2>1
    <3> QED
      BY <2>2, <3>1, <3>2
  <2>4. /\ Len(w) = 4 + Len(b) /\ w[4] = f
        /\ \A i \in 1 .. Len(b) : w[4 + i] = b[i]
    BY <1>11, <1>12, <2>1
  <2> QED
    BY <1>2, <1>8, <1>12, <1>13, <2>3, <2>4 DEF v, f, m, s, b, w
<1>14. CASE ~content.headed
  <2>1. k = 0
    BY <1>4, <1>14
  <2>2. /\ Len(w) = 2 + Len(b) /\ w[2] = f
        /\ \A i \in 1 .. Len(b) : w[2 + i] = b[i]
    BY <1>11, <1>12, <2>1
  <2> QED
    BY <1>2, <1>8, <1>12, <1>14, <2>2 DEF v, f, b, w
<1> QED
  BY <1>13, <1>14

LEMMA CanonicalType ==
  ASSUME NEW lines \in Seq(IndexTextLine)
  PROVE  /\ Canonical(lines) \in Seq(Text)
         /\ Len(Canonical(lines)) = Len(lines)
         /\ \A i \in 1 .. Len(lines) :
              /\ Canonical(lines)[i] = CanonicalLine(lines[i])
              /\ ~IsFolder(Canonical(lines)[i])
                   => Canonical(lines)[i] = lines[i]
<1>1. Canonical(lines) = [i \in DOMAIN lines |-> CanonicalLine(lines[i])]
  BY DEF Canonical, CanonicalLine, IsFolder
<1>2. \A i \in 1 .. Len(lines) : lines[i] \in IndexTextLine
  OBVIOUS
<1>3. \A i \in 1 .. Len(lines) : CanonicalLine(lines[i]) \in Text
  BY <1>2, CanonicalOf
<1>4. DOMAIN lines = 1 .. Len(lines) /\ Len(lines) \in Nat
  OBVIOUS
<1>5. /\ Canonical(lines) \in Seq(Text)
      /\ Len(Canonical(lines)) = Len(lines)
      /\ \A i \in 1 .. Len(lines) :
              Canonical(lines)[i] = CanonicalLine(lines[i])
  BY <1>1, <1>3, <1>4
<1>6. \A i \in 1 .. Len(lines) :
        ~IsFolder(CanonicalLine(lines[i])) => CanonicalLine(lines[i]) = lines[i]
  BY <1>2, CanonicalOf DEF CanonicalLine
<1> QED
  BY <1>5, <1>6

\* What is written, and what was written before there were settings, has a
\* head.
LEMMA WrittenHasHead ==
  ASSUME NEW lines \in Seq(IndexTextLine),
         Canonical(lines) = WrittenLines(Plain(lines)),
         Plain(lines).max > 0, Plain(lines).size > 0
  PROVE  HeadLength(lines) > 0
<1> DEFINE says == Plain(lines)
           w == WrittenLines(says)
           b == BodyLines(says.records)
           h == IF says.headed THEN 4 ELSE 2
           headed == Len(lines) > 1 /\ IsMax(lines[2])
<1>1. /\ says.records \in Seq(Said) /\ says.max \in Nat /\ says.size \in Nat
      /\ says.headed = headed
      /\ headed => says.max = lines[2].n
      /\ headed /\ Len(lines) > 2 /\ IsSize(lines[3])
           => says.size = lines[3].n
  BY PlainOf
<1>2. /\ Len(w) = h + Len(b) /\ b \in Seq(Text)
      /\ w[1] = VersionLine /\ w[h] = FoldersLine
      /\ says.headed => /\ w[2] = MaxLine(says.max)
                        /\ w[3] = SizeLine(says.size)
  BY <1>1, WrittenOf
<1>3. /\ Len(w) = Len(lines)
      /\ \A i \in 1 .. Len(lines) : ~IsFolder(w[i]) => w[i] = lines[i]
      /\ \A i \in 1 .. Len(lines) : lines[i] \in IndexTextLine
  BY CanonicalType
<1>4. Len(lines) >= h /\ Len(lines) \in Nat
  <2>1. Len(b) \in Nat
    BY <1>2
  <2> HIDE DEF b, w, says
  <2> QED
    BY <1>2, <1>3, <2>1
<1>5. /\ VersionLine \in IndexTextLine /\ FoldersLine \in IndexTextLine
      /\ \A n \in Nat : MaxLine(n) \in IndexTextLine
                        /\ SizeLine(n) \in IndexTextLine
  BY DEF IndexTextLine
<1>6. /\ IsVersion(VersionLine) /\ IsFolders(FoldersLine)
      /\ \A n : IsMax(MaxLine(n)) /\ IsSize(SizeLine(n))
                /\ MaxLine(n).n = n /\ SizeLine(n).n = n
  BY HeadForms
<1>7. /\ ~IsFolder(VersionLine) /\ ~IsFolder(FoldersLine)
      /\ \A n \in Nat : ~IsFolder(MaxLine(n)) /\ ~IsFolder(SizeLine(n))
  BY <1>5, <1>6, HeadForms
<1> HIDE DEF says, w, b
<1>8. 1 \in 1 .. Len(lines) /\ h \in 1 .. Len(lines) /\ h >= 2
  BY <1>4
<1>9. IsVersion(lines[1])
  BY <1>2, <1>3, <1>6, <1>7, <1>8
<1>10. IsFolders(lines[h])
  <2> HIDE DEF h
  <2> QED
    BY <1>2, <1>3, <1>6, <1>7, <1>8
<1>11. CASE ~says.headed
  <2>1. h = 2
    BY <1>11
  <2>2. Len(lines) >= 2 /\ IsVersion(lines[1]) /\ IsFolders(lines[2])
    BY <1>4, <1>9, <1>10, <2>1
  <2>3. HeadLength(lines) = 2
    BY <2>2, HeadLengthOf
  <2> QED
    BY <2>3
<1>12. CASE says.headed
  <2>1. h = 4
    BY <1>12
  <2>2. 2 \in 1 .. Len(lines) /\ 3 \in 1 .. Len(lines) /\ Len(lines) > 2
    BY <1>4, <2>1
  <2>3. lines[2] = MaxLine(says.max) /\ lines[3] = SizeLine(says.size)
    BY <1>1, <1>2, <1>3, <1>7, <1>12, <2>2
  <2>4. says.max > 0 /\ says.size > 0
    BY DEF says
  <2>5. IsMax(lines[2]) /\ lines[2].n > 0
        /\ IsSize(lines[3]) /\ lines[3].n > 0
    BY <1>6, <2>3, <2>4
  <2>6. Len(lines) >= 4 /\ IsFolders(lines[4])
    BY <1>4, <1>10, <2>1
  <2>7. HeadLength(lines) \in {2, 4}
    BY <1>9, <2>5, <2>6, HeadLengthOf
  <2> QED
    BY <2>7
<1> QED
  BY <1>11, <1>12

LEMMA SettingsOf ==
  ASSUME NEW lines \in Seq(IndexTextLine), HeadLength(lines) > 0
  PROVE  LET says == Plain(lines)
             h    == HeadLength(lines)
         IN /\ h = IF says.headed THEN 4 ELSE 2
            /\ says.headed = Settings(lines).headed
            /\ says.max = Settings(lines).max /\ says.max > 0
            /\ says.size = Settings(lines).size /\ says.size > 0
            /\ says.records = PlainRecords(BodyOf(lines))
            /\ lines[1] = VersionLine /\ lines[h] = FoldersLine
            /\ says.headed => /\ lines[2] = MaxLine(says.max)
                              /\ lines[3] = SizeLine(says.size)
<1> DEFINE says == Plain(lines)
           h == HeadLength(lines)
           headed == Len(lines) > 1 /\ IsMax(lines[2])
<1>1. /\ says.headed = headed
      /\ ~headed => /\ says.max = DefaultMaxFileNum
                    /\ says.size = DefaultSegmentSize
                    /\ says.records
                         = PlainRecords(SubSeq(lines, 3, Len(lines)))
      /\ headed =>
           /\ says.max = lines[2].n
           /\ Len(lines) > 2 /\ IsSize(lines[3])
                => says.size = lines[3].n
           /\ says.records = PlainRecords(SubSeq(lines, 5, Len(lines)))
  BY PlainOf
<1>2. h = IF Len(lines) >= 2 /\ IsVersion(lines[1]) /\ IsFolders(lines[2])
             THEN 2
           ELSE IF /\ Len(lines) >= 4
                   /\ IsVersion(lines[1])
                   /\ IsMax(lines[2]) /\ lines[2].n > 0
                   /\ IsSize(lines[3]) /\ lines[3].n > 0
                   /\ IsFolders(lines[4])
             THEN 4
           ELSE 0
  BY HeadLengthOf
<1>3. \A i \in 1 .. Len(lines) : lines[i] \in IndexTextLine
  OBVIOUS
<1>4. Settings(lines) =
        IF h = 4 THEN [headed |-> TRUE, max |-> lines[2].n, size |-> lines[3].n]
        ELSE [headed |-> FALSE, max |-> DefaultMaxFileNum,
              size |-> DefaultSegmentSize]
  BY DEF Settings
<1>5. BodyOf(lines) = SubSeq(lines, h + 1, Len(lines))
  BY DEF BodyOf
<1>6. DefaultMaxFileNum > 0 /\ DefaultSegmentSize > 0
  BY StorageIndexAssumption
<1>7. h > 0 /\ Len(lines) \in Nat
  OBVIOUS
<1> HIDE DEF says, h
<1>8. CASE Len(lines) >= 2 /\ IsVersion(lines[1]) /\ IsFolders(lines[2])
  <2>1. h = 2 /\ 1 \in 1 .. Len(lines) /\ 2 \in 1 .. Len(lines)
    BY <1>2, <1>7, <1>8
  <2>2. lines[1] = VersionLine /\ lines[2] = FoldersLine /\ ~IsMax(lines[2])
    BY <1>3, <1>8, <2>1, HeadForms
  <2>3. ~says.headed
    BY <1>1, <2>2
  <2>4. Settings(lines) = [headed |-> FALSE, max |-> DefaultMaxFileNum,
                           size |-> DefaultSegmentSize]
    BY <1>4, <2>1
  <2>5. BodyOf(lines) = SubSeq(lines, 3, Len(lines))
    BY <1>5, <2>1
  <2>6. says.headed = FALSE
    BY <1>1, <2>3
  <2>7. /\ says.max = DefaultMaxFileNum
        /\ says.size = DefaultSegmentSize
        /\ says.records = PlainRecords(BodyOf(lines))
    BY <1>1, <2>3, <2>5
  <2>8. /\ h = IF says.headed THEN 4 ELSE 2
        /\ lines[h] = FoldersLine
    BY <2>1, <2>2, <2>6
  <2>9. /\ says.headed = Settings(lines).headed
        /\ says.max = Settings(lines).max /\ says.max > 0
        /\ says.size = Settings(lines).size /\ says.size > 0
    <3>1. /\ Settings(lines).headed = FALSE
          /\ Settings(lines).max = DefaultMaxFileNum
          /\ Settings(lines).size = DefaultSegmentSize
      BY <2>4
    <3>2. says.max > 0 /\ says.size > 0
      BY <1>6, <2>7
    <3> QED
      BY <2>6, <2>7, <3>1, <3>2, Zenon
  <2> QED
    BY <2>2, <2>3, <2>7, <2>8, <2>9, Zenon DEF says, h
<1>9. CASE ~(Len(lines) >= 2 /\ IsVersion(lines[1]) /\ IsFolders(lines[2]))
  <2>1. /\ h = 4 /\ Len(lines) >= 4
        /\ IsVersion(lines[1])
        /\ IsMax(lines[2]) /\ lines[2].n > 0
        /\ IsSize(lines[3]) /\ lines[3].n > 0
        /\ IsFolders(lines[4])
    BY <1>2, <1>7, <1>9
  <2>2. 1 \in 1 .. Len(lines) /\ 2 \in 1 .. Len(lines)
        /\ 3 \in 1 .. Len(lines) /\ 4 \in 1 .. Len(lines)
        /\ Len(lines) > 1 /\ Len(lines) > 2
    BY <1>7, <2>1
  <2>3. /\ lines[1] = VersionLine /\ lines[2] = MaxLine(lines[2].n)
        /\ lines[3] = SizeLine(lines[3].n) /\ lines[4] = FoldersLine
    BY <1>3, <2>1, <2>2, HeadForms
  <2>4. headed = TRUE
    BY <2>1, <2>2
  <2>5. says.max = lines[2].n /\ says.size = lines[3].n
        /\ says.records = PlainRecords(SubSeq(lines, 5, Len(lines)))
        /\ says.headed = TRUE
    BY <1>1, <2>1, <2>2, <2>4
  <2>6. Settings(lines)
          = [headed |-> TRUE, max |-> lines[2].n, size |-> lines[3].n]
    BY <1>4, <2>1
  <2>7. BodyOf(lines) = SubSeq(lines, 5, Len(lines))
    BY <1>5, <2>1
  <2>8. /\ h = IF says.headed THEN 4 ELSE 2
        /\ lines[h] = FoldersLine
    BY <2>1, <2>3, <2>5
  <2>9. /\ says.headed = Settings(lines).headed
        /\ says.max = Settings(lines).max /\ says.max > 0
        /\ says.size = Settings(lines).size /\ says.size > 0
    <3>1. /\ Settings(lines).headed = TRUE
          /\ Settings(lines).max = lines[2].n
          /\ Settings(lines).size = lines[3].n
      BY <2>6
    <3>2. says.max > 0 /\ says.size > 0
      BY <2>1, <2>5
    <3> QED
      BY <2>5, <3>1, <3>2, Zenon
  <2>10. /\ says.records = PlainRecords(BodyOf(lines))
         /\ lines[2] = MaxLine(says.max) /\ lines[3] = SizeLine(says.size)
    BY <2>3, <2>5, <2>7, Zenon
  <2> QED
    BY <2>3, <2>8, <2>9, <2>10, Zenon DEF says, h
<1> QED
  BY <1>8, <1>9

\* Below a head, the text is as it is written if the body is.
LEMMA TextOfBody ==
  ASSUME NEW lines \in Seq(IndexTextLine), HeadLength(lines) > 0
  PROVE  LET says == Plain(lines)
             body == BodyOf(lines)
         IN /\ Canonical(lines) = WrittenLines(says)
                 <=> CanonicalUpTo(body, Len(body)) = BodyLines(says.records)
            /\ Canonical(lines) = lines <=> ~Unpadded(body, Len(body))
<1> DEFINE says == Plain(lines)
           body == BodyOf(lines)
           n == Len(body)
           h == HeadLength(lines)
           w == WrittenLines(says)
           b == BodyLines(says.records)
           c == Canonical(lines)
           d == CanonicalUpTo(body, n)
<1>1. /\ body \in Seq(IndexTextLine) /\ Len(lines) = h + n /\ h \in {2, 4}
      /\ n \in Nat
      /\ \A k \in 1 .. n : body[k] = lines[h + k]
      /\ \A k \in 1 .. n : body[k] \in IndexTextLine
  BY BodyType
<1>2. /\ h = IF says.headed THEN 4 ELSE 2
      /\ lines[1] = VersionLine /\ lines[h] = FoldersLine
      /\ says.headed => /\ lines[2] = MaxLine(says.max)
                        /\ lines[3] = SizeLine(says.size)
  BY SettingsOf
<1>3. says.records \in Seq(Said) /\ says.max \in Nat /\ says.size \in Nat
  BY PlainOf
<1>4. /\ w \in Seq(Text) /\ b \in Seq(Text)
      /\ Len(w) = h + Len(b)
      /\ w[1] = VersionLine /\ w[h] = FoldersLine
      /\ says.headed => /\ w[2] = MaxLine(says.max)
                        /\ w[3] = SizeLine(says.size)
      /\ \A i \in 1 .. Len(b) : w[h + i] = b[i]
  BY <1>2, <1>3, WrittenOf
<1>5. /\ c \in Seq(Text) /\ Len(c) = Len(lines)
      /\ \A i \in 1 .. Len(lines) : c[i] = CanonicalLine(lines[i])
  BY CanonicalType
<1>6. d \in Seq(Text) /\ Len(d) = n
      /\ \A i \in 1 .. n : d[i] = CanonicalLine(body[i])
  <2>1. \A i \in 1 .. n : CanonicalLine(body[i]) \in Text
    BY <1>1, CanonicalOf
  <2> HIDE DEF n
  <2> QED
    BY <1>1, <2>1 DEF CanonicalUpTo
<1>7. \A i \in 1 .. Len(lines) : lines[i] \in IndexTextLine
  OBVIOUS
<1> HIDE DEF says, body, n, h, w, b, c, d
<1>8. \A i \in 1 .. Len(lines) : i \in 1 .. h \/ (i - h \in 1 .. n /\ i = h + (i - h))
  BY <1>1
<1>9. \A i \in 1 .. n : h + i \in 1 .. Len(lines) /\ c[h + i] = d[i]
  <2>1. \A i \in 1 .. n : h + i \in 1 .. Len(lines)
    BY <1>1
  <2> QED
    BY <1>1, <1>5, <1>6, <2>1
<1>10. \A i \in 1 .. h : i \in 1 .. Len(lines) /\ lines[i] = w[i]
                         /\ ~IsFolder(lines[i])
  <2>1. 1 .. h = IF says.headed THEN {1, 2, 3, 4} ELSE {1, 2}
    <3>1. 1 .. 4 = {1, 2, 3, 4} /\ 1 .. 2 = {1, 2}
      OBVIOUS
    <3> QED
      BY <1>2, <3>1, Zenon
  <2>2. \A i \in 1 .. h : lines[i] = w[i]
    BY <1>2, <1>4, <2>1
  <2>3. \A i \in 1 .. h : i \in 1 .. Len(lines)
    BY <1>1
  <2>4. \A i \in 1 .. h : lines[i] = VersionLine \/ lines[i] = FoldersLine
          \/ lines[i] = MaxLine(says.max) \/ lines[i] = SizeLine(says.size)
    BY <1>2, <2>1
  <2>5. \A i \in 1 .. h : IsVersion(lines[i]) \/ IsFolders(lines[i])
                          \/ IsMax(lines[i]) \/ IsSize(lines[i])
    BY <2>4, HeadForms
  <2> QED
    BY <1>7, <2>2, <2>3, <2>5, HeadForms
<1>11. \A i \in 1 .. h : c[i] = lines[i]
  BY <1>5, <1>10 DEF CanonicalLine
<1>12. c = w => d = b
  <2> SUFFICES ASSUME c = w
               PROVE  d = b
    OBVIOUS
  <2>1. Len(b) = n
    BY <1>1, <1>4, <1>5
  <2>2. \A i \in 1 .. n : d[i] = b[i]
    BY <1>4, <1>9, <2>1
  <2> QED
    BY <1>4, <1>6, <2>1, <2>2
<1>13. d = b => c = w
  <2> SUFFICES ASSUME d = b
               PROVE  c = w
    OBVIOUS
  <2>1. Len(b) = n /\ Len(c) = Len(w)
    BY <1>1, <1>4, <1>5, <1>6
  <2>2. \A i \in 1 .. Len(lines) : c[i] = w[i]
    BY <1>4, <1>8, <1>9, <1>10, <1>11, <2>1
  <2> QED
    BY <1>4, <1>5, <2>1, <2>2
<1>14. \A l \in IndexTextLine :
         CanonicalLine(l) = l <=> ~(IsFolder(l) /\ ~l.padded)
  <2> SUFFICES ASSUME NEW l \in IndexTextLine
               PROVE  CanonicalLine(l) = l <=> ~(IsFolder(l) /\ ~l.padded)
    OBVIOUS
  <2>1. CASE ~IsFolder(l)
    BY <2>1 DEF CanonicalLine
  <2>2. CASE IsFolder(l)
    <3>1. l = FolderLine(l.n, l.padded) /\ l.padded \in BOOLEAN
          /\ CanonicalLine(l) = FolderLine(l.n, TRUE)
      BY <2>2, TextForms, CanonicalOf
    <3>2. FolderLine(l.n, TRUE).padded = TRUE
      BY BodyForms
    <3> QED
      BY <2>2, <3>1, <3>2
  <2> QED
    BY <2>1, <2>2
<1>15. c = lines <=> \A i \in 1 .. n : CanonicalLine(body[i]) = body[i]
  <2>1. c = lines <=> \A i \in 1 .. Len(lines) : c[i] = lines[i]
    <3>1. lines \in Seq(Text)
      BY DEF Text
    <3> QED
      BY <1>5, <3>1
  <2>2. \A i \in 1 .. n :
          c[h + i] = lines[h + i] <=> CanonicalLine(body[i]) = body[i]
    BY <1>1, <1>6, <1>9
  <2> QED
    BY <1>8, <1>9, <1>11, <2>1, <2>2
<1>16. c = lines <=> ~Unpadded(body, n)
  BY <1>1, <1>14, <1>15 DEF Unpadded
<1> QED
  BY <1>12, <1>13, <1>16 DEF says, body, n, w, b, c, d

\* For every text of any number of lines, with any numbers in them: the loop
\* of load_index_file accepts exactly what save_atomic can have written of a
\* valid index, and what earlier formats had; it reads what the lines say.
THEOREM IndexTextIsExact ==
  ASSUME input \in Seq(IndexTextLine)
  PROVE  IndexTextExact
<1> SUFFICES ASSUME NEW legacy \in BOOLEAN
             PROVE  LET s       == ReadIndex(input, legacy)
                        written == Canonical(input)
                        says    == Plain(input)
                    IN /\ Accepted(s) <=>
                            /\ legacy \/ written = input
                            /\ written = WrittenLines(says)
                            /\ says.max > 0 /\ says.size > 0
                            /\ ValidRecords(says.records, says.max)
                       /\ Accepted(s) =>
                            /\ ReadContent(input, s) = says
                            /\ s.next = NextOf(says.records, says.max)
                            /\ s.rewrite <=> (~says.headed \/ written # input)
  BY Zenon DEF IndexTextExact
<1> DEFINE s == ReadIndex(input, legacy)
           says == Plain(input)
           body == BodyOf(input)
           odd == Unpadded(body, Len(body))
           c == CanonicalUpTo(body, Len(body))
<1>1. CASE HeadLength(input) > 0
  <2>1. /\ Accepted(s) <=>
             /\ legacy \/ ~odd
             /\ c = BodyLines(PlainRecords(body))
             /\ ValidRecords(PlainRecords(body), Settings(input).max)
        /\ Accepted(s) =>
             /\ s.records = PlainRecords(body)
             /\ s.next = NextOf(PlainRecords(body), Settings(input).max)
             /\ s.rewrite <=> HeadLength(input) = 2 \/ odd
    BY <1>1, LoopIsExact
  <2>2. /\ HeadLength(input) = IF says.headed THEN 4 ELSE 2
        /\ says.headed = Settings(input).headed
        /\ says.max = Settings(input).max /\ says.max > 0
        /\ says.size = Settings(input).size /\ says.size > 0
        /\ says.records = PlainRecords(body)
    BY <1>1, SettingsOf
  <2>3. /\ Canonical(input) = WrittenLines(says)
             <=> c = BodyLines(says.records)
        /\ Canonical(input) = input <=> ~odd
    BY <1>1, TextOfBody
  <2>4. HeadLength(input) = 2 <=> ~says.headed
    BY <2>2
  <2>5. Accepted(s) => ReadContent(input, s) = says
    <3>1. says = [headed |-> says.headed, max |-> says.max,
                  size |-> says.size, records |-> says.records]
      BY Zenon DEF Plain
    <3>2. ReadContent(input, s) =
            [headed |-> Settings(input).headed, max |-> Settings(input).max,
             size |-> Settings(input).size, records |-> s.records]
      BY Zenon DEF ReadContent
    <3> HIDE DEF s, says, body, odd, c
    <3> QED
      BY <2>1, <2>2, <3>1, <3>2
  <2> HIDE DEF s, says, body, odd, c
  <2>6. /\ Accepted(s) <=>
             /\ legacy \/ Canonical(input) = input
             /\ Canonical(input) = WrittenLines(says)
             /\ says.max > 0 /\ says.size > 0
             /\ ValidRecords(says.records, says.max)
        /\ Accepted(s) =>
             /\ ReadContent(input, s) = says
             /\ s.next = NextOf(says.records, says.max)
             /\ s.rewrite <=> (~says.headed \/ Canonical(input) # input)
    BY <2>1, <2>2, <2>3, <2>4, <2>5
  <2> QED
    BY <2>6 DEF s, says
<1>2. CASE ~(HeadLength(input) > 0)
  <2>1. HeadLength(input) = 0
    BY <1>2, BodyType
  <2>2. ~Accepted(s)
    BY <2>1, WithoutHeadRejected DEF Accepted
  <2>3. ~(Canonical(input) = WrittenLines(says) /\ says.max > 0 /\ says.size > 0)
    BY <1>2, WrittenHasHead
  <2> HIDE DEF s, says
  <2>4. /\ Accepted(s) <=>
             /\ legacy \/ Canonical(input) = input
             /\ Canonical(input) = WrittenLines(says)
             /\ says.max > 0 /\ says.size > 0
             /\ ValidRecords(says.records, says.max)
        /\ Accepted(s) =>
             /\ ReadContent(input, s) = says
             /\ s.next = NextOf(says.records, says.max)
             /\ s.rewrite <=> (~says.headed \/ Canonical(input) # input)
    BY <2>2, <2>3
  <2> QED
    BY <2>4 DEF s, says
<1> QED
  BY <1>1, <1>2

-----------------------------------------------------------------------------
(* H264Inspector                                                           *)

Bit  == {0, 1}
Byte == 0 .. 255

\* What a number is after each of 31 halvings.
Halves(n) ==
  CHOOSE half : half = [k \in 0 .. 31 |->
    IF k = 0 THEN n ELSE half[k - 1] \div 2]

\* The loop of halvings.
LEMMA HalvesAreDefined ==
  ASSUME NEW n \in Nat
  PROVE  /\ Halves(n) \in [0 .. 31 -> Nat]
         /\ Halves(n)[0] = n
         /\ \A k \in 1 .. 31 : Halves(n)[k] = Halves(n)[k - 1] \div 2
<1> DEFINE step == [k \in 1 .. 31 |-> [v \in Nat |-> v \div 2]]
           Loop(f) == f = [k \in 0 .. 31 |->
                             IF k = 0 THEN n ELSE f[k - 1] \div 2]
<1>1. step \in [1 .. 31 -> [Nat -> Nat]]
  OBVIOUS
<1>2. PICK f \in [0 .. 31 -> Nat] : IsIteration(f, n, step, 31)
  <2> HIDE DEF step
  <2> QED
    BY <1>1, Iteration
<1>3. Loop(f)
  <2>1. f[0] = n /\ \A k \in 1 .. 31 : f[k] = step[k][f[k - 1]]
    BY <1>2 DEF IsIteration
  <2>2. \A k \in 1 .. 31 : f[k] = f[k - 1] \div 2
    BY <1>2, <2>1
  <2> QED
    BY <1>2, <2>1, <2>2
<1>4. Loop(Halves(n))
  <2> HIDE DEF Loop
  <2>1. \E g : Loop(g)
    BY <1>3
  <2> QED
    BY <2>1 DEF Halves, Loop
<1>5. /\ Halves(n)[0] = n
      /\ \A k \in 1 .. 31 : Halves(n)[k] = Halves(n)[k - 1] \div 2
  BY <1>4
<1>6. Halves(n) \in [0 .. 31 -> Nat]
  <2>1. Halves(n) = [k \in 0 .. 31 |-> Halves(n)[k]]
    BY <1>4
  <2>2. \A k \in 1 .. 31 : Halves(n)[k - 1] \in Nat => Halves(n)[k] \in Nat
    BY <1>5
  <2>3. 31 \in Nat /\ Halves(n)[0] \in Nat
    BY <1>5
  <2> HIDE DEF Loop, step
  <2> QED
    BY <2>1, <2>2, <2>3, IterationType
<1> QED
  BY <1>5, <1>6

GreatestValue == 2147483646

\* The greatest value is a number.
LEMMA GreatestValueType == GreatestValue \in Int
  BY SMT DEF GreatestValue

\* The last of them that is not 0 is 1.
LEMMA HalvesReachOne ==
  ASSUME NEW n \in Nat, 0 < n, n <= GreatestValue + 1
  PROVE  \E w \in 1 .. 31 : Halves(n)[w - 1] = 1
<1> DEFINE h == Halves(n)
<1>1. /\ h \in [0 .. 31 -> Nat] /\ h[0] = n /\ n \in Nat
      /\ \A k \in 1 .. 31 : h[k] = h[k - 1] \div 2
  BY HalvesAreDefined
<1> HIDE DEF h
<1>2. h[8] <= 8388607
  <2>1. h[2] <= 536870911
    BY <1>1, SMT DEF GreatestValue
  <2>2. h[4] <= 134217727
    BY <1>1, <2>1, SMT
  <2>3. h[6] <= 33554431
    BY <1>1, <2>2, SMT
  <2> QED
    BY <1>1, <2>3, SMT
<1>3. h[16] <= 32767
  <2>1. h[10] <= 2097151
    BY <1>1, <1>2, SMT
  <2>2. h[12] <= 524287
    BY <1>1, <2>1, SMT
  <2>3. h[14] <= 131071
    BY <1>1, <2>2, SMT
  <2> QED
    BY <1>1, <2>3, SMT
<1>4. h[24] <= 127
  <2>1. h[18] <= 8191
    BY <1>1, <1>3, SMT
  <2>2. h[20] <= 2047
    BY <1>1, <2>1, SMT
  <2>3. h[22] <= 511
    BY <1>1, <2>2, SMT
  <2> QED
    BY <1>1, <2>3, SMT
<1>5. h[31] = 0
  <2>1. h[26] <= 31
    BY <1>1, <1>4, SMT
  <2>2. h[28] <= 7
    BY <1>1, <2>1, SMT
  <2>3. h[30] <= 1
    BY <1>1, <2>2, SMT
  <2> QED
    BY <1>1, <2>3, SMT
<1> DEFINE T == {k \in Nat : k \in 0 .. 31 /\ h[k] = 0}
<1>6. PICK x \in T : \A y \in T : x <= y
  <2>1. T \subseteq Nat /\ 31 \in T
    BY <1>5
  <2> HIDE DEF T
  <2> QED
    BY <2>1, LeastNumber
<1>7. x \in 1 .. 31 /\ h[x] = 0
  BY <1>1, <1>6
<1>8. h[x - 1] # 0
  <2>1. x - 1 \in Nat /\ x - 1 \in 0 .. 31 /\ ~(x <= x - 1)
    BY <1>7
  <2> QED
    BY <1>6, <2>1
<1>9. h[x - 1] = 1
  <2>1. h[x - 1] \in Nat /\ h[x] = h[x - 1] \div 2
    BY <1>1, <1>7
  <2> QED
    BY <1>7, <1>8, <2>1
<1> QED
  BY <1>7, <1>9 DEF h

\* The numbers that the prefixes of some bits spell.
Numbers(bits) ==
  CHOOSE number : number = [k \in 0 .. Len(bits) |->
    IF k = 0 THEN 0 ELSE 2 * number[k - 1] + bits[k]]

\* The loop over the bits of a number.
LEMMA NumbersAreDefined ==
  ASSUME NEW bits \in Seq(Bit)
  PROVE  /\ Numbers(bits)[0] = 0
         /\ \A k \in 1 .. Len(bits) :
              Numbers(bits)[k] = 2 * Numbers(bits)[k - 1] + bits[k]
         /\ NumberOf(bits) = Numbers(bits)[Len(bits)]
<1> DEFINE n == Len(bits)
           step == [k \in 1 .. n |-> [v \in Nat |-> 2 * v + bits[k]]]
           Loop(f) == f = [k \in 0 .. n |->
                             IF k = 0 THEN 0 ELSE 2 * f[k - 1] + bits[k]]
<1>1. n \in Nat /\ \A k \in 1 .. n : bits[k] \in Nat
  BY DEF Bit
<1>2. step \in [1 .. n -> [Nat -> Nat]]
  BY <1>1
<1> HIDE DEF n
<1>3. PICK f \in [0 .. n -> Nat] : IsIteration(f, 0, step, n)
  <2> HIDE DEF step
  <2> QED
    BY <1>1, <1>2, Iteration
<1>4. Loop(f)
  <2>1. f[0] = 0 /\ \A k \in 1 .. n : f[k] = step[k][f[k - 1]]
    BY <1>3 DEF IsIteration
  <2>2. \A k \in 1 .. n : k - 1 \in 0 .. n
    BY <1>1
  <2>3. \A k \in 1 .. n : f[k] = 2 * f[k - 1] + bits[k]
    BY <1>3, <2>1, <2>2
  <2>4. \A k \in 0 .. n : k = 0 \/ k \in 1 .. n
    BY <1>1
  <2> QED
    BY <1>3, <2>1, <2>3, <2>4
<1>5. Loop(Numbers(bits))
  <2> HIDE DEF Loop
  <2>1. \E g : Loop(g)
    BY <1>4
  <2> QED
    BY <2>1 DEF Numbers, Loop, n
<1>6. NumberOf(bits) = Numbers(bits)[n]
  BY DEF NumberOf, Numbers, n
<1> QED
  BY <1>1, <1>5, <1>6 DEF n

\* The code of a value has w digits after w - 1 zeros.
IsCode(g, value, w) ==
  /\ g \in Seq(Bit) /\ Len(g) = 2 * w - 1
  /\ \A j \in 1 .. w - 1 : g[j] = 0
  /\ \A j \in 1 .. w : g[w - 1 + j] = Halves(value + 1)[w - j] % 2
  /\ Halves(value + 1)[w - 1] = 1

\* Every value up to the greatest has a code.
LEMMA GolombOfValue ==
  ASSUME NEW value \in 0 .. GreatestValue
  PROVE  \E w \in 1 .. 31 : IsCode(GolombOf(value), value, w)
<1> DEFINE h == Halves(value + 1)
           w == CHOOSE x \in 1 .. 31 : h[x - 1] = 1
           a == Zeros(w - 1)
           b == [i \in 1 .. w |-> h[w - i] % 2]
<1>1. value + 1 \in Nat /\ 0 < value + 1 /\ value + 1 <= GreatestValue + 1
  BY GreatestValueType
<1>2. \A k \in 0 .. 31 : h[k] \in Nat
  BY <1>1, HalvesAreDefined
<1>3. w \in 1 .. 31 /\ h[w - 1] = 1
  <2>1. \E x \in 1 .. 31 : h[x - 1] = 1
    BY <1>1, HalvesReachOne
  <2> HIDE DEF h
  <2> QED
    BY <2>1
<1>4. GolombOf(value) = a \o b
  BY DEF GolombOf, Halves
<1> HIDE DEF h, w
<1>5. a \in Seq(Bit) /\ Len(a) = w - 1 /\ \A i \in 1 .. w - 1 : a[i] = 0
  <2>1. w - 1 \in Nat
    BY <1>3
  <2> QED
    BY <2>1 DEF Zeros, Bit
<1>6. b \in Seq(Bit) /\ Len(b) = w /\ \A i \in 1 .. w : b[i] = h[w - i] % 2
  <2>1. \A i \in 1 .. w : h[w - i] % 2 \in Bit
    <3> SUFFICES ASSUME NEW i \in 1 .. w
                 PROVE  h[w - i] % 2 \in Bit
      OBVIOUS
    <3>1. w - i \in 0 .. 31
      BY <1>3
    <3>2. h[w - i] \in Nat
      BY <1>2, <3>1
    <3> QED
      BY <3>2 DEF Bit
  <2>2. w \in Nat
    BY <1>3
  <2> QED
    BY <2>1, <2>2
<1> HIDE DEF a, b
<1>7. a \o b \in Seq(Bit) /\ IsJoined(a \o b, a, b)
  BY <1>5, <1>6, Joined
<1>8. IsCode(a \o b, value, w)
  <2>1. Len(a \o b) = 2 * w - 1
    BY <1>3, <1>5, <1>6, <1>7 DEF IsJoined
  <2>2. \A j \in 1 .. w - 1 : (a \o b)[j] = 0
    BY <1>5, <1>7 DEF IsJoined
  <2>3. \A j \in 1 .. w : (a \o b)[w - 1 + j] = h[w - j] % 2
    BY <1>3, <1>5, <1>6, <1>7 DEF IsJoined
  <2> QED
    BY <1>3, <1>7, <2>1, <2>2, <2>3 DEF IsCode, h
<1> QED
  BY <1>3, <1>4, <1>8

\* The digits of a number spell it.
LEMMA DigitsOfNumber ==
  ASSUME NEW n \in Nat, NEW w \in 1 .. 31, Halves(n)[w - 1] = 1,
         NEW bits \in Seq(Bit), Len(bits) = w,
         \A j \in 1 .. w : bits[j] = Halves(n)[w - j] % 2
  PROVE  NumberOf(bits) = n
<1> DEFINE h == Halves(n)
           v == Numbers(bits)
           S == {m \in Nat : m <= w => v[m] = h[w - m]}
<1>1. /\ h[0] = n
      /\ \A k \in 0 .. 31 : h[k] \in Nat
      /\ \A k \in 1 .. 31 : h[k] = h[k - 1] \div 2
  BY HalvesAreDefined
<1>2. /\ v[0] = 0
      /\ \A k \in 1 .. w : v[k] = 2 * v[k - 1] + bits[k]
      /\ NumberOf(bits) = v[w]
  BY NumbersAreDefined
<1>3. h[w - 1] = 1 /\ \A j \in 1 .. w : bits[j] = h[w - j] % 2
  OBVIOUS
<1> HIDE DEF h, v
<1>4. 0 \in S
  <2>1. h[w] = 0
    <3>1. h[w] = h[w - 1] \div 2
      BY <1>1
    <3>2. h[w] = 1 \div 2
      BY <1>3, <3>1
    <3> QED
      BY <3>2
  <2> QED
    BY <1>2, <2>1
<1>5. ASSUME NEW m \in Nat, m \in S
      PROVE  m + 1 \in S
  <2>1. SUFFICES ASSUME m + 1 <= w
                 PROVE  v[m + 1] = h[w - (m + 1)]
    OBVIOUS
  <2> DEFINE k == w - (m + 1)
             x == h[k]
  <2>2. k \in 0 .. 31 /\ k + 1 \in 1 .. 31 /\ (k + 1) - 1 = k /\ k + 1 = w - m
    BY <2>1
  <2>3. x \in Nat /\ h[w - m] = x \div 2
    BY <1>1, <2>2
  <2>4. v[m] = x \div 2
    BY <1>5, <2>1, <2>3
  <2>5. m + 1 \in 1 .. w /\ (m + 1) - 1 = m
    BY <2>1
  <2>6. v[m + 1] = 2 * v[m] + (x % 2)
    <3>1. v[m + 1] = 2 * v[m] + bits[m + 1]
      BY <1>2, <2>5
    <3>2. bits[m + 1] = h[w - (m + 1)] % 2
      BY <1>3, <2>5
    <3> QED
      BY <3>1, <3>2
  <2> HIDE DEF x, k
  <2>7. 2 * (x \div 2) + (x % 2) = x
    BY <2>3
  <2> QED
    BY <2>4, <2>6, <2>7 DEF x, k
<1>6. \A m \in Nat : m \in S
  <2> HIDE DEF S
  <2> QED
    BY <1>4, <1>5, SetInduction
<1>7. v[w] = h[w - w] /\ w - w = 0
  <2>1. w \in Nat /\ w <= w /\ w - w = 0
    OBVIOUS
  <2>2. w \in S
    BY <1>6, <2>1
  <2> QED
    BY <2>1, <2>2
<1> QED
  BY <1>1, <1>2, <1>7

\* A code that stands at i is read.
LEMMA CodeIsRead ==
  ASSUME NEW value \in Nat, NEW w \in 1 .. 31, NEW g, IsCode(g, value, w),
         NEW bits \in Seq(Bit), NEW i \in Nat, i > 0,
         i - 1 + Len(g) <= Len(bits),
         \A j \in 1 .. Len(g) : bits[i - 1 + j] = g[j]
  PROVE  ExpGolomb(bits, i) = [value |-> value, next |-> i + Len(g)]
<1> DEFINE ones == {k \in i .. Len(bits) : bits[k] = 1}
           one  == CHOOSE k \in ones : \A l \in ones : k <= l
           last == one + (one - i)
           sub  == SubSeq(bits, one, last)
           h    == Halves(value + 1)
           c    == i + w - 1
<1>1. /\ Len(g) = 2 * w - 1
      /\ \A j \in 1 .. w - 1 : g[j] = 0
      /\ \A j \in 1 .. w : g[w - 1 + j] = h[w - j] % 2
      /\ h[w - 1] = 1
  BY DEF IsCode
<1> HIDE DEF h
<1>2. g[w] = 1
  <2>1. 1 \in 1 .. w /\ w - 1 + 1 = w
    OBVIOUS
  <2>2. g[w - 1 + 1] = h[w - 1] % 2
    BY <1>1, <2>1
  <2> QED
    BY <1>1, <2>1, <2>2
<1>3. c \in ones
  <2>1. w \in 1 .. Len(g) /\ i - 1 + w = c
    BY <1>1
  <2>2. bits[c] = 1
    BY <1>2, <2>1
  <2> QED
    BY <1>1, <2>2
<1>4. \A l \in ones : c <= l
  <2> SUFFICES ASSUME NEW l \in ones, l < c
               PROVE  FALSE
    OBVIOUS
  <2> DEFINE j == l - i + 1
  <2>1. j \in 1 .. w - 1 /\ j \in 1 .. Len(g) /\ i - 1 + j = l
    BY <1>1
  <2>2. bits[i - 1 + j] = g[j] /\ g[j] = 0
    BY <1>1, <2>1
  <2> QED
    BY <2>1, <2>2
<1>5. one = c
  <2>1. \A k \in ones : (\A l \in ones : k <= l) => k = c
    <3>1. ones \subseteq Int
      OBVIOUS
    <3> HIDE DEF ones
    <3> QED
      BY <1>3, <1>4, <3>1
  <2> HIDE DEF ones
  <2> QED
    BY <1>3, <1>4, <2>1
<1>6. /\ ones # {} /\ one - i < 32 /\ one - i >= 0
      /\ last = i + 2 * w - 2 /\ last <= Len(bits)
  <2>1. ones # {}
    BY <1>3
  <2>2. c - i = w - 1 /\ c + (c - i) = i + 2 * w - 2
    OBVIOUS
  <2> HIDE DEF ones, one, c
  <2> QED
    BY <1>1, <1>5, <2>1, <2>2
<1>7. /\ sub \in Seq(Bit) /\ Len(sub) = w
      /\ \A j \in 1 .. w : sub[j] = bits[c - 1 + j]
  <2>1. sub = SubSeq(bits, c, i + 2 * w - 2)
    BY <1>5, <1>6
  <2>2. c \in Nat /\ c >= 1 /\ i + 2 * w - 2 <= Len(bits)
        /\ i + 2 * w - 2 \in Nat /\ (i + 2 * w - 2) - c + 1 = w
        /\ Len(bits) \in Nat
    BY <1>1
  <2> DEFINE d == i + 2 * w - 2
             s == SubSeq(bits, c, d)
  <2> HIDE DEF c, d, sub
  <2>3. s = [k \in 1 .. d - c + 1 |-> bits[c + k - 1]]
    BY <2>2 DEF d
  <2>4. \A k \in 1 .. w : bits[c + k - 1] \in Bit
    BY <2>2
  <2>5. s = [k \in 1 .. w |-> bits[c + k - 1]]
    BY <2>2, <2>3 DEF d
  <2>6. s \in Seq(Bit) /\ Len(s) = w /\ \A k \in 1 .. w : s[k] = bits[c + k - 1]
    BY <2>4, <2>5
  <2>7. \A k \in 1 .. w : c + k - 1 = c - 1 + k
    BY <2>2
  <2> QED
    BY <2>1, <2>6, <2>7 DEF d
<1>8. \A j \in 1 .. w : sub[j] = h[w - j] % 2
  <2> SUFFICES ASSUME NEW j \in 1 .. w
               PROVE  sub[j] = h[w - j] % 2
    OBVIOUS
  <2>1. w - 1 + j \in 1 .. Len(g) /\ i - 1 + (w - 1 + j) = c - 1 + j
    BY <1>1
  <2>2. bits[c - 1 + j] = g[w - 1 + j]
    BY <2>1
  <2> HIDE DEF c, sub
  <2> QED
    BY <1>1, <1>7, <2>2
<1>9. NumberOf(sub) = value + 1
  <2>1. value + 1 \in Nat
    OBVIOUS
  <2> HIDE DEF sub
  <2> QED
    BY <1>1, <1>7, <1>8, <2>1, DigitsOfNumber DEF h
<1>10. ExpGolomb(bits, i) = [value |-> NumberOf(sub) - 1, next |-> last + 1]
  <2>1. ~(ones = {} \/ one - i >= 32 \/ last > Len(bits))
    <3>1. one \in Int
      <4>1. c \in Int
        OBVIOUS
      <4> HIDE DEF one, c
      <4> QED
        BY <1>5, <4>1
    <3>2. last \in Int
      BY <1>6
    <3>3. Len(bits) \in Int
      OBVIOUS
    <3> HIDE DEF ones, one, last
    <3> QED
      BY <1>6, <3>1, <3>2, <3>3
  <2> HIDE DEF NoCode
  <2> QED
    BY <2>1 DEF ExpGolomb
<1>11. last + 1 = i + Len(g) /\ NumberOf(sub) - 1 = value
  <2> HIDE DEF last, sub
  <2> QED
    BY <1>1, <1>6, <1>9
<1> QED
  BY <1>10, <1>11

\* A bit at the end of a number is read.
LEMMA LastBit ==
  ASSUME NEW x \in Nat, NEW y \in Bit
  PROVE  (2 * x + y) % 2 = y
  BY SMT DEF Bit

\* The bits of a byte are those it is made of.
LEMMA BitsOfByte ==
  ASSUME NEW bits \in [1 .. 8 -> Bit],
         NEW n, n = 128 * bits[1] + 64 * bits[2] + 32 * bits[3] + 16 * bits[4]
                      + 8 * bits[5] + 4 * bits[6] + 2 * bits[7] + bits[8]
  PROVE  n \in Byte /\ \A j \in 1 .. 8 : (n \div Weight[j]) % 2 = bits[j]
<1> DEFINE a == bits[1]
           b == bits[2]
           c == bits[3]
           d == bits[4]
           e == bits[5]
           f == bits[6]
           g == bits[7]
           h == bits[8]
<1>1. /\ a \in Bit /\ b \in Bit /\ c \in Bit /\ d \in Bit
      /\ e \in Bit /\ f \in Bit /\ g \in Bit /\ h \in Bit
  OBVIOUS
<1>2. n = 128 * a + 64 * b + 32 * c + 16 * d + 8 * e + 4 * f + 2 * g + h
  OBVIOUS
<1>3. \A j \in 1 .. 8 : \/ j = 1 \/ j = 2 \/ j = 3 \/ j = 4
                         \/ j = 5 \/ j = 6 \/ j = 7 \/ j = 8
  OBVIOUS
<1> HIDE DEF a, b, c, d, e, f, g, h
<1>4. n \in Byte
  BY <1>1, <1>2, SMT DEF Bit, Byte
<1>5. (n \div 128) % 2 = a
  <2> DEFINE x == 0
  <2>1. x \in Nat
    BY <1>1, SMT DEF Bit
  <2>2. n \div 128 = 2 * x + a
    BY <1>1, <1>2, SMT DEF Bit
  <2> HIDE DEF x
  <2> QED
    BY <1>1, <2>1, <2>2, LastBit
<1>6. (n \div 64) % 2 = b
  <2> DEFINE x == a
  <2>1. x \in Nat
    BY <1>1, SMT DEF Bit
  <2>2. n \div 64 = 2 * x + b
    BY <1>1, <1>2, SMT DEF Bit
  <2> HIDE DEF x
  <2> QED
    BY <1>1, <2>1, <2>2, LastBit
<1>7. (n \div 32) % 2 = c
  <2> DEFINE x == 2 * a + b
  <2>1. x \in Nat
    BY <1>1, SMT DEF Bit
  <2>2. n \div 32 = 2 * x + c
    BY <1>1, <1>2, SMT DEF Bit
  <2> HIDE DEF x
  <2> QED
    BY <1>1, <2>1, <2>2, LastBit
<1>8. (n \div 16) % 2 = d
  <2> DEFINE x == 4 * a + 2 * b + c
  <2>1. x \in Nat
    BY <1>1, SMT DEF Bit
  <2>2. n \div 16 = 2 * x + d
    BY <1>1, <1>2, SMT DEF Bit
  <2> HIDE DEF x
  <2> QED
    BY <1>1, <2>1, <2>2, LastBit
<1>9. (n \div 8) % 2 = e
  <2> DEFINE x == 8 * a + 4 * b + 2 * c + d
  <2>1. x \in Nat
    BY <1>1, SMT DEF Bit
  <2>2. n \div 8 = 2 * x + e
    BY <1>1, <1>2, SMT DEF Bit
  <2> HIDE DEF x
  <2> QED
    BY <1>1, <2>1, <2>2, LastBit
<1>10. (n \div 4) % 2 = f
  <2> DEFINE x == 16 * a + 8 * b + 4 * c + 2 * d + e
  <2>1. x \in Nat
    BY <1>1, SMT DEF Bit
  <2>2. n \div 4 = 2 * x + f
    BY <1>1, <1>2, SMT DEF Bit
  <2> HIDE DEF x
  <2> QED
    BY <1>1, <2>1, <2>2, LastBit
<1>11. (n \div 2) % 2 = g
  <2> DEFINE x == 32 * a + 16 * b + 8 * c + 4 * d + 2 * e + f
  <2>1. x \in Nat
    BY <1>1, SMT DEF Bit
  <2>2. n \div 2 = 2 * x + g
    BY <1>1, <1>2, SMT DEF Bit
  <2> HIDE DEF x
  <2> QED
    BY <1>1, <2>1, <2>2, LastBit
<1>12. (n \div 1) % 2 = h
  <2> DEFINE x == 64 * a + 32 * b + 16 * c + 8 * d + 4 * e + 2 * f + g
  <2>1. x \in Nat
    BY <1>1, SMT DEF Bit
  <2>2. n \div 1 = 2 * x + h
    BY <1>1, <1>2, SMT DEF Bit
  <2> HIDE DEF x
  <2> QED
    BY <1>1, <2>1, <2>2, LastBit
<1>13. SUFFICES ASSUME NEW j \in 1 .. 8
               PROVE  (n \div Weight[j]) % 2 = bits[j]
  BY <1>4
<1>14. CASE j = 1
  <2>1. Weight[1] = 128
    BY DEF Weight
  <2> QED
    BY <1>5, <1>14, <2>1 DEF a
<1>15. CASE j = 2
  <2>1. Weight[2] = 64
    BY DEF Weight
  <2> QED
    BY <1>6, <1>15, <2>1 DEF b
<1>16. CASE j = 3
  <2>1. Weight[3] = 32
    BY DEF Weight
  <2> QED
    BY <1>7, <1>16, <2>1 DEF c
<1>17. CASE j = 4
  <2>1. Weight[4] = 16
    BY DEF Weight
  <2> QED
    BY <1>8, <1>17, <2>1 DEF d
<1>18. CASE j = 5
  <2>1. Weight[5] = 8
    BY DEF Weight
  <2> QED
    BY <1>9, <1>18, <2>1 DEF e
<1>19. CASE j = 6
  <2>1. Weight[6] = 4
    BY DEF Weight
  <2> QED
    BY <1>10, <1>19, <2>1 DEF f
<1>20. CASE j = 7
  <2>1. Weight[7] = 2
    BY DEF Weight
  <2> QED
    BY <1>11, <1>20, <2>1 DEF g
<1>21. CASE j = 8
  <2>1. Weight[8] = 1
    BY DEF Weight
  <2> QED
    BY <1>12, <1>21, <2>1 DEF h
<1> QED
  BY <1>3, <1>14, <1>15, <1>16, <1>17, <1>18, <1>19, <1>20, <1>21

\* The bits that bytes are made of are in them.
LEMMA BytesOfBits ==
  ASSUME NEW bits \in Seq(Bit)
  PROVE  LET B == BytesOf(bits)
         IN /\ B \in Seq(Byte) /\ Len(bits) <= 8 * Len(B)
            /\ \A k \in 1 .. Len(bits) :
                 (B[(k - 1) \div 8 + 1] \div Weight[((k - 1) % 8) + 1]) % 2
                   = bits[k]
<1> DEFINE n    == Len(bits)
           m    == (7 - n) % 8
           tail == <<1>> \o Zeros(m)
           full == bits \o <<1>> \o Zeros(m)
           q    == Len(full) \div 8
           B    == BytesOf(bits)
           F(i, j) == full[8 * (i - 1) + j]
<1>1. n \in Nat /\ m \in Nat /\ (n + 1 + m) % 8 = 0
  OBVIOUS
<1>2. Zeros(m) \in Seq(Bit) /\ Len(Zeros(m)) = m
  BY <1>1 DEF Zeros, Bit
<1>3. /\ full \in Seq(Bit) /\ Len(full) = n + 1 + m
      /\ \A k \in 1 .. n : full[k] = bits[k]
  <2> DEFINE z == Zeros(m)
             t == bits \o <<1>>
  <2>1. <<1>> \in Seq(Bit) /\ Len(<<1>>) = 1
    BY DEF Bit
  <2>2. t \in Seq(Bit) /\ Len(t) = n + 1 /\ \A k \in 1 .. n : t[k] = bits[k]
    BY <2>1, Joined DEF IsJoined
  <2> HIDE DEF z, t
  <2>3. t \o z \in Seq(Bit) /\ IsJoined(t \o z, t, z)
    BY <1>2, <2>2, Joined DEF z
  <2>4. full = t \o z
    BY DEF t, z
  <2> HIDE DEF full, n, m
  <2>5. Len(full) = n + 1 + m
    BY <1>2, <2>2, <2>3, <2>4 DEF IsJoined, z
  <2>6. \A k \in 1 .. n : k \in 1 .. Len(t)
    BY <1>1, <2>2
  <2>7. \A k \in 1 .. n : full[k] = bits[k]
    BY <2>2, <2>3, <2>4, <2>6 DEF IsJoined
  <2> QED
    BY <2>3, <2>4, <2>5, <2>7
<1> HIDE DEF full, m, n
<1>4. q \in Nat /\ 8 * q = n + 1 + m
  BY <1>1, <1>3
<1>5. B = [i \in 1 .. q |->
             128 * F(i, 1) + 64 * F(i, 2) + 32 * F(i, 3) + 16 * F(i, 4)
               + 8 * F(i, 5) + 4 * F(i, 6) + 2 * F(i, 7) + F(i, 8)]
  BY DEF BytesOf, full, m, n
<1>6. ASSUME NEW i \in 1 .. q, NEW j \in 1 .. 8
      PROVE  F(i, j) \in Bit
  <2>1. 8 * (i - 1) + j \in 1 .. Len(full)
    BY <1>3, <1>4
  <2> QED
    BY <1>3, <2>1
<1>7. ASSUME NEW i \in 1 .. q
      PROVE  /\ B[i] \in Byte
             /\ \A j \in 1 .. 8 : (B[i] \div Weight[j]) % 2 = F(i, j)
  <2> DEFINE x == B[i]
  <2>1. x = 128 * F(i, 1) + 64 * F(i, 2) + 32 * F(i, 3) + 16 * F(i, 4)
              + 8 * F(i, 5) + 4 * F(i, 6) + 2 * F(i, 7) + F(i, 8)
    BY <1>5
  <2> DEFINE b == [j \in 1 .. 8 |-> F(i, j)]
  <2>2. \A j \in 1 .. 8 : F(i, j) \in Bit
    BY <1>6
  <2> HIDE DEF F, x
  <2>3. b \in [1 .. 8 -> Bit] /\ \A j \in 1 .. 8 : b[j] = F(i, j)
    BY <2>2
  <2> HIDE DEF b
  <2>4. x = 128 * b[1] + 64 * b[2] + 32 * b[3] + 16 * b[4]
              + 8 * b[5] + 4 * b[6] + 2 * b[7] + b[8]
    BY <2>1, <2>3
  <2>5. x \in Byte /\ \A j \in 1 .. 8 : (x \div Weight[j]) % 2 = b[j]
    BY <2>3, <2>4, BitsOfByte
  <2> QED
    BY <2>3, <2>5 DEF x
<1> HIDE DEF B, q, F
<1>8. B \in Seq(Byte) /\ Len(B) = q
  <2>1. \A i \in 1 .. q : B[i] \in Byte
    BY <1>7
  <2>2. B = [i \in 1 .. q |-> B[i]]
    BY <1>5
  <2> QED
    BY <1>4, <2>1, <2>2
<1>9. ASSUME NEW k \in 1 .. n
      PROVE  (B[(k - 1) \div 8 + 1] \div Weight[((k - 1) % 8) + 1]) % 2
               = bits[k]
  <2> DEFINE i == (k - 1) \div 8 + 1
             j == ((k - 1) % 8) + 1
  <2>1. i \in Nat /\ i >= 1 /\ j \in 1 .. 8 /\ 8 * (i - 1) + j = k
    BY <1>1
  <2>2. i <= q
    BY <1>1, <1>4, <2>1
  <2> HIDE DEF i, j
  <2>3. (B[i] \div Weight[j]) % 2 = F(i, j)
    BY <1>4, <1>7, <2>1, <2>2
  <2>4. F(i, j) = full[k]
    BY <2>1 DEF F
  <2>5. full[k] = bits[k]
    BY <1>3
  <2> QED
    BY <2>3, <2>4, <2>5 DEF i, j
<1>10. n <= 8 * Len(B)
  BY <1>1, <1>4, <1>8
<1> QED
  BY <1>8, <1>9, <1>10 DEF B, n

EscapeState == [bytes : Seq(Byte), zeros : 0 .. 2]

\* What an encoder has written of the prefixes of some bytes.
Escapes(bytes) ==
  CHOOSE escaped : escaped = [k \in 0 .. Len(bytes) |->
    IF k = 0 THEN [bytes |-> <<>>, zeros |-> 0]
    ELSE Escape(escaped[k - 1], bytes[k])]

\* One more byte keeps the state of the writer.
LEMMA EscapeType ==
  ASSUME NEW r \in EscapeState, NEW byte \in Byte
  PROVE  Escape(r, byte) \in EscapeState
<1>1. r.bytes \in Seq(Byte) /\ r.zeros \in 0 .. 2 /\ 3 \in Byte
  BY DEF EscapeState, Byte
<1>2. /\ Append(r.bytes, byte) \in Seq(Byte)
      /\ Append(Append(r.bytes, 3), byte) \in Seq(Byte)
  BY <1>1
<1>3. byte \in Int
  BY DEF Byte
<1>4. CASE r.zeros = 2 /\ byte <= 3
  BY <1>2, <1>4 DEF Escape, EscapeState
<1>5. CASE ~(r.zeros = 2 /\ byte <= 3)
  <2>1. (IF byte = 0 THEN r.zeros + 1 ELSE 0) \in 0 .. 2
    BY <1>1, <1>3, <1>5
  <2> QED
    BY <1>2, <1>5, <2>1 DEF Escape, EscapeState
<1> QED
  BY <1>4, <1>5

\* The loop of the writer.
LEMMA EscapesAreDefined ==
  ASSUME NEW bytes \in Seq(Byte)
  PROVE  LET n == Len(bytes)
             E == Escapes(bytes)
         IN /\ E \in [0 .. n -> EscapeState]
            /\ E[0] = [bytes |-> <<>>, zeros |-> 0]
            /\ \A k \in 1 .. n : E[k] = Escape(E[k - 1], bytes[k])
            /\ Escaped(bytes) = E[n].bytes
<1> DEFINE n == Len(bytes)
           base == [bytes |-> <<>>, zeros |-> 0]
           step == [k \in 1 .. n |->
                      [r \in EscapeState |-> Escape(r, bytes[k])]]
           Loop(f) == f = [k \in 0 .. n |-> IF k = 0 THEN base
                                            ELSE Escape(f[k - 1], bytes[k])]
<1>1. n \in Nat /\ \A k \in 1 .. n : bytes[k] \in Byte
  OBVIOUS
<1>2. base \in EscapeState
  BY DEF EscapeState
<1>3. step \in [1 .. n -> [EscapeState -> EscapeState]]
  BY <1>1, EscapeType
<1> HIDE DEF n, base
<1>4. PICK f \in [0 .. n -> EscapeState] : IsIteration(f, base, step, n)
  <2> HIDE DEF step
  <2> QED
    BY <1>1, <1>2, <1>3, Iteration
<1>5. Loop(f)
  <2>1. f[0] = base /\ \A k \in 1 .. n : f[k] = step[k][f[k - 1]]
    BY <1>4 DEF IsIteration
  <2>2. \A k \in 1 .. n : k - 1 \in 0 .. n
    BY <1>1
  <2>3. \A k \in 1 .. n : f[k] = Escape(f[k - 1], bytes[k])
    BY <1>4, <2>1, <2>2
  <2>4. \A k \in 0 .. n : k = 0 \/ k \in 1 .. n
    BY <1>1
  <2> QED
    BY <1>4, <2>1, <2>3, <2>4
<1>6. Loop(Escapes(bytes))
  <2> HIDE DEF Loop
  <2>1. \E g : Loop(g)
    BY <1>5
  <2> QED
    BY <2>1 DEF Escapes, Loop, n, base
<1>7. /\ Escapes(bytes)[0] = base
      /\ \A k \in 1 .. n :
           Escapes(bytes)[k] = Escape(Escapes(bytes)[k - 1], bytes[k])
  BY <1>1, <1>6
<1>8. Escapes(bytes) \in [0 .. n -> EscapeState]
  <2>1. Escapes(bytes) = [k \in 0 .. n |-> Escapes(bytes)[k]]
    BY <1>6
  <2> HIDE DEF Loop, step
  <2>2. \A k \in 1 .. n : Escapes(bytes)[k - 1] \in EscapeState
                            => Escapes(bytes)[k] \in EscapeState
    BY <1>1, <1>7, EscapeType
  <2>3. Escapes(bytes)[0] \in EscapeState
    BY <1>2, <1>7
  <2> QED
    BY <1>1, <2>1, <2>2, <2>3, IterationType
<1>9. Escaped(bytes) = Escapes(bytes)[n].bytes
  BY DEF Escaped, Escapes, n
<1> QED
  BY <1>7, <1>8, <1>9 DEF n, base

\* No start code begins in text, which ends with so many zeros.
IsSafe(text, zeros) ==
  /\ \A i \in 1 .. Len(text) - 2 :
       text[i] = 0 /\ text[i + 1] = 0 => text[i + 2] > 2
  /\ zeros = 0 => Len(text) = 0 \/ text[Len(text)] # 0
  /\ zeros > 0 => Len(text) > 0 /\ text[Len(text)] = 0
  /\ zeros = 1 => Len(text) = 1 \/ text[Len(text) - 1] # 0

\* Where one more byte leaves no start code.
LEMMA SafeAppended ==
  ASSUME NEW text \in Seq(Byte), NEW zeros \in 0 .. 2, IsSafe(text, zeros),
         NEW byte \in Byte, zeros = 2 => byte > 2
  PROVE  IsSafe(Append(text, byte), IF byte = 0 THEN zeros + 1 ELSE 0)
<1> DEFINE n == Len(text)
           u == Append(text, byte)
           z == IF byte = 0 THEN zeros + 1 ELSE 0
<1>1. /\ n \in Nat /\ u \in Seq(Byte) /\ Len(u) = n + 1 /\ u[n + 1] = byte
      /\ \A i \in 1 .. n : u[i] = text[i]
  OBVIOUS
<1>2. /\ \A i \in 1 .. n - 2 : text[i] = 0 /\ text[i + 1] = 0 => text[i + 2] > 2
      /\ zeros = 0 => n = 0 \/ text[n] # 0
      /\ zeros > 0 => n > 0 /\ text[n] = 0
      /\ zeros = 1 => n = 1 \/ text[n - 1] # 0
  BY DEF IsSafe
<1>3. byte \in Int
  BY DEF Byte
<1> HIDE DEF u, n
<1>4. ASSUME NEW i \in 1 .. (n + 1) - 2, u[i] = 0, u[i + 1] = 0
      PROVE  u[i + 2] > 2
  <2>1. i \in 1 .. n /\ i + 1 \in 1 .. n
    BY <1>1
  <2>2. text[i] = 0 /\ text[i + 1] = 0
    BY <1>1, <1>4, <2>1
  <2>3. CASE i + 2 <= n
    <3>1. i \in 1 .. n - 2 /\ i + 2 \in 1 .. n
      BY <1>1, <2>3
    <3> QED
      BY <1>1, <1>2, <2>2, <3>1
  <2>4. CASE i + 2 > n
    <3>1. i + 1 = n /\ i = n - 1 /\ n # 1 /\ i + 2 = n + 1
      BY <1>1, <2>1, <2>4
    <3>2. zeros # 0 /\ zeros # 1
      BY <1>2, <2>2, <3>1
    <3>3. zeros = 2
      BY <3>2
    <3> QED
      BY <1>1, <3>1, <3>3
  <2> QED
    BY <1>1, <2>3, <2>4
<1>5. z = 0 => u[n + 1] # 0
  BY <1>1, <1>3
<1>6. z > 0 => u[n + 1] = 0
  BY <1>1, <1>3
<1>7. z = 1 => n + 1 = 1 \/ u[(n + 1) - 1] # 0
  <2> SUFFICES ASSUME z = 1, n # 0
               PROVE  u[n] # 0
    BY <1>1
  <2>1. zeros = 0
    OBVIOUS
  <2>2. n \in 1 .. n /\ u[n] = text[n]
    BY <1>1
  <2> QED
    BY <1>2, <2>1, <2>2
<1> HIDE DEF z
<1>8. IsSafe(u, z)
  BY <1>1, <1>4, <1>5, <1>6, <1>7 DEF IsSafe
<1> QED
  BY <1>8 DEF u, z

\* What is escaped holds no start code, and ends with what was written last.
LEMMA EscapedIsSafe ==
  ASSUME NEW bytes \in Seq(Byte)
  PROVE  LET e == Escaped(bytes)
         IN /\ e \in Seq(Byte)
            /\ \A i \in 1 .. Len(e) - 2 : e[i] = 0 /\ e[i + 1] = 0 => e[i + 2] > 2
            /\ bytes = <<>> => e = <<>>
            /\ bytes # <<>> => Len(e) > 0 /\ e[Len(e)] = bytes[Len(bytes)]
<1> DEFINE n == Len(bytes)
           E == Escapes(bytes)
           S == {m \in Nat : m <= n =>
                   /\ IsSafe(E[m].bytes, E[m].zeros)
                   /\ m > 0 => /\ Len(E[m].bytes) > 0
                               /\ E[m].bytes[Len(E[m].bytes)] = bytes[m]}
<1>1. /\ n \in Nat /\ E \in [0 .. n -> EscapeState]
      /\ E[0] = [bytes |-> <<>>, zeros |-> 0]
      /\ \A k \in 1 .. n : E[k] = Escape(E[k - 1], bytes[k])
      /\ Escaped(bytes) = E[n].bytes
  BY EscapesAreDefined
<1>2. \A k \in 1 .. n : bytes[k] \in Byte
  OBVIOUS
<1> HIDE DEF n, E
<1>3. 0 \in S
  <2>1. IsSafe(<<>>, 0)
    BY DEF IsSafe
  <2> QED
    BY <1>1, <2>1
<1>4. ASSUME NEW m \in Nat, m \in S
      PROVE  m + 1 \in S
  <2>1. SUFFICES ASSUME m + 1 <= n
                 PROVE  /\ IsSafe(E[m + 1].bytes, E[m + 1].zeros)
                        /\ Len(E[m + 1].bytes) > 0
                        /\ E[m + 1].bytes[Len(E[m + 1].bytes)] = bytes[m + 1]
    OBVIOUS
  <2> DEFINE t == E[m].bytes
             z == E[m].zeros
             b == bytes[m + 1]
             u == E[m + 1]
  <2>2. m + 1 \in 1 .. n /\ (m + 1) - 1 = m /\ m \in 0 .. n
    BY <1>1, <2>1
  <2>3. /\ u = Escape(E[m], b) /\ b \in Byte
        /\ t \in Seq(Byte) /\ z \in 0 .. 2 /\ IsSafe(t, z)
    BY <1>1, <1>2, <1>4, <2>1, <2>2 DEF EscapeState
  <2>4. 3 \in Byte /\ b \in Int
    <3>1. 3 \in Byte /\ \A x \in Byte : x \in Int
      BY DEF Byte
    <3> QED
      BY <2>3, <3>1
  <2>5. CASE z = 2 /\ b <= 3
    <3> DEFINE v == Append(t, 3)
    <3>1. u.bytes = Append(v, b) /\ u.zeros = IF b = 0 THEN 0 + 1 ELSE 0
      <4>1. u = [bytes |-> Append(v, b), zeros |-> IF b = 0 THEN 1 ELSE 0]
        BY <2>3, <2>5 DEF Escape
      <4> HIDE DEF u, v, b
      <4> QED
        BY <4>1
    <3>2. v \in Seq(Byte)
      BY <2>3, <2>4
    <3>3. IsSafe(v, IF 3 = 0 THEN z + 1 ELSE 0)
      <4> HIDE DEF t, z
      <4> QED
        BY <2>3, <2>4, SafeAppended
    <3>4. IsSafe(v, 0)
      BY <3>3
    <3> HIDE DEF v, b, u
    <3>5. IsSafe(Append(v, b), IF b = 0 THEN 0 + 1 ELSE 0)
      BY <2>3, <3>2, <3>4, SafeAppended
    <3>6. Len(Append(v, b)) > 0 /\ Append(v, b)[Len(Append(v, b))] = b
      BY <2>3, <3>2
    <3> QED
      BY <3>1, <3>5, <3>6 DEF b, u
  <2>6. CASE ~(z = 2 /\ b <= 3)
    <3>1. u.bytes = Append(t, b) /\ u.zeros = IF b = 0 THEN z + 1 ELSE 0
      BY <2>3, <2>6 DEF Escape
    <3> HIDE DEF t, z, b, u
    <3>2. IsSafe(Append(t, b), IF b = 0 THEN z + 1 ELSE 0)
      <4>1. z = 2 => b > 2
        BY <2>4, <2>6
      <4> QED
        BY <2>3, <4>1, SafeAppended
    <3>3. Len(Append(t, b)) > 0 /\ Append(t, b)[Len(Append(t, b))] = b
      BY <2>3
    <3> QED
      BY <3>1, <3>2, <3>3 DEF b, u
  <2> QED
    BY <2>5, <2>6
<1>5. n \in S
  <2> HIDE DEF S
  <2> QED
    BY <1>1, <1>3, <1>4, SetInduction
<1>6. E[n] \in EscapeState
  BY <1>1
<1>7. IsSafe(E[n].bytes, E[n].zeros) /\ E[n].bytes \in Seq(Byte)
  BY <1>1, <1>5, <1>6 DEF EscapeState
<1>8. bytes = <<>> => E[n].bytes = <<>>
  BY <1>1 DEF n
<1>9. bytes # <<>> => n > 0
  BY DEF n
<1> QED
  BY <1>1, <1>5, <1>7, <1>8, <1>9 DEF IsSafe, n

IsStart(t, text) ==
  Len(t) <= Len(text) /\ \A i \in 1 .. Len(t) : text[i] = t[i]

\* What each step only adds to stays where it is.
LEMMA StartsStay ==
  ASSUME NEW n \in Nat, NEW Character, NEW T \in [0 .. n -> Seq(Character)],
         \A k \in 1 .. n : IsStart(T[k - 1], T[k])
  PROVE  \A m \in 0 .. n : IsStart(T[m], T[n])
<1> DEFINE S == {d \in Nat : d <= n => IsStart(T[n - d], T[n])}
<1>1. \A m \in 0 .. n : Len(T[m]) \in Nat
  OBVIOUS
<1>2. 0 \in S
  <2>1. n - 0 = n /\ Len(T[n]) \in Nat
    BY <1>1
  <2> QED
    BY <2>1 DEF IsStart
<1>3. ASSUME NEW d \in Nat, d \in S
      PROVE  d + 1 \in S
  <2>1. SUFFICES ASSUME d + 1 <= n
                 PROVE  IsStart(T[n - (d + 1)], T[n])
    OBVIOUS
  <2> DEFINE k == n - d
             t == T[k - 1]
             u == T[k]
             v == T[n]
  <2>2. k \in 1 .. n /\ k - 1 = n - (d + 1) /\ k - 1 \in 0 .. n
        /\ k \in 0 .. n /\ n \in 0 .. n
    BY <2>1
  <2>3. IsStart(u, v)
    BY <1>3, <2>1
  <2>4. IsStart(t, u)
    BY <2>2
  <2>5. Len(t) \in Nat /\ Len(u) \in Nat /\ Len(v) \in Nat
    BY <1>1, <2>2
  <2> HIDE DEF k, t, u, v
  <2>6. IsStart(t, v)
    BY <2>3, <2>4, <2>5 DEF IsStart
  <2> QED
    BY <2>2, <2>6 DEF t, v
<1>4. \A d \in Nat : d \in S
  <2> HIDE DEF S
  <2> QED
    BY <1>2, <1>3, SetInduction
<1>5. ASSUME NEW m \in 0 .. n
      PROVE  IsStart(T[m], T[n])
  <2>1. n - m \in Nat /\ n - m <= n /\ n - (n - m) = m
    OBVIOUS
  <2>2. n - m \in S
    <3> HIDE DEF S
    <3> QED
      BY <1>4, <2>1
  <2> QED
    BY <2>1, <2>2
<1> QED
  BY <1>5

\* What a text starts with, it starts with when it is longer.
LEMMA AppendedStart ==
  ASSUME NEW Character, NEW a \in Seq(Character), NEW b \in Seq(Character)
  PROVE  IsStart(a, a \o b)
  BY DEF IsStart

\* What was written for a prefix stays where it is.
LEMMA EscapesGrow ==
  ASSUME NEW bytes \in Seq(Byte), NEW m \in 0 .. Len(bytes)
  PROVE  IsStart(Escapes(bytes)[m].bytes, Escaped(bytes))
<1> DEFINE n == Len(bytes)
           E == Escapes(bytes)
           T == [k \in 0 .. n |-> E[k].bytes]
<1>1. /\ n \in Nat /\ E \in [0 .. n -> EscapeState]
      /\ \A k \in 1 .. n : E[k] = Escape(E[k - 1], bytes[k])
      /\ Escaped(bytes) = E[n].bytes
  BY EscapesAreDefined
<1>2. T \in [0 .. n -> Seq(Byte)]
  BY <1>1 DEF EscapeState
<1>3. ASSUME NEW k \in 1 .. n
      PROVE  IsStart(T[k - 1], T[k])
  <2> DEFINE r == E[k - 1]
             t == r.bytes
             b == bytes[k]
  <2>1. k - 1 \in 0 .. n /\ k \in 0 .. n /\ b \in Byte
    BY <1>1
  <2>2. r \in EscapeState /\ E[k] = Escape(r, b)
    BY <1>1, <2>1
  <2>3. T[k - 1] = t /\ T[k] = Escape(r, b).bytes
    BY <2>1, <2>2
  <2>4. t \in Seq(Byte) /\ 3 \in Byte
    BY <2>2 DEF EscapeState, Byte
  <2> HIDE DEF T, E, b, n, r
  <2>5. CASE r.zeros = 2 /\ b <= 3
    <3>1. Escape(r, b).bytes = Append(Append(t, 3), b)
      BY <2>5 DEF Escape
    <3> HIDE DEF t
    <3> DEFINE v == Append(t, 3)
    <3>2. /\ v \in Seq(Byte) /\ Len(v) = Len(t) + 1 /\ Len(t) \in Nat
          /\ \A i \in 1 .. Len(t) : v[i] = t[i] /\ i \in 1 .. Len(v)
      BY <2>4
    <3> HIDE DEF v
    <3>3. /\ Len(Append(v, b)) = Len(v) + 1
          /\ \A i \in 1 .. Len(v) : Append(v, b)[i] = v[i]
      BY <2>1, <3>2
    <3> QED
      BY <2>3, <3>1, <3>2, <3>3 DEF IsStart, v
  <2>6. CASE ~(r.zeros = 2 /\ b <= 3)
    <3>1. Escape(r, b).bytes = Append(t, b)
      BY <2>6 DEF Escape
    <3> HIDE DEF t
    <3>2. Append(t, b) = t \o <<b>> /\ <<b>> \in Seq(Byte)
      BY <2>1, <2>4
    <3> QED
      BY <2>3, <2>4, <3>1, <3>2, AppendedStart
  <2> QED
    BY <2>5, <2>6
<1>4. m \in 0 .. n /\ n \in 0 .. n
  BY <1>1
<1>5. IsStart(T[m], T[n])
  <2> HIDE DEF T, n
  <2> QED
    BY <1>1, <1>2, <1>3, <1>4, StartsStay
<1> QED
  BY <1>1, <1>4, <1>5

CopyState == [bytes : Seq(Byte), zeros : Nat]

\* What the inspector has copied of the prefixes of a payload.
Copies(payload) ==
  CHOOSE copied : copied = [k \in 0 .. Len(payload) |->
    IF k = 0 THEN [bytes |-> <<>>, zeros |-> 0]
    ELSE Copy(copied[k - 1], payload[k])]

\* One more byte keeps the state of the copy.
LEMMA CopyType ==
  ASSUME NEW r \in CopyState, NEW byte \in Byte
  PROVE  Copy(r, byte) \in CopyState
<1>1. r.bytes \in Seq(Byte) /\ r.zeros \in Nat
  BY DEF CopyState
<1>2. Append(r.bytes, byte) \in Seq(Byte) /\ r.zeros + 1 \in Nat
  BY <1>1
<1>3. CASE Len(r.bytes) = RbspMax
  BY <1>3 DEF Copy
<1>4. CASE Len(r.bytes) # RbspMax /\ r.zeros >= 2 /\ byte = 3
  <2>1. Copy(r, byte) = [r EXCEPT !.zeros = 0]
    BY <1>4 DEF Copy
  <2> QED
    BY <2>1 DEF CopyState
<1>5. CASE Len(r.bytes) # RbspMax /\ ~(r.zeros >= 2 /\ byte = 3)
  BY <1>2, <1>5 DEF Copy, CopyState
<1> QED
  BY <1>3, <1>4, <1>5

\* The loop of the copy.
LEMMA CopiesAreDefined ==
  ASSUME NEW payload \in Seq(Byte)
  PROVE  LET n == Len(payload)
             C == Copies(payload)
         IN /\ C \in [0 .. n -> CopyState]
            /\ C[0] = [bytes |-> <<>>, zeros |-> 0]
            /\ \A k \in 1 .. n : C[k] = Copy(C[k - 1], payload[k])
            /\ Rbsp(payload) = C[n].bytes
<1> DEFINE n == Len(payload)
           base == [bytes |-> <<>>, zeros |-> 0]
           step == [k \in 1 .. n |-> [r \in CopyState |-> Copy(r, payload[k])]]
           Loop(f) == f = [k \in 0 .. n |-> IF k = 0 THEN base
                                            ELSE Copy(f[k - 1], payload[k])]
<1>1. n \in Nat /\ \A k \in 1 .. n : payload[k] \in Byte
  OBVIOUS
<1>2. base \in CopyState
  BY DEF CopyState
<1>3. step \in [1 .. n -> [CopyState -> CopyState]]
  BY <1>1, CopyType
<1> HIDE DEF n, base
<1>4. PICK f \in [0 .. n -> CopyState] : IsIteration(f, base, step, n)
  <2> HIDE DEF step
  <2> QED
    BY <1>1, <1>2, <1>3, Iteration
<1>5. Loop(f)
  <2>1. f[0] = base /\ \A k \in 1 .. n : f[k] = step[k][f[k - 1]]
    BY <1>4 DEF IsIteration
  <2>2. \A k \in 1 .. n : k - 1 \in 0 .. n
    BY <1>1
  <2>3. \A k \in 1 .. n : f[k] = Copy(f[k - 1], payload[k])
    BY <1>4, <2>1, <2>2
  <2>4. \A k \in 0 .. n : k = 0 \/ k \in 1 .. n
    BY <1>1
  <2> QED
    BY <1>4, <2>1, <2>3, <2>4
<1>6. Loop(Copies(payload))
  <2> HIDE DEF Loop
  <2>1. \E g : Loop(g)
    BY <1>5
  <2> QED
    BY <2>1 DEF Copies, Loop, n, base
<1>7. /\ Copies(payload)[0] = base
      /\ \A k \in 1 .. n :
           Copies(payload)[k] = Copy(Copies(payload)[k - 1], payload[k])
  BY <1>1, <1>6
<1>8. Copies(payload) \in [0 .. n -> CopyState]
  <2>1. Copies(payload) = [k \in 0 .. n |-> Copies(payload)[k]]
    BY <1>6
  <2> HIDE DEF Loop, step
  <2>2. \A k \in 1 .. n : Copies(payload)[k - 1] \in CopyState
                            => Copies(payload)[k] \in CopyState
    BY <1>1, <1>7, CopyType
  <2>3. Copies(payload)[0] \in CopyState
    BY <1>2, <1>7
  <2> QED
    BY <1>1, <2>1, <2>2, <2>3, IterationType
<1>9. Rbsp(payload) = Copies(payload)[n].bytes
  BY DEF Rbsp, Copies, n
<1> QED
  BY <1>7, <1>8, <1>9 DEF n, base

\* copied is what a copy has after the first m bytes were escaped.
IsCopied(c, bytes, m, zeros) ==
  /\ Len(c.bytes) = IF m <= RbspMax THEN m ELSE RbspMax
  /\ \A i \in 1 .. Len(c.bytes) : c.bytes[i] = bytes[i]
  /\ Len(c.bytes) < RbspMax => c.zeros = zeros

\* A byte that is copied after the first m.
LEMMA CopiedByte ==
  ASSUME NEW c \in CopyState, NEW bytes \in Seq(Byte), NEW m \in Nat,
         m + 1 <= Len(bytes), NEW zeros \in 0 .. 2, IsCopied(c, bytes, m, zeros),
         ~(zeros = 2 /\ bytes[m + 1] = 3)
  PROVE  IsCopied(Copy(c, bytes[m + 1]), bytes, m + 1,
                  IF bytes[m + 1] = 0 THEN zeros + 1 ELSE 0)
<1> DEFINE b == bytes[m + 1]
           t == c.bytes
           d == Copy(c, b)
           z == IF b = 0 THEN zeros + 1 ELSE 0
<1>1. /\ Len(t) = IF m <= RbspMax THEN m ELSE RbspMax
      /\ \A i \in 1 .. Len(t) : t[i] = bytes[i]
      /\ Len(t) < RbspMax => c.zeros = zeros
  BY DEF IsCopied
<1>2. t \in Seq(Byte) /\ b \in Byte /\ c.zeros \in Nat /\ RbspMax \in Nat
  BY H264InspectorAssumption DEF CopyState
<1>3. ~(zeros = 2 /\ b = 3)
  OBVIOUS
<1>4. CASE Len(t) = RbspMax
  <2>1. d = c /\ m >= RbspMax
    BY <1>1, <1>2, <1>4 DEF Copy
  <2> HIDE DEF d
  <2> QED
    BY <1>1, <1>2, <1>4, <2>1 DEF IsCopied, d
<1>5. CASE Len(t) # RbspMax
  <2>1. Len(t) = m /\ m < RbspMax /\ c.zeros = zeros
    BY <1>1, <1>2, <1>5
  <2>2. ~(c.zeros >= 2 /\ b = 3)
    BY <1>3, <2>1
  <2>3. d.bytes = Append(t, b) /\ d.zeros = z
    <3>1. d = [bytes |-> Append(t, b), zeros |-> z]
      BY <1>5, <2>1, <2>2 DEF Copy
    <3> HIDE DEF d, z
    <3> QED
      BY <3>1
  <2> HIDE DEF d, z, t, b
  <2>4. /\ Len(d.bytes) = m + 1 /\ d.bytes[m + 1] = b
        /\ \A i \in 1 .. m : d.bytes[i] = bytes[i]
    BY <1>1, <1>2, <2>1, <2>3
  <2>5. \A i \in 1 .. m + 1 : i \in 1 .. m \/ i = m + 1
    OBVIOUS
  <2>6. \A i \in 1 .. m + 1 : d.bytes[i] = bytes[i]
    BY <2>4, <2>5 DEF b
  <2>7. m + 1 <= RbspMax
    BY <1>2, <2>1
  <2> QED
    BY <2>3, <2>4, <2>6, <2>7 DEF IsCopied, d, z, b
<1> QED
  BY <1>4, <1>5

\* The copy of what an encoder escaped is what it escaped, up to RbspMax.
LEMMA CopyOfEscaped ==
  ASSUME NEW bytes \in Seq(Byte)
  PROVE  LET r == Rbsp(Escaped(bytes))
             n == Len(bytes)
         IN /\ r \in Seq(Byte)
            /\ Len(r) = IF n <= RbspMax THEN n ELSE RbspMax
            /\ \A i \in 1 .. Len(r) : r[i] = bytes[i]
<1> DEFINE n == Len(bytes)
           E == Escapes(bytes)
           e == Escaped(bytes)
           C == Copies(e)
           p(m) == Len(E[m].bytes)
           S == {m \in Nat : m <= n =>
                   IsCopied(C[p(m)], bytes, m, E[m].zeros)}
<1>1. /\ n \in Nat /\ E \in [0 .. n -> EscapeState]
      /\ E[0] = [bytes |-> <<>>, zeros |-> 0]
      /\ \A k \in 1 .. n : E[k] = Escape(E[k - 1], bytes[k])
      /\ e = E[n].bytes
  BY EscapesAreDefined
<1>2. \A k \in 0 .. n : E[k].bytes \in Seq(Byte) /\ E[k].zeros \in 0 .. 2
  BY <1>1 DEF EscapeState
<1>3. e \in Seq(Byte)
  <2>1. n \in 0 .. n
    BY <1>1
  <2> HIDE DEF e, E, n
  <2> QED
    BY <1>1, <1>2, <2>1
<1>4. /\ C \in [0 .. Len(e) -> CopyState]
      /\ C[0] = [bytes |-> <<>>, zeros |-> 0]
      /\ \A k \in 1 .. Len(e) : C[k] = Copy(C[k - 1], e[k])
      /\ Rbsp(e) = C[Len(e)].bytes
  <2> HIDE DEF e
  <2> QED
    BY <1>3, CopiesAreDefined
<1>5. \A m \in 0 .. n : /\ Len(E[m].bytes) <= Len(e)
                        /\ \A i \in 1 .. Len(E[m].bytes) : e[i] = E[m].bytes[i]
  BY EscapesGrow DEF IsStart
<1> HIDE DEF n, E, e, C
<1>6. 0 \in S
  <2>1. p(0) = 0
    BY <1>1
  <2>2. C[p(0)] = [bytes |-> <<>>, zeros |-> 0] /\ E[0].zeros = 0
    BY <1>1, <1>4, <2>1
  <2>3. IsCopied([bytes |-> <<>>, zeros |-> 0], bytes, 0, 0)
    BY H264InspectorAssumption DEF IsCopied
  <2> QED
    BY <2>2, <2>3
<1>7. ASSUME NEW m \in Nat, m \in S
      PROVE  m + 1 \in S
  <2>1. SUFFICES ASSUME m + 1 <= n
                 PROVE  IsCopied(C[p(m + 1)], bytes, m + 1, E[m + 1].zeros)
    OBVIOUS
  <2> DEFINE t == E[m].bytes
             z == E[m].zeros
             u == E[m + 1].bytes
             b == bytes[m + 1]
             q == Len(t)
             c == C[q]
  <2>2. m + 1 \in 1 .. n /\ (m + 1) - 1 = m /\ m \in 0 .. n /\ m + 1 \in 0 .. n
    BY <1>1, <2>1
  <2>3. /\ t \in Seq(Byte) /\ u \in Seq(Byte) /\ z \in 0 .. 2
        /\ b \in Byte /\ E[m + 1] = Escape(E[m], b)
    <3>1. b \in Byte
      BY <2>2 DEF n
    <3> QED
      BY <1>1, <1>2, <2>2, <3>1
  <2>4. /\ Len(u) <= Len(e) /\ \A i \in 1 .. Len(u) : e[i] = u[i]
        /\ q <= Len(e)
    BY <1>5, <2>2
  <2>5. IsCopied(c, bytes, m, z)
    BY <1>1, <1>7, <2>1
  <2>6. q \in Nat /\ Len(u) \in Nat /\ Len(e) \in Nat /\ m + 1 <= Len(bytes)
    BY <1>3, <2>1, <2>3 DEF n
  <2>7. c \in CopyState
    <3>1. q \in 0 .. Len(e)
      BY <2>4, <2>6
    <3> HIDE DEF q
    <3> QED
      BY <1>4, <3>1
  <2>8. CASE z = 2 /\ b <= 3
    <3> DEFINE d == Copy(c, 3)
    <3>1. /\ u = Append(Append(t, 3), b)
          /\ E[m + 1].zeros = IF b = 0 THEN 0 + 1 ELSE 0
      <4>1. E[m + 1] = [bytes |-> Append(Append(t, 3), b),
                        zeros |-> IF b = 0 THEN 1 ELSE 0]
        BY <2>3, <2>8 DEF Escape
      <4> HIDE DEF t, b
      <4> QED
        BY <4>1
    <3> HIDE DEF t, z, u, b, q, c
    <3>2. /\ Len(u) = q + 2 /\ u[q + 1] = 3 /\ u[q + 2] = b
      <4>1. 3 \in Byte
        BY DEF Byte
      <4> DEFINE v == Append(t, 3)
      <4>2. v \in Seq(Byte) /\ Len(v) = q + 1 /\ v[q + 1] = 3
        BY <2>3, <4>1 DEF q
      <4> HIDE DEF v
      <4>3. /\ Len(Append(v, b)) = q + 2 /\ Append(v, b)[q + 2] = b
            /\ Append(v, b)[q + 1] = v[q + 1]
        BY <2>3, <2>6, <4>2
      <4> QED
        BY <3>1, <4>2, <4>3 DEF v
    <3>3. /\ q + 1 \in 1 .. Len(e) /\ q + 2 \in 1 .. Len(e)
          /\ e[q + 1] = 3 /\ e[q + 2] = b
          /\ (q + 1) - 1 = q /\ (q + 2) - 1 = q + 1
      BY <2>4, <2>6, <3>2
    <3>4. C[q + 1] = d /\ C[q + 2] = Copy(d, b)
      BY <1>4, <3>3 DEF c
    <3>5. d \in CopyState
      <4>1. 3 \in Byte
        BY DEF Byte
      <4> QED
        BY <2>7, <4>1, CopyType
    <3>6. IsCopied(d, bytes, m, 0)
      <4>1. CASE Len(c.bytes) = RbspMax
        <5>1. d = c
          BY <4>1 DEF Copy
        <5>2. ~(Len(c.bytes) < RbspMax)
          BY <4>1, H264InspectorAssumption
        <5> HIDE DEF d
        <5> QED
          BY <2>5, <5>1, <5>2 DEF IsCopied
      <4>2. CASE Len(c.bytes) # RbspMax
        <5>1. Len(c.bytes) < RbspMax
          BY <2>5, <2>6, <4>2, H264InspectorAssumption DEF IsCopied
        <5>2. c.zeros = 2
          BY <2>5, <2>8, <5>1 DEF IsCopied
        <5>3. d = [c EXCEPT !.zeros = 0]
          BY <4>2, <5>2 DEF Copy
        <5>4. d.bytes = c.bytes /\ d.zeros = 0
          BY <2>7, <5>3 DEF CopyState
        <5> HIDE DEF d
        <5> QED
          BY <2>5, <5>4 DEF IsCopied
      <4> QED
        BY <4>1, <4>2
    <3> HIDE DEF d
    <3>7. IsCopied(Copy(d, b), bytes, m + 1, IF b = 0 THEN 0 + 1 ELSE 0)
      <4>1. 0 \in 0 .. 2 /\ ~(0 = 2 /\ bytes[m + 1] = 3)
        OBVIOUS
      <4> QED
        BY <2>6, <3>5, <3>6, <4>1, CopiedByte DEF b
    <3> QED
      BY <3>1, <3>2, <3>4, <3>7 DEF u
  <2>9. CASE ~(z = 2 /\ b <= 3)
    <3>1. /\ u = Append(t, b)
          /\ E[m + 1].zeros = IF b = 0 THEN z + 1 ELSE 0
      <4>1. E[m + 1] = [bytes |-> Append(t, b),
                        zeros |-> IF b = 0 THEN z + 1 ELSE 0]
        BY <2>3, <2>9 DEF Escape
      <4> HIDE DEF t, b, z
      <4> QED
        BY <4>1
    <3> HIDE DEF t, z, u, b, q, c
    <3>2. Len(u) = q + 1 /\ u[q + 1] = b
      BY <2>3, <3>1 DEF q
    <3>3. q + 1 \in 1 .. Len(e) /\ e[q + 1] = b /\ (q + 1) - 1 = q
      BY <2>4, <2>6, <3>2
    <3>4. C[q + 1] = Copy(c, b)
      BY <1>4, <3>3 DEF c
    <3>5. ~(z = 2 /\ b = 3)
      BY <2>9
    <3>6. IsCopied(Copy(c, b), bytes, m + 1, IF b = 0 THEN z + 1 ELSE 0)
      BY <2>3, <2>5, <2>6, <2>7, <3>5, CopiedByte DEF b
    <3> QED
      BY <3>1, <3>2, <3>4, <3>6 DEF u
  <2> QED
    BY <2>8, <2>9
<1>8. n \in S
  <2> HIDE DEF S
  <2> QED
    BY <1>1, <1>6, <1>7, SetInduction
<1>9. IsCopied(C[Len(e)], bytes, n, E[n].zeros)
  BY <1>1, <1>8
<1>10. C[Len(e)].bytes \in Seq(Byte)
  <2>1. Len(e) \in 0 .. Len(e)
    BY <1>3
  <2> QED
    BY <1>4, <2>1 DEF CopyState
<1> QED
  BY <1>4, <1>9, <1>10 DEF IsCopied, e, n

\* The weight of a bit is positive.
LEMMA WeightType ==
  ASSUME NEW j \in 1 .. 8
  PROVE  Weight[j] \in Nat /\ Weight[j] > 0
<1>1. CASE j = 1
  <2>1. Weight[j] = 128
    BY <1>1 DEF Weight
  <2> QED
    BY <2>1
<1>2. CASE j = 2
  <2>1. Weight[j] = 64
    BY <1>2 DEF Weight
  <2> QED
    BY <2>1
<1>3. CASE j = 3
  <2>1. Weight[j] = 32
    BY <1>3 DEF Weight
  <2> QED
    BY <2>1
<1>4. CASE j = 4
  <2>1. Weight[j] = 16
    BY <1>4 DEF Weight
  <2> QED
    BY <2>1
<1>5. CASE j = 5
  <2>1. Weight[j] = 8
    BY <1>5 DEF Weight
  <2> QED
    BY <2>1
<1>6. CASE j = 6
  <2>1. Weight[j] = 4
    BY <1>6 DEF Weight
  <2> QED
    BY <2>1
<1>7. CASE j = 7
  <2>1. Weight[j] = 2
    BY <1>7 DEF Weight
  <2> QED
    BY <2>1
<1>8. CASE j = 8
  <2>1. Weight[j] = 1
    BY <1>8 DEF Weight
  <2> QED
    BY <2>1
<1> QED
  BY <1>1, <1>2, <1>3, <1>4, <1>5, <1>6, <1>7, <1>8

\* The codes that begin the body of a slice, the bits of which are the copied
\* bytes, are read.
LEMMA SliceIsNamed ==
  ASSUME NEW first \in 0 .. GreatestValue, NEW slice \in 0 .. GreatestValue,
         NEW rest \in Seq(Byte),
         Len(GolombOf(first)) + Len(GolombOf(slice)) <= 8 * RbspMax
  PROVE  LET header == GolombOf(first) \o GolombOf(slice)
             body   == BytesOf(header) \o rest
         IN /\ body \in Seq(Byte)
            /\ SliceType(Escaped(body))
                 = << <<"P", "B", "I", "SP", "SI">>[(slice % 5) + 1] >>
<1> DEFINE f == GolombOf(first)
           g == GolombOf(slice)
           header == f \o g
           B == BytesOf(header)
           body == B \o rest
           r == Rbsp(Escaped(body))
           bits == BitsOf(r)
<1>1. PICK v \in 1 .. 31 : IsCode(f, first, v)
  BY GolombOfValue
<1>2. PICK w \in 1 .. 31 : IsCode(g, slice, w)
  BY GolombOfValue
<1> HIDE DEF f, g
<1>3. /\ f \in Seq(Bit) /\ Len(f) = 2 * v - 1
      /\ g \in Seq(Bit) /\ Len(g) = 2 * w - 1
  BY <1>1, <1>2 DEF IsCode
<1>4. header \in Seq(Bit) /\ IsJoined(header, f, g)
  BY <1>3, Joined
<1>5. Len(header) <= 8 * RbspMax
  BY <1>4 DEF IsJoined, f, g
<1> HIDE DEF header
<1>6. /\ B \in Seq(Byte) /\ Len(header) <= 8 * Len(B)
      /\ \A k \in 1 .. Len(header) :
           (B[(k - 1) \div 8 + 1] \div Weight[((k - 1) % 8) + 1]) % 2 = header[k]
  BY <1>4, BytesOfBits
<1> HIDE DEF B
<1>7. body \in Seq(Byte) /\ IsJoined(body, B, rest)
  BY <1>6, Joined
<1> HIDE DEF body
<1>8. /\ r \in Seq(Byte)
      /\ Len(r) = IF Len(body) <= RbspMax THEN Len(body) ELSE RbspMax
      /\ \A i \in 1 .. Len(r) : r[i] = body[i]
  BY <1>7, CopyOfEscaped
<1> HIDE DEF r
<1>9. /\ Len(header) \in Nat /\ Len(B) \in Nat /\ Len(rest) \in Nat
      /\ Len(r) \in Nat /\ RbspMax \in Nat /\ Len(body) = Len(B) + Len(rest)
  BY <1>4, <1>6, <1>7, <1>8, H264InspectorAssumption DEF IsJoined
<1>10. Len(header) <= 8 * Len(r)
  BY <1>5, <1>6, <1>8, <1>9
<1>11. bits \in Seq(Bit) /\ Len(bits) = 8 * Len(r)
  <2>1. \A k \in 1 .. 8 * Len(r) :
          (r[(k - 1) \div 8 + 1] \div Weight[((k - 1) % 8) + 1]) % 2 \in Bit
    <3> SUFFICES ASSUME NEW k \in 1 .. 8 * Len(r)
                 PROVE  (r[(k - 1) \div 8 + 1]
                           \div Weight[((k - 1) % 8) + 1]) % 2 \in Bit
      OBVIOUS
    <3> DEFINE i == (k - 1) \div 8 + 1
               j == ((k - 1) % 8) + 1
    <3>1. i \in 1 .. Len(r) /\ j \in 1 .. 8
      BY <1>9
    <3> HIDE DEF i, j
    <3>2. r[i] \in Nat
      <4>1. r[i] \in Byte
        BY <1>8, <3>1
      <4>2. \A x \in Byte : x \in Nat
        BY DEF Byte
      <4> QED
        BY <4>1, <4>2
    <3>3. Weight[j] \in Nat /\ Weight[j] > 0
      BY <3>1, WeightType
    <3>4. \A x \in Nat : \A y \in Nat : y > 0 => x \div y \in Nat
      BY SMT
    <3>5. r[i] \div Weight[j] \in Nat
      BY <3>2, <3>3, <3>4
    <3>6. \A x \in Nat : x % 2 \in Bit
      BY SMT DEF Bit
    <3> QED
      BY <3>5, <3>6 DEF i, j
  <2>2. 8 * Len(r) \in Nat
    BY <1>9
  <2> QED
    BY <2>1, <2>2 DEF BitsOf
<1>12. ASSUME NEW k \in 1 .. Len(header)
       PROVE  bits[k] = header[k]
  <2> DEFINE i == (k - 1) \div 8 + 1
             j == ((k - 1) % 8) + 1
  <2>1. k \in 1 .. 8 * Len(r) /\ i \in 1 .. Len(r) /\ i \in 1 .. Len(B)
    BY <1>6, <1>9, <1>10
  <2>2. bits[k] = (r[i] \div Weight[j]) % 2
    BY <2>1 DEF BitsOf
  <2>3. (B[i] \div Weight[j]) % 2 = header[k]
    BY <1>6
  <2> HIDE DEF i, j
  <2>4. r[i] = body[i] /\ body[i] = B[i]
    BY <1>7, <1>8, <2>1 DEF IsJoined
  <2> QED
    BY <2>2, <2>3, <2>4
<1> HIDE DEF bits
<1>13. first \in Nat /\ slice \in Nat
  BY GreatestValueType
<1>14. ExpGolomb(bits, 1) = [value |-> first, next |-> 1 + Len(f)]
  <2> DEFINE i == 1
  <2>1. i \in Nat /\ i > 0 /\ i - 1 = 0
    OBVIOUS
  <2>2. i - 1 + Len(f) <= Len(bits)
    BY <1>3, <1>4, <1>9, <1>10, <1>11 DEF IsJoined
  <2>3. \A j \in 1 .. Len(f) : bits[i - 1 + j] = f[j]
    <3>1. \A j \in 1 .. Len(f) : /\ j \in 1 .. Len(header) /\ i - 1 + j = j
                                 /\ header[j] = f[j]
      BY <1>3, <1>4 DEF IsJoined
    <3> QED
      BY <1>12, <3>1
  <2> HIDE DEF i
  <2>4. ExpGolomb(bits, i) = [value |-> first, next |-> i + Len(f)]
    BY <1>1, <1>11, <1>13, <2>1, <2>2, <2>3, CodeIsRead
  <2> QED
    BY <2>4 DEF i
<1>15. ExpGolomb(bits, 1 + Len(f)) = [value |-> slice,
                                      next  |-> 1 + Len(f) + Len(g)]
  <2>1. (1 + Len(f)) - 1 + Len(g) <= Len(bits)
    BY <1>3, <1>4, <1>9, <1>10, <1>11 DEF IsJoined
  <2>2. \A j \in 1 .. Len(g) : bits[(1 + Len(f)) - 1 + j] = g[j]
    <3>1. \A j \in 1 .. Len(g) : /\ Len(f) + j \in 1 .. Len(header)
                                 /\ (1 + Len(f)) - 1 + j = Len(f) + j
                                 /\ header[Len(f) + j] = g[j]
      BY <1>3, <1>4 DEF IsJoined
    <3> QED
      BY <1>12, <3>1
  <2>3. 1 + Len(f) \in Nat /\ 1 + Len(f) > 0
    BY <1>3
  <2> QED
    BY <1>2, <1>11, <1>13, <2>1, <2>2, <2>3, CodeIsRead
<1>16. SliceType(Escaped(body))
         = << <<"P", "B", "I", "SP", "SI">>[(slice % 5) + 1] >>
  <2> DEFINE x == ExpGolomb(bits, 1)
             y == ExpGolomb(bits, x.next)
  <2>1. x.next = 1 + Len(f) /\ x # NoCode
    <3>1. x.value = first /\ x.next = 1 + Len(f)
      BY <1>14
    <3>2. first # -1
      BY <1>13
    <3> HIDE DEF x
    <3> QED
      BY <3>1, <3>2 DEF NoCode
  <2>2. y.value = slice /\ y # NoCode
    <3>1. y.value = slice
      BY <1>15, <2>1
    <3>2. slice # -1
      BY <1>13
    <3> HIDE DEF y
    <3> QED
      BY <3>1, <3>2 DEF NoCode
  <2>3. SliceType(Escaped(body))
          = IF x = NoCode \/ y = NoCode THEN <<>>
            ELSE << <<"P", "B", "I", "SP", "SI">>[(y.value % 5) + 1] >>
    BY DEF SliceType, bits, r
  <2> HIDE DEF x, y
  <2> QED
    BY <2>1, <2>2, <2>3
<1> QED
  BY <1>7, <1>16 DEF body, B, header, f, g

NalName == {"SEI", "SPS", "PPS", "AUD", "P", "B", "I", "SP", "SI"}

\* Any NAL unit that an encoder can write, with what there is to say about it:
\* a unit never ends with a zero, and a slice begins with the codes of its first
\* macroblock and of its type, within the bytes that are decoded.
EncoderUnit ==
  {u \in [long : BOOLEAN, header : 1 .. 255, body : Seq(Byte),
          info : Seq(NalName)] :
     /\ u.body # <<>> => u.body[Len(u.body)] # 0
     /\ u.header % 32 \in 6 .. 9 =>
          u.info = << <<"SEI", "SPS", "PPS", "AUD">>[(u.header % 32) - 5] >>
     /\ u.header % 32 \in {1, 5} =>
          \E first, slice \in 0 .. GreatestValue, rest \in Seq(Byte) :
            /\ Len(GolombOf(first)) + Len(GolombOf(slice)) <= 8 * RbspMax
            /\ u.body = BytesOf(GolombOf(first) \o GolombOf(slice)) \o rest
            /\ u.info = << <<"P", "B", "I", "SP", "SI">>[(slice % 5) + 1] >>
     /\ u.header % 32 \notin {1} \cup 5 .. 9 => u.info = <<>>}

CodeLength(u) == IF u.long THEN 4 ELSE 3

\* The bytes of a unit: a start code, a header, and text that holds no start
\* code and does not end with a zero.
LEMMA UnitLayout ==
  ASSUME NEW u \in EncoderUnit
  PROVE  LET U == UnitBytes(u)
             e == Escaped(u.body)
             s == CodeLength(u)
         IN /\ U \in Seq(Byte) /\ e \in Seq(Byte)
            /\ Len(U) = s + 1 + Len(e)
            /\ \A i \in 1 .. s - 1 : U[i] = 0
            /\ U[s] = 1
            /\ U[s + 1] = u.header
            /\ \A i \in 1 .. Len(e) : U[s + 1 + i] = e[i]
            /\ U[Len(U)] # 0
            /\ \A i \in 1 .. Len(e) - 2 :
                 e[i] = 0 /\ e[i + 1] = 0 => e[i + 2] > 2
<1> DEFINE U == UnitBytes(u)
           e == Escaped(u.body)
           s == CodeLength(u)
           z == IF u.long THEN <<0>> ELSE <<>>
           c == <<0, 0, 1, u.header>>
           zc == z \o c
<1>1. /\ u.long \in BOOLEAN /\ u.header \in 1 .. 255 /\ u.body \in Seq(Byte)
      /\ u.body # <<>> => u.body[Len(u.body)] # 0
  BY DEF EncoderUnit
<1>2. /\ e \in Seq(Byte)
      /\ \A i \in 1 .. Len(e) - 2 : e[i] = 0 /\ e[i + 1] = 0 => e[i + 2] > 2
      /\ u.body = <<>> => e = <<>>
      /\ u.body # <<>> => Len(e) > 0 /\ e[Len(e)] = u.body[Len(u.body)]
  BY <1>1, EscapedIsSafe
<1>3. /\ zc \in Seq(Byte) /\ Len(zc) = s + 1
      /\ \A i \in 1 .. s - 1 : zc[i] = 0
      /\ zc[s] = 1 /\ zc[s + 1] = u.header
  <2>1. 0 \in Byte /\ 1 \in Byte /\ u.header \in Byte
    BY <1>1 DEF Byte
  <2>2. c \in Seq(Byte) /\ Len(c) = 4 /\ c[1] = 0 /\ c[2] = 0 /\ c[3] = 1
        /\ c[4] = u.header
    BY <2>1
  <2>3. CASE u.long
    <3>1. zc = <<0>> \o c
      BY <2>3
    <3>2. <<0>> \in Seq(Byte) /\ Len(<<0>>) = 1 /\ <<0>>[1] = 0
      BY <2>1
    <3> HIDE DEF zc, c
    <3>3. zc \in Seq(Byte) /\ IsJoined(zc, <<0>>, c)
      BY <2>2, <3>1, <3>2, Joined
    <3>4. zc[1] = 0 /\ Len(zc) = 5 /\ \A i \in 1 .. 4 : zc[1 + i] = c[i]
      BY <2>2, <3>2, <3>3 DEF IsJoined
    <3>5. zc[2] = 0 /\ zc[3] = 0 /\ zc[4] = 1 /\ zc[5] = u.header
      <4>1. zc[1 + 1] = c[1] /\ zc[1 + 2] = c[2] /\ zc[1 + 3] = c[3]
            /\ zc[1 + 4] = c[4]
        BY <3>4
      <4> QED
        BY <2>2, <4>1
    <3>6. s = 4 /\ \A i \in 1 .. 4 - 1 : i = 1 \/ i = 2 \/ i = 3
      BY <2>3 DEF CodeLength
    <3> QED
      BY <3>3, <3>4, <3>5, <3>6
  <2>4. CASE ~u.long
    <3>1. zc = c
      BY <2>4
    <3> HIDE DEF zc, c
    <3>2. s = 3 /\ \A i \in 1 .. 3 - 1 : i = 1 \/ i = 2
      BY <2>4 DEF CodeLength
    <3> QED
      BY <2>2, <3>1, <3>2
  <2> QED
    BY <2>3, <2>4
<1>4. U = zc \o e
  BY DEF UnitBytes
<1>5. s \in {3, 4}
  BY DEF CodeLength
<1> HIDE DEF U, e, s, zc
<1>6. U \in Seq(Byte) /\ IsJoined(U, zc, e)
  BY <1>2, <1>3, <1>4, Joined
<1>7. Len(e) \in Nat
  BY <1>2
<1>8. /\ Len(U) = s + 1 + Len(e)
      /\ \A i \in 1 .. s - 1 : U[i] = 0
      /\ U[s] = 1 /\ U[s + 1] = u.header
      /\ \A i \in 1 .. Len(e) : U[s + 1 + i] = e[i]
  <2>1. \A i \in 1 .. s + 1 : U[i] = zc[i]
    BY <1>3, <1>6 DEF IsJoined
  <2>2. s \in 1 .. s + 1 /\ s + 1 \in 1 .. s + 1
        /\ \A i \in 1 .. s - 1 : i \in 1 .. s + 1
    BY <1>5
  <2>3. \A i \in 1 .. s - 1 : U[i] = 0
    BY <1>3, <2>1, <2>2
  <2>4. U[s] = 1 /\ U[s + 1] = u.header
    BY <1>3, <2>1, <2>2
  <2> QED
    BY <1>3, <1>6, <2>3, <2>4 DEF IsJoined
<1>9. U[Len(U)] # 0
  <2>1. CASE u.body = <<>>
    <3>1. Len(e) = 0
      BY <1>2, <2>1
    <3>2. Len(U) = s + 1
      BY <1>5, <1>8, <3>1
    <3>3. U[Len(U)] = u.header
      BY <1>8, <3>2
    <3>4. u.header # 0
      <4> DEFINE x == u.header
      <4>1. x \in 1 .. 255
        BY <1>1
      <4> HIDE DEF x
      <4>2. x # 0
        BY <4>1
      <4> QED
        BY <4>2 DEF x
    <3> QED
      BY <3>3, <3>4
  <2>2. CASE u.body # <<>>
    <3>1. Len(e) \in 1 .. Len(e)
      BY <1>2, <1>7, <2>2
    <3> QED
      BY <1>1, <1>2, <1>8, <2>2, <3>1
  <2> QED
    BY <2>1, <2>2
<1> QED
  BY <1>2, <1>6, <1>8, <1>9 DEF U, e, s

\* What there is of a stream after each of its units.
Streams(units) ==
  CHOOSE stream : stream = [k \in 0 .. Len(units) |->
    IF k = 0 THEN <<>> ELSE stream[k - 1] \o UnitBytes(units[k])]

\* The loop over the units of a stream.
LEMMA StreamsAreDefined ==
  ASSUME NEW units \in Seq(EncoderUnit)
  PROVE  LET n == Len(units)
             T == Streams(units)
         IN /\ T \in [0 .. n -> Seq(Byte)]
            /\ T[0] = <<>>
            /\ \A k \in 1 .. n : T[k] = T[k - 1] \o UnitBytes(units[k])
            /\ Stream(units) = T[n]
<1> DEFINE n == Len(units)
           step == [k \in 1 .. n |->
                      [t \in Seq(Byte) |-> t \o UnitBytes(units[k])]]
           Loop(f) == f = [k \in 0 .. n |-> IF k = 0 THEN <<>>
                             ELSE f[k - 1] \o UnitBytes(units[k])]
<1>1. n \in Nat /\ \A k \in 1 .. n : UnitBytes(units[k]) \in Seq(Byte)
  BY UnitLayout
<1>2. \A k \in 1 .. n : \A t \in Seq(Byte) :
        t \o UnitBytes(units[k]) \in Seq(Byte)
  <2>1. \A t, u \in Seq(Byte) : t \o u \in Seq(Byte)
    OBVIOUS
  <2> QED
    BY <1>1, <2>1
<1>3. step \in [1 .. n -> [Seq(Byte) -> Seq(Byte)]]
  BY <1>2
<1>4. <<>> \in Seq(Byte)
  OBVIOUS
<1> HIDE DEF n
<1>5. PICK f \in [0 .. n -> Seq(Byte)] : IsIteration(f, <<>>, step, n)
  <2> HIDE DEF step
  <2> QED
    BY <1>1, <1>3, <1>4, Iteration
<1>6. Loop(f)
  <2>1. f[0] = <<>> /\ \A k \in 1 .. n : f[k] = step[k][f[k - 1]]
    BY <1>5 DEF IsIteration
  <2>2. \A k \in 1 .. n : k - 1 \in 0 .. n
    BY <1>1
  <2>3. \A k \in 1 .. n : f[k] = f[k - 1] \o UnitBytes(units[k])
    BY <1>5, <2>1, <2>2
  <2>4. \A k \in 0 .. n : k = 0 \/ k \in 1 .. n
    BY <1>1
  <2> QED
    BY <1>5, <2>1, <2>3, <2>4
<1>7. Loop(Streams(units))
  <2> HIDE DEF Loop
  <2>1. \E g : Loop(g)
    BY <1>6
  <2> QED
    BY <2>1 DEF Streams, Loop, n
<1>8. /\ Streams(units)[0] = <<>>
      /\ \A k \in 1 .. n :
           Streams(units)[k] = Streams(units)[k - 1] \o UnitBytes(units[k])
  <2>1. \A k \in 0 .. n :
          Streams(units)[k] =
            IF k = 0 THEN <<>> ELSE Streams(units)[k - 1] \o UnitBytes(units[k])
    BY <1>7, Zenon
  <2>2. 0 \in 0 .. n /\ \A k \in 1 .. n : k \in 0 .. n /\ k # 0
    BY <1>1
  <2> QED
    BY <2>1, <2>2
<1>9. Streams(units) \in [0 .. n -> Seq(Byte)]
  <2>1. Streams(units) = [k \in 0 .. n |-> Streams(units)[k]]
    BY <1>7
  <2> HIDE DEF Loop, step
  <2>2. \A k \in 1 .. n : Streams(units)[k - 1] \in Seq(Byte)
                            => Streams(units)[k] \in Seq(Byte)
    BY <1>2, <1>8
  <2>3. Streams(units)[0] \in Seq(Byte)
    BY <1>4, <1>8
  <2> QED
    BY <1>1, <2>1, <2>2, <2>3, IterationType
<1>10. Stream(units) = Streams(units)[n]
  BY DEF Stream, Streams, n
<1> QED
  BY <1>8, <1>9, <1>10 DEF n

\* The position of the header of a unit, between two ends.
HeaderAt(units, end, k) == end[k - 1] + CodeLength(units[k]) + 1

\* Where the units end in a stream, and what is in between.
IsLaid(bytes, units, end) ==
  LET n == Len(units)
  IN /\ bytes \in Seq(Byte)
     /\ end \in [0 .. n -> Nat] /\ end[0] = 0 /\ end[n] = Len(bytes)
     /\ \A k \in 1 .. n :
          LET h == HeaderAt(units, end, k)
          IN /\ h <= end[k]
             /\ \A j \in end[k - 1] + 1 .. h - 2 : bytes[j] = 0
             /\ bytes[h - 1] = 1
             /\ bytes[h] = units[k].header
             /\ bytes[end[k]] # 0
             /\ \A j \in h + 1 .. end[k] - 2 :
                  bytes[j] = 0 /\ bytes[j + 1] = 0 => bytes[j + 2] > 2
             /\ SubSeq(bytes, h + 1, end[k]) = Escaped(units[k].body)

\* A part of a text is the text that is there.
LEMMA SliceOf ==
  ASSUME NEW Character, NEW text \in Seq(Character), NEW e \in Seq(Character),
         NEW from \in Nat, NEW to \in Nat, to <= Len(text),
         to = from + Len(e),
         \A i \in 1 .. Len(e) : text[from + i] = e[i]
  PROVE  SubSeq(text, from + 1, to) = e
<1> DEFINE s == SubSeq(text, from + 1, to)
<1>1. Len(e) \in Nat /\ Len(text) \in Nat
  OBVIOUS
<1>2. s = [i \in 1 .. to - (from + 1) + 1 |-> text[from + 1 + i - 1]]
  OBVIOUS
<1>3. to - (from + 1) + 1 = Len(e)
  BY <1>1
<1>4. \A i \in 1 .. Len(e) : from + 1 + i - 1 = from + i
  BY <1>1
<1>5. s = [i \in 1 .. Len(e) |-> text[from + 1 + i - 1]]
  BY <1>2, <1>3
<1>6. s = [i \in 1 .. Len(e) |-> e[i]]
  BY <1>4, <1>5
<1> HIDE DEF s
<1>7. e = [i \in 1 .. Len(e) |-> e[i]]
  OBVIOUS
<1> QED
  BY <1>6, <1>7 DEF s

\* A stream is laid out as its units are.
LEMMA StreamIsLaid ==
  ASSUME NEW units \in Seq(EncoderUnit)
  PROVE  IsLaid(Stream(units), units,
                [k \in 0 .. Len(units) |-> Len(Streams(units)[k])])
<1> DEFINE n == Len(units)
           T == Streams(units)
           bytes == Stream(units)
           end == [k \in 0 .. n |-> Len(T[k])]
<1>1. /\ n \in Nat /\ T \in [0 .. n -> Seq(Byte)] /\ T[0] = <<>>
      /\ \A k \in 1 .. n : T[k] = T[k - 1] \o UnitBytes(units[k])
      /\ bytes = T[n]
  <2>1. n \in Nat
    OBVIOUS
  <2> QED
    BY <2>1, StreamsAreDefined, Zenon
<1> HIDE DEF T, bytes, n
<1>2. ASSUME NEW k \in 1 .. n
      PROVE  /\ k - 1 \in 0 .. n /\ k \in 0 .. n
             /\ units[k] \in EncoderUnit
             /\ UnitBytes(units[k]) \in Seq(Byte)
             /\ T[k - 1] \in Seq(Byte)
             /\ IsJoined(T[k], T[k - 1], UnitBytes(units[k]))
             /\ IsStart(T[k - 1], T[k])
  <2>1. k - 1 \in 0 .. n /\ k \in 0 .. n /\ units[k] \in EncoderUnit
    BY <1>1 DEF n
  <2>2. UnitBytes(units[k]) \in Seq(Byte)
    BY <2>1, UnitLayout
  <2>3. T[k - 1] \in Seq(Byte) /\ T[k] = T[k - 1] \o UnitBytes(units[k])
    BY <1>1, <2>1
  <2>4. IsJoined(T[k], T[k - 1], UnitBytes(units[k]))
    BY <2>2, <2>3, Joined
  <2>5. IsStart(T[k - 1], T[k])
    BY <2>2, <2>3, AppendedStart
  <2> QED
    BY <2>1, <2>2, <2>3, <2>4, <2>5
<1>3. \A m \in 0 .. n : IsStart(T[m], T[n])
  BY <1>1, <1>2, StartsStay
<1>4. /\ end \in [0 .. n -> Nat] /\ end[0] = 0 /\ end[n] = Len(bytes)
      /\ \A k \in 0 .. n : end[k] = Len(T[k])
      /\ bytes \in Seq(Byte)
  <2>1. \A k \in 0 .. n : Len(T[k]) \in Nat
    BY <1>1
  <2>2. 0 \in 0 .. n /\ n \in 0 .. n
    BY <1>1
  <2> QED
    BY <1>1, <2>1, <2>2
<1> HIDE DEF end
<1>5. ASSUME NEW k \in 1 .. n
      PROVE  LET h == HeaderAt(units, end, k)
             IN /\ h <= end[k]
                /\ \A j \in end[k - 1] + 1 .. h - 2 : bytes[j] = 0
                /\ bytes[h - 1] = 1
                /\ bytes[h] = units[k].header
                /\ bytes[end[k]] # 0
                /\ \A j \in h + 1 .. end[k] - 2 :
                     bytes[j] = 0 /\ bytes[j + 1] = 0 => bytes[j + 2] > 2
                /\ SubSeq(bytes, h + 1, end[k]) = Escaped(units[k].body)
  <2> DEFINE u == units[k]
             U == UnitBytes(u)
             e == Escaped(u.body)
             s == CodeLength(u)
             o == end[k - 1]
             h == HeaderAt(units, end, k)
  <2>1. /\ U \in Seq(Byte) /\ e \in Seq(Byte)
        /\ Len(U) = s + 1 + Len(e)
        /\ \A i \in 1 .. s - 1 : U[i] = 0
        /\ U[s] = 1
        /\ U[s + 1] = u.header
        /\ \A i \in 1 .. Len(e) : U[s + 1 + i] = e[i]
        /\ U[Len(U)] # 0
        /\ \A i \in 1 .. Len(e) - 2 : e[i] = 0 /\ e[i + 1] = 0 => e[i + 2] > 2
    BY <1>2, UnitLayout
  <2>2. s \in {3, 4} /\ h = o + s + 1
    BY DEF CodeLength, HeaderAt
  <2>3. /\ o \in Nat /\ end[k] = o + Len(U) /\ end[k] <= Len(bytes)
        /\ \A i \in 1 .. Len(U) : bytes[o + i] = U[i]
    <3>1. /\ o = Len(T[k - 1]) /\ end[k] = Len(T[k])
          /\ IsJoined(T[k], T[k - 1], U) /\ IsStart(T[k], bytes)
          /\ o \in Nat
      BY <1>1, <1>2, <1>3, <1>4
    <3> HIDE DEF o, U
    <3>2. Len(U) \in Nat
      BY <2>1
    <3>3. end[k] = o + Len(U) /\ end[k] <= Len(bytes)
          /\ \A i \in 1 .. Len(U) : T[k][o + i] = U[i]
      BY <3>1 DEF IsJoined, IsStart
    <3>4. \A i \in 1 .. Len(U) : o + i \in 1 .. Len(T[k])
      BY <3>1, <3>2, <3>3
    <3>5. \A i \in 1 .. Len(U) : bytes[o + i] = T[k][o + i]
      BY <3>1, <3>4 DEF IsStart
    <3> QED
      BY <3>1, <3>3, <3>5
  <2>4. Len(e) \in Nat /\ Len(U) \in Nat
    BY <2>1
  <2> HIDE DEF u, U, e, s, o, h
  <2>5. h <= end[k] /\ end[k] = h + Len(e) /\ h \in Nat
    BY <2>1, <2>2, <2>3, <2>4
  <2>6. \A j \in o + 1 .. h - 2 : bytes[j] = 0
    <3> SUFFICES ASSUME NEW j \in o + 1 .. h - 2
                 PROVE  bytes[j] = 0
      OBVIOUS
    <3>1. j - o \in 1 .. s - 1 /\ j - o \in 1 .. Len(U) /\ o + (j - o) = j
      BY <2>1, <2>2, <2>3, <2>4
    <3> QED
      BY <2>1, <2>3, <3>1
  <2>7. bytes[h - 1] = 1 /\ bytes[h] = u.header
    <3>1. s \in 1 .. Len(U) /\ s + 1 \in 1 .. Len(U)
          /\ h - 1 = o + s /\ h = o + (s + 1)
      BY <2>1, <2>2, <2>3, <2>4
    <3> QED
      BY <2>1, <2>3, <3>1
  <2>8. bytes[end[k]] # 0
    <3>1. Len(U) \in 1 .. Len(U)
      BY <2>1, <2>2, <2>4
    <3> QED
      BY <2>1, <2>3, <3>1
  <2>9. \A i \in 1 .. Len(e) : bytes[h + i] = e[i]
    <3> SUFFICES ASSUME NEW i \in 1 .. Len(e)
                 PROVE  bytes[h + i] = e[i]
      OBVIOUS
    <3>1. s + 1 + i \in 1 .. Len(U) /\ h + i = o + (s + 1 + i)
      BY <2>1, <2>2, <2>3, <2>4
    <3> QED
      BY <2>1, <2>3, <3>1
  <2>10. ASSUME NEW j \in h + 1 .. end[k] - 2, bytes[j] = 0, bytes[j + 1] = 0
         PROVE  bytes[j + 2] > 2
    <3> DEFINE i == j - h
    <3>1. /\ i \in 1 .. Len(e) - 2 /\ i \in 1 .. Len(e) /\ i + 1 \in 1 .. Len(e)
          /\ i + 2 \in 1 .. Len(e)
          /\ h + i = j /\ h + (i + 1) = j + 1 /\ h + (i + 2) = j + 2
      BY <2>4, <2>5
    <3> HIDE DEF i
    <3>2. e[i] = 0 /\ e[i + 1] = 0 /\ bytes[j + 2] = e[i + 2]
      BY <2>9, <2>10, <3>1
    <3> QED
      BY <2>1, <3>1, <3>2
  <2>11. SubSeq(bytes, h + 1, end[k]) = e
    <3>1. end[k] \in Nat
      BY <2>4, <2>5
    <3> QED
      BY <1>4, <2>1, <2>3, <2>5, <2>9, <3>1, SliceOf
  <2> QED
    BY <2>5, <2>6, <2>7, <2>8, <2>10, <2>11 DEF u, e, o, h
<1> QED
  BY <1>4, <1>5 DEF IsLaid, n, end, T, bytes

-----------------------------------------------------------------------------
\* A short start code at j.
IsThree(bytes, j) ==
  j + 2 <= Len(bytes) /\ bytes[j] = 0 /\ bytes[j + 1] = 0 /\ bytes[j + 2] = 1

\* What the size of a start code says of the bytes.
LEMMA StartCodeSizeOf ==
  ASSUME NEW bytes \in Seq(Byte), NEW j \in Nat, j > 0
  PROVE  StartCodeSize(bytes, j) =
           IF IsThree(bytes, j) THEN 3
           ELSE IF /\ j + 3 <= Len(bytes)
                   /\ bytes[j] = 0 /\ IsThree(bytes, j + 1) THEN 4
           ELSE 0
<1> DEFINE n == Len(bytes)
<1>1. n \in Nat
  OBVIOUS
<1>2. Holds(bytes, j, <<0, 0, 1>>) <=> IsThree(bytes, j)
  <2> DEFINE c == <<0, 0, 1>>
             s == SubSeq(bytes, j, j + 2)
  <2>1. Holds(bytes, j, c) <=> j + 2 <= n /\ s = c
    <3>1. Len(c) = 3 /\ j + 3 - 1 = j + 2
      OBVIOUS
    <3> QED
      BY <3>1 DEF Holds
  <2>2. SUFFICES ASSUME j + 2 <= n
                 PROVE  s = c <=> IsThree(bytes, j)
    BY <2>1 DEF IsThree
  <2>3. /\ Len(s) = 3 /\ s[1] = bytes[j] /\ s[2] = bytes[j + 1]
        /\ s[3] = bytes[j + 2] /\ s \in Seq(Byte)
    BY <1>1, <2>2
  <2>4. c \in Seq(Nat) /\ Len(c) = 3 /\ c[1] = 0 /\ c[2] = 0 /\ c[3] = 1
    OBVIOUS
  <2> HIDE DEF s
  <2>5. ASSUME s[1] = 0, s[2] = 0, s[3] = 1
        PROVE  s = c
    <3>1. \A i \in 1 .. 3 : i = 1 \/ i = 2 \/ i = 3
      OBVIOUS
    <3>2. s = [i \in 1 .. 3 |-> s[i]] /\ c = [i \in 1 .. 3 |-> c[i]]
      BY <2>3, <2>4
    <3> HIDE DEF c
    <3>3. \A i \in 1 .. 3 : s[i] = c[i]
      BY <2>4, <2>5, <3>1
    <3> QED
      BY <3>2, <3>3
  <2>6. s = c => s[1] = 0 /\ s[2] = 0 /\ s[3] = 1
    BY <2>4
  <2> QED
    BY <2>2, <2>3, <2>5, <2>6 DEF IsThree
<1>3. Holds(bytes, j, <<0, 0, 0, 1>>) <=>
        j + 3 <= n /\ bytes[j] = 0 /\ IsThree(bytes, j + 1)
  <2> DEFINE c == <<0, 0, 0, 1>>
             s == SubSeq(bytes, j, j + 3)
  <2>1. Holds(bytes, j, c) <=> j + 3 <= n /\ s = c
    <3>1. Len(c) = 4 /\ j + 4 - 1 = j + 3
      OBVIOUS
    <3> QED
      BY <3>1 DEF Holds
  <2>2. IsThree(bytes, j + 1) <=> /\ j + 3 <= n /\ bytes[j + 1] = 0
                                  /\ bytes[j + 2] = 0 /\ bytes[j + 3] = 1
    <3>1. (j + 1) + 2 = j + 3 /\ (j + 1) + 1 = j + 2
      OBVIOUS
    <3> QED
      BY <3>1 DEF IsThree
  <2>3. SUFFICES ASSUME j + 3 <= n
                 PROVE  s = c <=> /\ bytes[j] = 0 /\ bytes[j + 1] = 0
                                  /\ bytes[j + 2] = 0 /\ bytes[j + 3] = 1
    BY <2>1, <2>2
  <2>4. /\ Len(s) = 4 /\ s[1] = bytes[j] /\ s[2] = bytes[j + 1]
        /\ s[3] = bytes[j + 2] /\ s[4] = bytes[j + 3] /\ s \in Seq(Byte)
    BY <1>1, <2>3
  <2>5. /\ c \in Seq(Nat) /\ Len(c) = 4
        /\ c[1] = 0 /\ c[2] = 0 /\ c[3] = 0 /\ c[4] = 1
    OBVIOUS
  <2> HIDE DEF s
  <2>6. ASSUME s[1] = 0, s[2] = 0, s[3] = 0, s[4] = 1
        PROVE  s = c
    <3>1. \A i \in 1 .. 4 : i = 1 \/ i = 2 \/ i = 3 \/ i = 4
      OBVIOUS
    <3>2. s = [i \in 1 .. 4 |-> s[i]] /\ c = [i \in 1 .. 4 |-> c[i]]
      BY <2>4, <2>5
    <3> HIDE DEF c
    <3>3. \A i \in 1 .. 4 : s[i] = c[i]
      BY <2>5, <2>6, <3>1
    <3> QED
      BY <3>2, <3>3
  <2>7. s = c => s[1] = 0 /\ s[2] = 0 /\ s[3] = 0 /\ s[4] = 1
    BY <2>5
  <2> QED
    BY <2>4, <2>6, <2>7
<1> HIDE DEF n
<1> QED
  BY <1>2, <1>3 DEF StartCodeSize, n

\* What is known of a stream that is laid.
LEMMA EndsGrow ==
  ASSUME NEW units \in Seq(EncoderUnit), NEW bytes, NEW end,
         IsLaid(bytes, units, end)
  PROVE  LET n == Len(units)
         IN \A k \in 1 .. n :
              LET h == HeaderAt(units, end, k)
              IN /\ h \in Nat /\ end[k] \in Nat /\ end[k - 1] \in Nat
                 /\ CodeLength(units[k]) \in {3, 4}
                 /\ h = end[k - 1] + CodeLength(units[k]) + 1
                 /\ h <= end[k] /\ end[k] <= Len(bytes)
                 /\ \A m \in 0 .. k - 1 : end[m] + 4 <= h
                 /\ \A m \in 1 .. n : m < k => HeaderAt(units, end, m) < h
<1> DEFINE n == Len(units)
<1>1. /\ n \in Nat /\ end \in [0 .. n -> Nat] /\ end[n] = Len(bytes)
      /\ \A k \in 1 .. n : HeaderAt(units, end, k) <= end[k]
  BY DEF IsLaid
<1>2. \A k \in 1 .. n :
        /\ CodeLength(units[k]) \in {3, 4}
        /\ HeaderAt(units, end, k) = end[k - 1] + CodeLength(units[k]) + 1
  BY DEF CodeLength, HeaderAt
<1> HIDE DEF n
<1>3. ASSUME NEW k \in 1 .. n
      PROVE  /\ k - 1 \in 0 .. n /\ k \in 0 .. n
             /\ end[k] \in Nat /\ end[k - 1] \in Nat
             /\ HeaderAt(units, end, k) \in Nat
             /\ end[k - 1] + 4 <= HeaderAt(units, end, k)
             /\ HeaderAt(units, end, k) <= end[k]
  <2>1. k - 1 \in 0 .. n /\ k \in 0 .. n
    BY <1>1
  <2>2. end[k] \in Nat /\ end[k - 1] \in Nat
    BY <1>1, <2>1
  <2>3. /\ CodeLength(units[k]) \in {3, 4}
        /\ HeaderAt(units, end, k) = end[k - 1] + CodeLength(units[k]) + 1
    BY <1>2
  <2> QED
    BY <1>1, <2>1, <2>2, <2>3
<1>4. ASSUME NEW m \in 0 .. n
      PROVE  \A k \in m .. n : end[m] <= end[k]
  <2> DEFINE S == {d \in Nat : m + d <= n => end[m] <= end[m + d]}
  <2>1. 0 \in S
    BY <1>1
  <2>2. ASSUME NEW d \in Nat, d \in S
        PROVE  d + 1 \in S
    <3>1. SUFFICES ASSUME m + (d + 1) <= n
                   PROVE  end[m] <= end[m + (d + 1)]
      OBVIOUS
    <3> DEFINE k == m + (d + 1)
    <3>2. k \in 1 .. n /\ k - 1 = m + d /\ m + d <= n
      BY <1>1, <3>1
    <3>3. end[m] <= end[k - 1] /\ end[m] \in Nat
      BY <1>1, <2>2, <3>2
    <3> HIDE DEF k
    <3>4. /\ end[k - 1] + 4 <= HeaderAt(units, end, k)
          /\ HeaderAt(units, end, k) <= end[k]
          /\ end[k] \in Nat /\ end[k - 1] \in Nat
          /\ HeaderAt(units, end, k) \in Nat
      BY <1>3, <3>2
    <3>5. end[m] <= end[k]
      BY <3>3, <3>4
    <3> QED
      BY <3>5 DEF k
  <2>3. \A d \in Nat : d \in S
    <3> HIDE DEF S
    <3> QED
      BY <2>1, <2>2, SetInduction
  <2>4. \A k \in m .. n : k - m \in Nat /\ m + (k - m) = k /\ k <= n
    BY <1>1
  <2> QED
    BY <2>3, <2>4
<1>5. ASSUME NEW k \in 1 .. n
      PROVE  /\ end[k] <= Len(bytes)
             /\ \A m \in 0 .. k - 1 : end[m] + 4 <= HeaderAt(units, end, k)
  <2>1. n \in k .. n /\ k \in 0 .. n
    BY <1>1
  <2>2. end[k] <= Len(bytes)
    BY <1>1, <1>4, <2>1
  <2>3. ASSUME NEW m \in 0 .. k - 1
        PROVE  end[m] + 4 <= HeaderAt(units, end, k)
    <3>1. m \in 0 .. n /\ k - 1 \in m .. n
      BY <1>1
    <3>2. end[m] <= end[k - 1] /\ end[m] \in Nat
      BY <1>1, <1>4, <3>1
    <3> QED
      BY <1>3, <3>2
  <2> QED
    BY <2>2, <2>3
<1>6. ASSUME NEW k \in 1 .. n, NEW m \in 1 .. n, m < k
      PROVE  HeaderAt(units, end, m) < HeaderAt(units, end, k)
  <2>1. m \in 0 .. k - 1
    BY <1>6
  <2>2. end[m] + 4 <= HeaderAt(units, end, k)
    BY <1>5, <2>1
  <2> QED
    BY <1>3, <2>2
<1> QED
  BY <1>2, <1>3, <1>5, <1>6 DEF n

\* A start code stands before each header, and nowhere else.
LEMMA OnlyTheirCodes ==
  ASSUME NEW units \in Seq(EncoderUnit), NEW bytes, NEW end,
         IsLaid(bytes, units, end), NEW j \in Nat, j > 0, IsThree(bytes, j)
  PROVE  \E k \in 1 .. Len(units) : HeaderAt(units, end, k) = j + 3
<1> DEFINE n == Len(units)
           H(k) == HeaderAt(units, end, k)
           S == {k \in Nat : k \in 1 .. n /\ j + 2 <= end[k]}
<1>1. /\ n \in Nat /\ end \in [0 .. n -> Nat] /\ end[0] = 0
      /\ end[n] = Len(bytes)
      /\ \A k \in 1 .. n :
           /\ \A i \in end[k - 1] + 1 .. H(k) - 2 : bytes[i] = 0
           /\ bytes[H(k) - 1] = 1
           /\ bytes[H(k)] = units[k].header
           /\ \A i \in H(k) + 1 .. end[k] - 2 :
                bytes[i] = 0 /\ bytes[i + 1] = 0 => bytes[i + 2] > 2
  BY DEF IsLaid
<1>2. \A k \in 1 .. n :
        /\ H(k) \in Nat /\ end[k] \in Nat /\ end[k - 1] \in Nat
        /\ CodeLength(units[k]) \in {3, 4}
        /\ H(k) = end[k - 1] + CodeLength(units[k]) + 1
  BY EndsGrow
<1>3. \A k \in 1 .. n : units[k].header # 0
  <2> SUFFICES ASSUME NEW k \in 1 .. n
               PROVE  units[k].header # 0
    OBVIOUS
  <2> DEFINE x == units[k].header
  <2>1. units[k] \in EncoderUnit
    OBVIOUS
  <2>2. x \in 1 .. 255
    BY <2>1 DEF EncoderUnit
  <2> HIDE DEF x
  <2>3. x # 0
    BY <2>2
  <2> QED
    BY <2>3 DEF x
<1>4. /\ j + 2 <= Len(bytes)
      /\ bytes[j] = 0 /\ bytes[j + 1] = 0 /\ bytes[j + 2] = 1
  BY DEF IsThree
<1> HIDE DEF n, H
<1>5. n \in S
  BY <1>1, <1>4
<1>6. PICK k \in S : \A i \in S : k <= i
  <2>1. S \subseteq Nat /\ S # {}
    BY <1>5
  <2> HIDE DEF S
  <2> QED
    BY <2>1, LeastNumber
<1>7. k \in 1 .. n /\ j + 2 <= end[k]
  BY <1>6
<1>8. end[k - 1] < j + 2
  <2>1. CASE k = 1
    BY <1>1, <2>1
  <2>2. CASE k # 1
    <3>1. k - 1 \in 1 .. n /\ k - 1 \in Nat /\ ~(k <= k - 1)
      BY <1>1, <1>7, <2>2
    <3>2. end[k - 1] \in Nat
      BY <1>2, <1>7
    <3>3. k - 1 \notin S
      BY <1>6, <3>1
    <3> QED
      BY <3>1, <3>2, <3>3
  <2> QED
    BY <2>1, <2>2
<1> DEFINE h == H(k)
           o == end[k - 1]
<1>9. /\ h \in Nat /\ o \in Nat /\ end[k] \in Nat
  BY <1>2, <1>7
<1>10. /\ \A i \in o + 1 .. h - 2 : bytes[i] = 0
       /\ bytes[h - 1] = 1
       /\ bytes[h] # 0
       /\ \A i \in h + 1 .. end[k] - 2 :
            bytes[i] = 0 /\ bytes[i + 1] = 0 => bytes[i + 2] > 2
  BY <1>1, <1>3, <1>7
<1> HIDE DEF h, o
<1>11. CASE j + 2 <= h - 2
  <2>1. j + 2 \in o + 1 .. h - 2
    BY <1>8, <1>9, <1>11 DEF o
  <2> QED
    BY <1>4, <1>10, <2>1
<1>12. CASE j + 2 = h - 1
  <2>1. h = j + 3
    BY <1>9, <1>12
  <2> QED
    BY <1>7, <2>1 DEF h, H, n
<1>13. CASE j + 2 = h
  <2>1. j + 1 = h - 1
    BY <1>9, <1>13
  <2> QED
    BY <1>4, <1>10, <2>1
<1>14. CASE j + 2 = h + 1
  <2>1. j + 1 = h
    BY <1>9, <1>14
  <2> QED
    BY <1>4, <1>10, <2>1
<1>15. CASE j + 2 = h + 2
  <2>1. j = h
    BY <1>9, <1>15
  <2> QED
    BY <1>4, <1>10, <2>1
<1>16. CASE j + 2 > h + 2
  <2>1. j \in h + 1 .. end[k] - 2
    BY <1>7, <1>9, <1>16
  <2> QED
    BY <1>4, <1>10, <2>1
<1> QED
  BY <1>9, <1>11, <1>12, <1>13, <1>14, <1>15, <1>16

\* The start code of a unit is where the one before it ends.
LEMMA CodeOfUnit ==
  ASSUME NEW units \in Seq(EncoderUnit), NEW bytes, NEW end,
         IsLaid(bytes, units, end), NEW k \in 1 .. Len(units)
  PROVE  /\ StartCodeSize(bytes, end[k - 1] + 1) = CodeLength(units[k])
         /\ IsThree(bytes, HeaderAt(units, end, k) - 3)
<1> DEFINE n == Len(units)
           o == end[k - 1]
           h == HeaderAt(units, end, k)
           s == CodeLength(units[k])
<1>1. /\ bytes \in Seq(Byte)
      /\ \A i \in o + 1 .. h - 2 : bytes[i] = 0
      /\ bytes[h - 1] = 1
  BY DEF IsLaid
<1>2. /\ h \in Nat /\ o \in Nat /\ s \in {3, 4} /\ h = o + s + 1
      /\ end[k] \in Nat /\ h <= end[k] /\ end[k] <= Len(bytes)
      /\ Len(bytes) \in Nat
  BY <1>1, EndsGrow
<1> HIDE DEF o, h, s, n
<1>3. IsThree(bytes, h - 3)
  <2>1. /\ h - 3 \in o + 1 .. h - 2 /\ h - 2 \in o + 1 .. h - 2
        /\ (h - 3) + 1 = h - 2 /\ (h - 3) + 2 = h - 1 /\ h - 1 <= Len(bytes)
    BY <1>2
  <2> QED
    BY <1>1, <2>1 DEF IsThree
<1>4. CASE s = 3
  <2>1. h - 3 = o + 1 /\ o + 1 \in Nat /\ o + 1 > 0
    BY <1>2, <1>4
  <2> QED
    BY <1>1, <1>3, <1>4, <2>1, StartCodeSizeOf DEF o, s, h
<1>5. CASE s = 4
  <2> DEFINE j == o + 1
  <2>1. /\ j \in Nat /\ j > 0 /\ j + 1 = h - 3 /\ j + 3 <= Len(bytes)
        /\ j \in o + 1 .. h - 2 /\ j + 2 \in o + 1 .. h - 2
    BY <1>2, <1>5
  <2> HIDE DEF j
  <2>2. bytes[j] = 0 /\ bytes[j + 2] = 0
    BY <1>1, <2>1
  <2>3. ~IsThree(bytes, j)
    BY <2>2 DEF IsThree
  <2>4. StartCodeSize(bytes, j) = 4
    BY <1>1, <1>3, <2>1, <2>2, <2>3, StartCodeSizeOf
  <2> QED
    BY <1>3, <1>5, <2>4 DEF j, o, s, h
<1> QED
  BY <1>2, <1>4, <1>5

\* The positions that follow a start code are those of the headers.
LEMMA HeadersOfStream ==
  ASSUME NEW units \in Seq(EncoderUnit), NEW bytes, NEW end,
         IsLaid(bytes, units, end)
  PROVE  Headers(bytes) = {HeaderAt(units, end, k) : k \in 1 .. Len(units)}
<1> DEFINE n == Len(units)
           H(k) == HeaderAt(units, end, k)
           size(j) == StartCodeSize(bytes, j)
<1>1. bytes \in Seq(Byte) /\ Len(bytes) \in Nat
  BY DEF IsLaid
<1>2. ASSUME NEW k \in 1 .. n
      PROVE  H(k) \in Headers(bytes)
  <2> DEFINE j == end[k - 1] + 1
             s == CodeLength(units[k])
  <2>1. size(j) = s
    BY CodeOfUnit
  <2>2. /\ H(k) \in Nat /\ end[k - 1] \in Nat /\ s \in {3, 4}
        /\ H(k) = end[k - 1] + s + 1
        /\ end[k] \in Nat /\ H(k) <= end[k] /\ end[k] <= Len(bytes)
    BY EndsGrow
  <2> HIDE DEF H, s
  <2>3. j \in 1 .. Len(bytes) /\ H(k) = j + s /\ H(k) \in 1 .. Len(bytes) /\ s # 0
    <3>1. H(k) <= Len(bytes)
      BY <1>1, <2>2
    <3>2. H(k) = j + s /\ s # 0 /\ j <= H(k) /\ j \in Nat /\ j > 0
      BY <2>2
    <3> HIDE DEF j
    <3>3. j \in 1 .. Len(bytes) /\ H(k) \in 1 .. Len(bytes)
      BY <1>1, <2>2, <3>1, <3>2
    <3> QED
      BY <3>2, <3>3
  <2> HIDE DEF j
  <2> QED
    BY <2>1, <2>3 DEF Headers
<1>3. ASSUME NEW x \in Headers(bytes)
      PROVE  \E k \in 1 .. n : x = H(k)
  <2>1. PICK j \in 1 .. Len(bytes) : size(j) # 0 /\ x = j + size(j)
    BY DEF Headers
  <2>2. j \in Nat /\ j > 0 /\ j + 1 \in Nat /\ j + 1 > 0
    BY <1>1
  <2>3. size(j) = IF IsThree(bytes, j) THEN 3
                  ELSE IF /\ j + 3 <= Len(bytes)
                          /\ bytes[j] = 0 /\ IsThree(bytes, j + 1) THEN 4
                  ELSE 0
    BY <1>1, <2>2, StartCodeSizeOf
  <2> HIDE DEF size
  <2>4. CASE IsThree(bytes, j)
    <3>1. \E k \in 1 .. n : H(k) = j + 3
      BY <2>2, <2>4, OnlyTheirCodes
    <3> QED
      BY <2>1, <2>3, <2>4, <3>1
  <2>5. CASE ~IsThree(bytes, j)
    <3>1. size(j) = 4 /\ IsThree(bytes, j + 1)
      BY <2>1, <2>3, <2>5
    <3>2. \E k \in 1 .. n : H(k) = (j + 1) + 3
      BY <2>2, <3>1, OnlyTheirCodes
    <3>3. x = (j + 1) + 3
      BY <2>1, <2>2, <3>1
    <3> QED
      BY <3>2, <3>3
  <2> QED
    BY <2>4, <2>5
<1> HIDE DEF H
<1>4. Headers(bytes) = {H(k) : k \in 1 .. n}
  BY <1>2, <1>3
<1> QED
  BY <1>4 DEF H, n


\* Between the end of a unit and the next header is every start code.
LEMMA WhereCodesAre ==
  ASSUME NEW units \in Seq(EncoderUnit), NEW bytes, NEW end,
         IsLaid(bytes, units, end), NEW j \in Nat, j > 0,
         StartCodeSize(bytes, j) # 0
  PROVE  \E k \in 1 .. Len(units) :
           end[k - 1] < j /\ j < HeaderAt(units, end, k)
<1> DEFINE n == Len(units)
           H(k) == HeaderAt(units, end, k)
<1>1. /\ bytes \in Seq(Byte) /\ n \in Nat
      /\ end \in [0 .. n -> Nat] /\ end[0] = 0
      /\ \A k \in 1 .. n : bytes[end[k]] # 0
  BY DEF IsLaid
<1>2. \A k \in 1 .. n :
        /\ H(k) \in Nat /\ end[k - 1] \in Nat
        /\ CodeLength(units[k]) \in {3, 4}
        /\ H(k) = end[k - 1] + CodeLength(units[k]) + 1
  BY EndsGrow
<1>3. IsThree(bytes, j) \/ (bytes[j] = 0 /\ IsThree(bytes, j + 1))
  BY <1>1, StartCodeSizeOf
<1>4. CASE IsThree(bytes, j)
  <2>1. PICK k \in 1 .. n : H(k) = j + 3
    BY <1>4, OnlyTheirCodes
  <2> HIDE DEF H, n
  <2>2. end[k - 1] < j /\ j < H(k)
    BY <1>2, <2>1
  <2> QED
    BY <2>2 DEF H, n
<1>5. CASE bytes[j] = 0 /\ IsThree(bytes, j + 1)
  <2>1. PICK k \in 1 .. n : H(k) = (j + 1) + 3
    <3>1. j + 1 \in Nat /\ j + 1 > 0
      OBVIOUS
    <3> QED
      BY <1>5, <3>1, OnlyTheirCodes
  <2>2. j # end[k - 1]
    <3>1. CASE k = 1
      BY <1>1, <3>1
    <3>2. CASE k # 1
      <4>1. k - 1 \in 1 .. n
        BY <1>1, <3>2
      <4> QED
        BY <1>1, <1>5, <4>1
    <3> QED
      BY <3>1, <3>2
  <2> HIDE DEF H, n
  <2>3. end[k - 1] < j /\ j < H(k)
    BY <1>2, <2>1, <2>2
  <2> QED
    BY <2>3 DEF H, n
<1> QED
  BY <1>3, <1>4, <1>5

\* The first start code after a header, or from an end, is at that end.
LEMMA NextCode ==
  ASSUME NEW units \in Seq(EncoderUnit), NEW bytes, NEW end,
         IsLaid(bytes, units, end), NEW k \in 0 .. Len(units), NEW i \in Nat,
         i > 0, i <= end[k] + 1,
         k > 0 => HeaderAt(units, end, k) < i
  PROVE  NextStartCode(bytes, i) = end[k] + 1
<1> DEFINE n == Len(units)
           H(m) == HeaderAt(units, end, m)
           size(j) == StartCodeSize(bytes, j)
           codes == {j \in i .. Len(bytes) : size(j) # 0}
           e == end[k] + 1
<1>1. /\ n \in Nat /\ Len(bytes) \in Nat
      /\ end \in [0 .. n -> Nat] /\ end[n] = Len(bytes)
  BY DEF IsLaid
<1>2. \A m \in 1 .. n :
        /\ H(m) \in Nat /\ end[m] \in Nat /\ end[m - 1] \in Nat
        /\ H(m) <= end[m] /\ end[m] <= Len(bytes)
        /\ \A l \in 0 .. m - 1 : end[l] + 4 <= H(m)
        /\ \A l \in 1 .. n : l < m => H(l) < H(m)
  BY EndsGrow
<1>3. end[k] \in Nat
  BY <1>1
<1>4. ASSUME NEW j \in codes
      PROVE  e <= j
  <2>1. j \in Nat /\ j > 0 /\ i <= j /\ size(j) # 0
    BY <1>1
  <2>2. PICK l \in 1 .. n : end[l - 1] < j /\ j < H(l)
    BY <2>1, WhereCodesAre
  <2> HIDE DEF H, n, size, codes
  <2>3. ~ (l <= k)
    <3> SUFFICES ASSUME l <= k
                 PROVE  FALSE
      OBVIOUS
    <3>1. k \in 1 .. n /\ k > 0
      BY <1>1 DEF n
    <3>2. H(k) < i /\ H(k) \in Nat /\ H(l) \in Nat
      BY <1>2, <3>1 DEF H
    <3>3. l = k \/ H(l) < H(k)
      BY <1>2, <3>1
    <3> QED
      BY <2>1, <2>2, <3>2, <3>3
  <2>4. end[k] <= end[l - 1]
    <3>1. CASE k = l - 1
      BY <3>1, <1>3
    <3>2. CASE k # l - 1
      <4> DEFINE m == l - 1
      <4>1. m \in 1 .. n /\ k \in 0 .. m - 1
        BY <1>1, <2>3, <3>2
      <4> HIDE DEF m
      <4>2. end[k] + 4 <= H(m) /\ H(m) <= end[m] /\ end[m] \in Nat /\ H(m) \in Nat
        BY <1>2, <4>1
      <4>3. end[k] <= end[m]
        BY <1>3, <4>2
      <4> QED
        BY <4>3 DEF m
    <3> QED
      BY <3>1, <3>2
  <2>5. end[l - 1] \in Nat
    BY <1>2
  <2> QED
    BY <1>3, <2>1, <2>2, <2>4, <2>5
<1>5. NextStartCode(bytes, i) =
        IF codes = {} THEN Len(bytes) + 1
        ELSE CHOOSE j \in codes : \A x \in codes : j <= x
  BY DEF NextStartCode
<1>6. CASE k = n
  <2>1. codes = {}
    <3> SUFFICES ASSUME NEW j \in codes
                 PROVE  FALSE
      OBVIOUS
    <3>1. j <= Len(bytes) /\ j \in Nat
      BY <1>1
    <3> QED
      BY <1>1, <1>4, <1>6, <3>1
  <2> QED
    BY <1>1, <1>5, <1>6, <2>1
<1>7. CASE k # n
  <2> DEFINE m == k + 1
  <2>1. m \in 1 .. n /\ m - 1 = k
    BY <1>1, <1>7
  <2> HIDE DEF m
  <2>2. size(e) # 0
    <3>1. size(end[m - 1] + 1) = CodeLength(units[m])
      BY <2>1, CodeOfUnit
    <3> QED
      BY <2>1, <3>1 DEF CodeLength
  <2>3. e \in i .. Len(bytes)
    <3>1. end[k] + 4 <= H(m) /\ H(m) <= end[m] /\ end[m] <= Len(bytes)
          /\ H(m) \in Nat /\ end[m] \in Nat
      <4>1. k \in 0 .. m - 1
        BY <2>1
      <4> QED
        BY <1>2, <2>1, <4>1
    <3> HIDE DEF H
    <3> QED
      BY <1>1, <1>3, <3>1
  <2>4. e \in codes
    BY <2>2, <2>3
  <2> HIDE DEF codes, e
  <2>5. \A j \in codes : j \in Nat
    BY <1>1 DEF codes
  <2>6. e \in Nat
    BY <1>3 DEF e
  <2>7. ASSUME NEW y \in codes, \A x \in codes : y <= x
        PROVE  y = e
    BY <1>4, <2>4, <2>5, <2>6, <2>7
  <2>8. (CHOOSE j \in codes : \A x \in codes : j <= x) = e
    <3>1. \E j \in codes : \A x \in codes : j <= x
      BY <1>4, <2>4
    <3> QED
      BY <2>7, <3>1
  <2> QED
    BY <1>5, <2>4, <2>8 DEF e
<1> QED
  BY <1>6, <1>7

\* What is said of a unit where it is laid is what there is to say of it.
LEMMA UnitIsNamed ==
  ASSUME NEW units \in Seq(EncoderUnit), NEW bytes, NEW end,
         IsLaid(bytes, units, end), NEW k \in 1 .. Len(units)
  PROVE  NaluInfo(bytes, HeaderAt(units, end, k), end[k] + 1) = units[k].info
<1> DEFINE h == HeaderAt(units, end, k)
           u == units[k]
           type == u.header % 32
<1>1. bytes[h] = u.header /\ SubSeq(bytes, h + 1, end[k]) = Escaped(u.body)
  BY DEF IsLaid
<1>2. end[k] \in Nat /\ (end[k] + 1) - 1 = end[k]
  <2>1. end[k] \in Nat
    BY EndsGrow
  <2> QED
    BY <2>1
<1>3. NaluInfo(bytes, h, end[k] + 1) =
        IF type \in 6 .. 9 THEN << <<"SEI", "SPS", "PPS", "AUD">>[type - 5] >>
        ELSE IF type \in {1, 5} THEN SliceType(Escaped(u.body))
        ELSE <<>>
  BY <1>1, <1>2 DEF NaluInfo, NaluType
<1>4. u \in EncoderUnit
  OBVIOUS
<1>5. type \in Nat
  <2> DEFINE x == u.header
  <2>1. x \in 1 .. 255
    BY <1>4 DEF EncoderUnit
  <2> HIDE DEF x
  <2>2. x % 32 \in Nat
    BY <2>1
  <2> QED
    BY <2>2 DEF x
<1> HIDE DEF h, u
<1>6. /\ type \in 6 .. 9 =>
           u.info = << <<"SEI", "SPS", "PPS", "AUD">>[type - 5] >>
      /\ type \in {1, 5} =>
           \E first, slice \in 0 .. GreatestValue, rest \in Seq(Byte) :
             /\ Len(GolombOf(first)) + Len(GolombOf(slice)) <= 8 * RbspMax
             /\ u.body = BytesOf(GolombOf(first) \o GolombOf(slice)) \o rest
             /\ u.info = << <<"P", "B", "I", "SP", "SI">>[(slice % 5) + 1] >>
      /\ type \notin {1} \cup 5 .. 9 => u.info = <<>>
  BY <1>4 DEF EncoderUnit
<1> HIDE DEF type
<1>7. CASE type \in 6 .. 9
  BY <1>3, <1>6, <1>7 DEF h, u
<1>8. CASE type \in {1, 5}
  <2>1. type \notin 6 .. 9
    BY <1>8
  <2>2. PICK first \in 0 .. GreatestValue, slice \in 0 .. GreatestValue,
             rest \in Seq(Byte) :
          /\ Len(GolombOf(first)) + Len(GolombOf(slice)) <= 8 * RbspMax
          /\ u.body = BytesOf(GolombOf(first) \o GolombOf(slice)) \o rest
          /\ u.info = << <<"P", "B", "I", "SP", "SI">>[(slice % 5) + 1] >>
    BY <1>6, <1>8
  <2>3. SliceType(Escaped(u.body)) = u.info
    <3>1. SliceType(Escaped(BytesOf(GolombOf(first) \o GolombOf(slice))
                              \o rest))
            = << <<"P", "B", "I", "SP", "SI">>[(slice % 5) + 1] >>
      BY <2>2, SliceIsNamed
    <3> QED
      BY <2>2, <3>1
  <2> QED
    BY <1>3, <1>8, <2>1, <2>3 DEF h, u
<1>9. CASE type \notin {1} \cup 5 .. 9
  <2>1. type \notin 6 .. 9 /\ type \notin {1, 5}
    BY <1>5, <1>9
  <2> QED
    BY <1>3, <1>6, <1>9, <2>1 DEF h, u
<1>10. type \in 6 .. 9 \/ type \in {1, 5} \/ type \notin {1} \cup 5 .. 9
  BY <1>5
<1> QED
  BY <1>7, <1>8, <1>9, <1>10

\* What there is to say about the units up to each.
Infos(units) ==
  CHOOSE info : info = [k \in 0 .. Len(units) |->
    IF k = 0 THEN <<>> ELSE info[k - 1] \o units[k].info]

\* The loop over what there is to say.
LEMMA InfosAreDefined ==
  ASSUME NEW units \in Seq(EncoderUnit)
  PROVE  LET n == Len(units)
             I == Infos(units)
         IN /\ I[0] = <<>>
            /\ \A k \in 1 .. n : I[k] = I[k - 1] \o units[k].info
            /\ InfoOf(units) = I[n]
<1> DEFINE n == Len(units)
           step == [k \in 1 .. n |->
                      [t \in Seq(NalName) |-> t \o units[k].info]]
           Loop(f) == f = [k \in 0 .. n |-> IF k = 0 THEN <<>>
                             ELSE f[k - 1] \o units[k].info]
<1>1. n \in Nat /\ \A k \in 1 .. n : units[k].info \in Seq(NalName)
  <2>1. \A k \in 1 .. n : units[k] \in EncoderUnit
    OBVIOUS
  <2>2. \A u \in EncoderUnit : u.info \in Seq(NalName)
    BY DEF EncoderUnit
  <2> QED
    BY <2>1, <2>2
<1>2. \A k \in 1 .. n : \A t \in Seq(NalName) :
        t \o units[k].info \in Seq(NalName)
  <2>1. \A t, u \in Seq(NalName) : t \o u \in Seq(NalName)
    OBVIOUS
  <2> QED
    BY <1>1, <2>1
<1>3. step \in [1 .. n -> [Seq(NalName) -> Seq(NalName)]]
  BY <1>2
<1>4. <<>> \in Seq(NalName)
  OBVIOUS
<1> HIDE DEF n
<1>5. PICK f \in [0 .. n -> Seq(NalName)] : IsIteration(f, <<>>, step, n)
  <2> HIDE DEF step
  <2> QED
    BY <1>1, <1>3, <1>4, Iteration
<1>6. Loop(f)
  <2>1. f[0] = <<>> /\ \A k \in 1 .. n : f[k] = step[k][f[k - 1]]
    BY <1>5 DEF IsIteration
  <2>2. \A k \in 1 .. n : k - 1 \in 0 .. n
    BY <1>1
  <2>3. \A k \in 1 .. n : f[k] = f[k - 1] \o units[k].info
    BY <1>5, <2>1, <2>2
  <2>4. \A k \in 0 .. n : k = 0 \/ k \in 1 .. n
    BY <1>1
  <2> QED
    BY <1>5, <2>1, <2>3, <2>4
<1>7. Loop(Infos(units))
  <2> HIDE DEF Loop
  <2>1. \E g : Loop(g)
    BY <1>6
  <2> QED
    BY <2>1 DEF Infos, Loop, n
<1>8. /\ Infos(units)[0] = <<>>
      /\ \A k \in 1 .. n : Infos(units)[k] = Infos(units)[k - 1] \o units[k].info
  <2>1. \A k \in 0 .. n :
          Infos(units)[k] =
            IF k = 0 THEN <<>> ELSE Infos(units)[k - 1] \o units[k].info
    BY <1>7, Zenon
  <2>2. 0 \in 0 .. n /\ \A k \in 1 .. n : k \in 0 .. n /\ k # 0
    BY <1>1
  <2> QED
    BY <2>1, <2>2
<1>9. InfoOf(units) = Infos(units)[n]
  BY DEF InfoOf, Infos, n
<1> QED
  BY <1>8, <1>9 DEF n

\* What the inspector has at the end of a unit.
Found(end, k, info) == [offset |-> end[k] + 1, info |-> info]

\* From the end of a unit it goes to that of the next, and stays at the last.
LEMMA NextIsCollected ==
  ASSUME NEW units \in Seq(EncoderUnit), NEW bytes, NEW end,
         IsLaid(bytes, units, end), NEW k \in 0 .. Len(units), NEW info
  PROVE  CollectNext(bytes, Found(end, k, info)) =
           IF k = Len(units) THEN Found(end, k, info)
           ELSE Found(end, k + 1, info \o units[k + 1].info)
<1> DEFINE n == Len(units)
           H(m) == HeaderAt(units, end, m)
           size(j) == StartCodeSize(bytes, j)
           r == Found(end, k, info)
           e == end[k] + 1
           h == e + size(e)
<1>1. /\ bytes \in Seq(Byte) /\ n \in Nat /\ Len(bytes) \in Nat
      /\ end \in [0 .. n -> Nat] /\ end[n] = Len(bytes)
  BY DEF IsLaid
<1>2. end[k] \in Nat /\ e \in Nat /\ e > 0
  BY <1>1
<1>3. NextStartCode(bytes, e) = e
  <2>1. k > 0 => HeaderAt(units, end, k) < e
    <3> SUFFICES ASSUME k > 0
                 PROVE  HeaderAt(units, end, k) < e
      OBVIOUS
    <3>1. k \in 1 .. n
      BY <1>1
    <3>2. H(k) \in Nat /\ H(k) <= end[k]
      BY <3>1, EndsGrow
    <3> HIDE DEF H
    <3>3. H(k) < e
      BY <1>2, <3>2
    <3> QED
      BY <3>3 DEF H
  <2>2. e <= end[k] + 1
    BY <1>2
  <2> QED
    BY <1>2, <2>1, <2>2, NextCode
<1>4. r.offset = e /\ r.info = info
  BY DEF Found
<1>5. CollectNext(bytes, r) =
        IF h > Len(bytes) THEN r
        ELSE [offset |-> NextStartCode(bytes, h + 1),
              info   |-> info \o NaluInfo(bytes, h, NextStartCode(bytes, h + 1))]
  <2> HIDE DEF r, e
  <2> QED
    BY <1>3, <1>4 DEF CollectNext
<1>6. CASE k = n
  <2>1. size(e) \in Nat
    <3>1. size(e) \in {0, 3, 4}
      <4> HIDE DEF e
      <4> QED
        BY <1>1, <1>2, StartCodeSizeOf
    <3> HIDE DEF size
    <3> QED
      BY <3>1
  <2> HIDE DEF size
  <2>2. h > Len(bytes)
    BY <1>1, <1>6, <2>1
  <2> HIDE DEF h
  <2> QED
    BY <1>5, <1>6, <2>2
<1>7. CASE k # n
  <2> DEFINE m == k + 1
  <2>1. m \in 1 .. n /\ m - 1 = k
    BY <1>1, <1>7
  <2> HIDE DEF m
  <2>2. size(e) = CodeLength(units[m])
    <3>1. size(end[m - 1] + 1) = CodeLength(units[m])
      BY <2>1, CodeOfUnit
    <3> QED
      BY <2>1, <3>1
  <2>3. /\ CodeLength(units[m]) \in {3, 4}
        /\ H(m) = end[m - 1] + CodeLength(units[m]) + 1
        /\ H(m) <= end[m] /\ end[m] <= Len(bytes)
        /\ H(m) \in Nat /\ end[m] \in Nat
    BY <2>1, EndsGrow
  <2> HIDE DEF H, size
  <2>4. h = H(m) /\ ~(h > Len(bytes)) /\ H(m) + 1 \in Nat /\ H(m) + 1 > 0
        /\ H(m) < H(m) + 1 /\ H(m) + 1 <= end[m] + 1
    <3>1. h = H(m)
      BY <1>2, <2>1, <2>2, <2>3
    <3>2. ~(H(m) > Len(bytes))
      BY <1>1, <2>3
    <3>3. H(m) + 1 \in Nat /\ H(m) + 1 > 0 /\ H(m) < H(m) + 1
      BY <2>3
    <3>4. H(m) + 1 <= end[m] + 1
      BY <2>3
    <3> HIDE DEF h
    <3> QED
      BY <3>1, <3>2, <3>3, <3>4
  <2>5. NextStartCode(bytes, H(m) + 1) = end[m] + 1
    <3>1. m \in 0 .. n
      BY <1>1, <2>1
    <3> QED
      BY <2>4, <3>1, NextCode DEF H
  <2>6. NaluInfo(bytes, H(m), end[m] + 1) = units[m].info
    BY <2>1, UnitIsNamed DEF H
  <2> HIDE DEF h, r
  <2>7. CollectNext(bytes, r) = [offset |-> end[m] + 1,
                                 info   |-> info \o units[m].info]
    BY <1>5, <2>4, <2>5, <2>6
  <2> QED
    BY <1>7, <2>7 DEF m, r, Found
<1> QED
  BY <1>6, <1>7

\* There are no more units than bytes.
LEMMA UnitsAreFew ==
  ASSUME NEW units \in Seq(EncoderUnit), NEW bytes, NEW end,
         IsLaid(bytes, units, end)
  PROVE  Len(units) <= Len(bytes)
<1> DEFINE n == Len(units)
           S == {m \in Nat : m <= n => m <= end[m]}
<1>1. n \in Nat /\ end \in [0 .. n -> Nat] /\ end[0] = 0 /\ end[n] = Len(bytes)
  BY DEF IsLaid
<1>2. 0 \in S
  BY <1>1
<1>3. ASSUME NEW m \in Nat, m \in S
      PROVE  m + 1 \in S
  <2> DEFINE k == m + 1
             h == HeaderAt(units, end, k)
  <2>1. SUFFICES ASSUME k <= n
                 PROVE  k <= end[k]
    OBVIOUS
  <2>2. k \in 1 .. n /\ k - 1 = m /\ m \in 0 .. k - 1 /\ m <= end[m]
    BY <1>3, <2>1
  <2> HIDE DEF k
  <2>3. /\ end[m] + 4 <= h /\ h <= end[k]
        /\ h \in Nat /\ end[k] \in Nat /\ end[k - 1] \in Nat
    BY <2>2, EndsGrow
  <2> HIDE DEF h
  <2> QED
    BY <2>2, <2>3
<1>4. n \in S
  <2> HIDE DEF S
  <2> QED
    BY <1>1, <1>2, <1>3, SetInduction
<1> QED
  BY <1>1, <1>4

\* What the inspector has after each step through a stream.
LEMMA UnitsAreNamed ==
  ASSUME NEW units \in Seq(EncoderUnit), NEW bytes, NEW end,
         IsLaid(bytes, units, end)
  PROVE  CollectNaluInfo(bytes) = InfoOf(units)
<1> DEFINE n == Len(units)
           N == Len(bytes)
           I == Infos(units)
           base == [offset |-> 1, info |-> <<>>]
           At(k) == Found(end, k, I[k])
           f == [k \in 0 .. N |-> IF k <= n THEN At(k) ELSE At(n)]
           Loop(c) == c = [k \in 0 .. N |->
                             IF k = 0 THEN base ELSE CollectNext(bytes, c[k - 1])]
           C == CHOOSE collected : collected = [k \in 0 .. N |->
                   IF k = 0 THEN base ELSE CollectNext(bytes, collected[k - 1])]
<1>1. n \in Nat /\ N \in Nat /\ end \in [0 .. n -> Nat] /\ end[0] = 0
  BY DEF IsLaid
<1>2. n <= N
  BY UnitsAreFew
<1>3. /\ I[0] = <<>>
      /\ \A k \in 1 .. n : I[k] = I[k - 1] \o units[k].info
      /\ InfoOf(units) = I[n]
  BY InfosAreDefined
<1>4. At(0) = base
  BY <1>1, <1>3 DEF Found
<1>5. ASSUME NEW k \in 1 .. n
      PROVE  CollectNext(bytes, At(k - 1)) = At(k)
  <2> DEFINE j == k - 1
             x == I[j]
  <2>1. j \in 0 .. Len(units) /\ j # Len(units) /\ j + 1 = k
    BY <1>1
  <2> HIDE DEF j, x
  <2>2. CollectNext(bytes, Found(end, j, x)) =
          Found(end, j + 1, x \o units[j + 1].info)
    BY <2>1, NextIsCollected
  <2>3. I[k] = I[j] \o units[k].info
    BY <1>3 DEF j
  <2> QED
    BY <2>1, <2>2, <2>3 DEF x, j
<1>6. CollectNext(bytes, At(n)) = At(n)
  <2> DEFINE x == I[n]
  <2>1. n \in 0 .. n
    BY <1>1
  <2> HIDE DEF x
  <2>2. CollectNext(bytes, Found(end, n, x)) = Found(end, n, x)
    BY <2>1, NextIsCollected
  <2> QED
    BY <2>2 DEF x
<1> HIDE DEF n, N, I, At, base
<1>7. ASSUME NEW k \in 1 .. N
      PROVE  f[k] = CollectNext(bytes, f[k - 1])
  <2>1. k - 1 \in 0 .. N /\ k \in 0 .. N
    BY <1>1
  <2>2. CASE k <= n
    <3>1. k \in 1 .. n /\ k - 1 <= n
      BY <1>1, <2>2
    <3> QED
      BY <1>5, <2>1, <2>2, <3>1
  <2>3. CASE ~(k <= n)
    <3>1. f[k] = At(n)
      BY <2>1, <2>3
    <3>2. f[k - 1] = At(n)
      <4>1. k - 1 = n \/ ~(k - 1 <= n)
        BY <1>1, <2>3
      <4> QED
        BY <2>1, <4>1
    <3> QED
      BY <1>6, <3>1, <3>2
  <2> QED
    BY <2>2, <2>3
<1>8. f[0] = base /\ f[N] = At(n)
  <2>1. 0 \in 0 .. N /\ N \in 0 .. N /\ 0 <= n /\ (N <= n => N = n)
    BY <1>1, <1>2
  <2> QED
    BY <1>4, <2>1
<1>9. Loop(f)
  <2>1. \A k \in 0 .. N : k = 0 \/ k \in 1 .. N
    BY <1>1
  <2>2. \A k \in 0 .. N :
          f[k] = IF k = 0 THEN base ELSE CollectNext(bytes, f[k - 1])
    BY <1>7, <1>8, <2>1
  <2>3. f = [k \in 0 .. N |-> f[k]]
    OBVIOUS
  <2> HIDE DEF f
  <2> QED
    BY <2>2, <2>3
<1>10. Loop(C)
  <2> HIDE DEF Loop, f
  <2>1. \E c : Loop(c)
    BY <1>9
  <2> QED
    BY <2>1 DEF Loop
<1>11. \A k \in 0 .. N : C[k] = f[k]
  <2> DEFINE S == {k \in Nat : k <= N => C[k] = f[k]}
  <2>1. /\ \A k \in 0 .. N :
             C[k] = IF k = 0 THEN base ELSE CollectNext(bytes, C[k - 1])
    <3> HIDE DEF C
    <3> QED
      BY <1>10, Zenon
  <2> HIDE DEF C, f, Loop
  <2>2. 0 \in S
    <3>1. 0 \in 0 .. N
      BY <1>1
    <3> QED
      BY <1>8, <2>1, <3>1
  <2>3. ASSUME NEW k \in Nat, k \in S
        PROVE  k + 1 \in S
    <3>1. SUFFICES ASSUME k + 1 <= N
                   PROVE  C[k + 1] = f[k + 1]
      OBVIOUS
    <3>2. k + 1 \in 1 .. N /\ k + 1 \in 0 .. N /\ k + 1 # 0
          /\ (k + 1) - 1 = k /\ k <= N
      BY <1>1, <3>1
    <3>3. C[k] = f[k]
      BY <2>3, <3>2
    <3>4. C[k + 1] = CollectNext(bytes, C[(k + 1) - 1])
      BY <2>1, <3>2
    <3>5. f[k + 1] = CollectNext(bytes, f[(k + 1) - 1])
      BY <1>7, <3>2
    <3> QED
      BY <3>2, <3>3, <3>4, <3>5
  <2>4. \A k \in Nat : k \in S
    <3> HIDE DEF S
    <3> QED
      BY <2>2, <2>3, SetInduction
  <2> QED
    BY <1>1, <2>4
<1>12. CollectNaluInfo(bytes) = C[N].info
  BY DEF CollectNaluInfo, N, base
<1>13. C[N] = At(n) /\ At(n).info = I[n]
  <2>1. N \in 0 .. N
    BY <1>1
  <2>2. C[N] = f[N]
    BY <1>11, <2>1
  <2>3. At(n).info = I[n]
    BY DEF At, Found
  <2> QED
    BY <1>8, <2>2, <2>3
<1> HIDE DEF C
<1> QED
  BY <1>3, <1>12, <1>13

\* For any units that an encoder can write, with slices at any place and of
\* any type: what the inspector names in their stream is what is in it, and
\* what it takes for a frame is one.
THEOREM NalusAreFound ==
  ASSUME input \in Seq(EncoderUnit)
  PROVE  NalusFound
<1> DEFINE bytes == Stream(input)
           n     == Len(input)
           end   == [k \in 0 .. n |-> Len(Streams(input)[k])]
           types == {input[i].header % 32 : i \in DOMAIN input}
           H(k)  == HeaderAt(input, end, k)
<1>1. IsLaid(bytes, input, end)
  BY StreamIsLaid
<1> HIDE DEF bytes, end
<1>2. CollectNaluInfo(bytes) = InfoOf(input)
  BY <1>1, UnitsAreNamed
<1>3. Headers(bytes) = {H(k) : k \in 1 .. n}
  BY <1>1, HeadersOfStream
<1>4. \A k \in 1 .. n : bytes[H(k)] = input[k].header
  BY <1>1 DEF IsLaid
<1>5. DOMAIN input = 1 .. n /\ n \in Nat
  OBVIOUS
<1> HIDE DEF n, H
<1>6. \A type : ContainsType(bytes, type) <=> type \in types
  <2> SUFFICES ASSUME NEW type
               PROVE  ContainsType(bytes, type) <=> type \in types
    OBVIOUS
  <2>1. ContainsType(bytes, type) <=>
          \E k \in 1 .. n : bytes[H(k)] % 32 = type
    BY <1>3 DEF ContainsType, NaluType
  <2>2. type \in types <=> \E k \in 1 .. n : input[k].header % 32 = type
    BY <1>5
  <2> QED
    BY <1>4, <2>1, <2>2
<1>7. ContainsVideoFrame(bytes) <=> types \cap 1 .. 5 # {}
  <2>1. ContainsVideoFrame(bytes) <=>
          \E type \in 1 .. 5 : ContainsType(bytes, type)
    BY DEF ContainsVideoFrame
  <2> HIDE DEF types
  <2>2. (\E type \in 1 .. 5 : type \in types) <=> types \cap 1 .. 5 # {}
    OBVIOUS
  <2> QED
    BY <1>6, <2>1, <2>2
<1>8. input # <<>> => LooksLikeAnnexB(bytes)
  <2> SUFFICES ASSUME input # <<>>
               PROVE  LooksLikeAnnexB(bytes)
    OBVIOUS
  <2>1. 1 \in 1 .. n
    BY <1>5 DEF n
  <2>2. H(1) \in Headers(bytes)
    BY <1>3, <2>1
  <2> QED
    BY <2>2 DEF LooksLikeAnnexB
<1>9. ContainsType(bytes, 5) <=> 5 \in types
  BY <1>6
<1> HIDE DEF types
<1>10. input # <<>> =>
         /\ CollectNaluInfo(bytes) = InfoOf(input)
         /\ ContainsVideoFrame(bytes) <=> types \cap 1 .. 5 # {}
         /\ ContainsType(bytes, 5) <=> 5 \in types
         /\ LooksLikeAnnexB(bytes)
  BY <1>2, <1>7, <1>8, <1>9
<1> QED
  BY <1>10 DEF NalusFound, bytes, types

\* How long the code of a number is.
LEMMA CodeLengths ==
  /\ \A value \in Nat : value <= 4194303 =>
       value \in 0 .. GreatestValue /\ Len(GolombOf(value)) <= 45
  /\ \A value \in Nat : value <= 9 =>
       value \in 0 .. GreatestValue /\ Len(GolombOf(value)) <= 7
<1>1. ASSUME NEW value \in 0 .. GreatestValue, NEW k \in 1 .. 30,
             Halves(value + 1)[k] = 0
      PROVE  Len(GolombOf(value)) <= 2 * k - 1
  <2> DEFINE h == Halves(value + 1)
             S == {d \in Nat : k + d <= 31 => h[k + d] = 0}
  <2>1. value + 1 \in Nat
    BY GreatestValueType
  <2>2. \A j \in 1 .. 31 : h[j] = h[j - 1] \div 2
    BY <2>1, HalvesAreDefined
  <2>3. PICK w \in 1 .. 31 : Len(GolombOf(value)) = 2 * w - 1 /\ h[w - 1] = 1
    BY GolombOfValue DEF IsCode
  <2> HIDE DEF h
  <2>4. 0 \in S
    BY <1>1 DEF h
  <2>5. ASSUME NEW d \in Nat, d \in S
        PROVE  d + 1 \in S
    <3> DEFINE j == k + (d + 1)
    <3>1. SUFFICES ASSUME j <= 31
                   PROVE  h[j] = 0
      OBVIOUS
    <3>2. j \in 1 .. 31 /\ j - 1 = k + d /\ k + d <= 31
      BY <3>1
    <3> HIDE DEF j
    <3>3. h[j - 1] = 0
      BY <2>5, <3>2
    <3> QED
      BY <2>2, <3>2, <3>3
  <2>6. \A d \in Nat : d \in S
    <3> HIDE DEF S
    <3> QED
      BY <2>4, <2>5, SetInduction
  <2>7. ~ (k <= w - 1)
    <3> SUFFICES ASSUME k <= w - 1
                 PROVE  FALSE
      OBVIOUS
    <3>1. (w - 1) - k \in Nat /\ k + ((w - 1) - k) = w - 1 /\ w - 1 <= 31
      OBVIOUS
    <3>2. h[w - 1] = 0
      BY <2>6, <3>1
    <3> QED
      BY <2>3, <3>2
  <2> QED
    BY <2>3, <2>7
<1>2. ASSUME NEW value \in Nat
      PROVE  LET h == Halves(value + 1)
             IN /\ h[0] = value + 1
                /\ \A k \in 0 .. 31 : h[k] \in Nat
                /\ \A k \in 1 .. 31 : h[k] = h[k - 1] \div 2
  <2>1. value + 1 \in Nat
    OBVIOUS
  <2> QED
    BY <2>1, HalvesAreDefined
<1>3. ASSUME NEW value \in Nat, value <= 4194303
      PROVE  Halves(value + 1)[23] = 0
  <2> DEFINE h == Halves(value + 1)
  <2>1. /\ h[0] <= 4194304
        /\ \A k \in 0 .. 31 : h[k] \in Nat
        /\ \A k \in 1 .. 31 : h[k] = h[k - 1] \div 2
    BY <1>2, <1>3, SMT
  <2> HIDE DEF h
  <2>2. h[6] <= 65536
    BY <2>1, SMT
  <2>3. h[12] <= 1024
    BY <2>1, <2>2, SMT
  <2>4. h[18] <= 16
    BY <2>1, <2>3, SMT
  <2>5. h[23] = 0
    BY <2>1, <2>4, SMT
  <2> QED
    BY <2>5 DEF h
<1>4. ASSUME NEW value \in Nat, value <= 9
      PROVE  Halves(value + 1)[4] = 0
  <2> DEFINE h == Halves(value + 1)
  <2>1. /\ h[0] <= 10
        /\ \A k \in 0 .. 31 : h[k] \in Nat
        /\ \A k \in 1 .. 31 : h[k] = h[k - 1] \div 2
    BY <1>2, <1>4, SMT
  <2> HIDE DEF h
  <2>2. h[4] = 0
    BY <2>1, SMT
  <2> QED
    BY <2>2 DEF h
<1> DEFINE k == 23
           l == 4
<1>5. k \in 1 .. 30 /\ 2 * k - 1 = 45 /\ l \in 1 .. 30 /\ 2 * l - 1 = 7
  OBVIOUS
<1> HIDE DEF k, l
<1>6. \A value \in Nat : value <= 4194303 => value <= GreatestValue
  BY SMT DEF GreatestValue
<1>7. \A value \in Nat : value <= 4194303 => value \in 0 .. GreatestValue
  BY <1>6, GreatestValueType, SMT
<1>8. \A value \in Nat : value <= 9 => value <= 4194303
  BY SMT
<1>9. \A value \in Nat : value <= 4194303 =>
        Len(GolombOf(value)) <= 2 * k - 1
  BY <1>1, <1>3, <1>5, <1>7, SMT DEF k
<1>10. \A value \in Nat : value <= 9 => Len(GolombOf(value)) <= 2 * l - 1
  BY <1>1, <1>4, <1>5, <1>7, <1>8, SMT DEF l
<1>11. \A value \in Nat : value <= 9 => value \in 0 .. GreatestValue
  BY <1>7, <1>8, SMT
<1>12. \A value \in Nat : value <= 4194303 => Len(GolombOf(value)) <= 45
  BY <1>5, <1>9, SMT
<1>13. \A value \in Nat : value <= 9 => Len(GolombOf(value)) <= 7
  BY <1>5, <1>10, SMT
<1> QED
  BY <1>7, <1>11, <1>12, <1>13, SMT

\* The units of the run are among them, when 7 bytes are decoded.
LEMMA UnitsOfRun ==
  ASSUME RbspMax >= 7
  PROVE  Unit \subseteq EncoderUnit
<1>1. ASSUME NEW long \in BOOLEAN,
             NEW h \in {<<6, <<"SEI">>>>, <<103, <<"SPS">>>>,
                        <<104, <<"PPS">>>>, <<9, <<"AUD">>>>, <<12, <<>>>>}
      PROVE  ParameterUnit(long, h[1], h[2]) \in EncoderUnit
  <2> DEFINE u == ParameterUnit(long, h[1], h[2])
             b == <<66, 0, 0, 1>>
  <2>1. b \in Seq(Byte) /\ Len(b) = 4 /\ b[4] = 1
    <3>1. 66 \in Byte /\ 0 \in Byte /\ 1 \in Byte
      BY DEF Byte
    <3> QED
      BY <3>1
  <2>2. /\ u = [long |-> long, header |-> h[1], body |-> b, info |-> h[2]]
        /\ u.long = long /\ u.header = h[1] /\ u.body = b /\ u.info = h[2]
    BY DEF ParameterUnit
  <2> HIDE DEF b, u
  <2>3. /\ h[1] \in 1 .. 255 /\ h[2] \in Seq(NalName)
        /\ h[1] % 32 \in 6 .. 9 =>
             h[2] = << <<"SEI", "SPS", "PPS", "AUD">>[(h[1] % 32) - 5] >>
        /\ h[1] % 32 \notin {1, 5}
        /\ h[1] % 32 \notin {1} \cup 5 .. 9 => h[2] = <<>>
    <3>1. CASE h = <<6, <<"SEI">>>>
      <4>1. h[1] = 6 /\ h[2] = <<"SEI">> /\ 6 % 32 = 6
        BY <3>1
      <4>2. <<"SEI">> \in Seq(NalName)
        BY DEF NalName
      <4>3. <<"SEI", "SPS", "PPS", "AUD">>[6 - 5] = "SEI"
        OBVIOUS
      <4> QED
        BY <4>1, <4>2, <4>3
    <3>2. CASE h = <<103, <<"SPS">>>>
      <4>1. h[1] = 103 /\ h[2] = <<"SPS">> /\ 103 % 32 = 7
        BY <3>2
      <4>2. <<"SPS">> \in Seq(NalName)
        BY DEF NalName
      <4>3. <<"SEI", "SPS", "PPS", "AUD">>[7 - 5] = "SPS"
        OBVIOUS
      <4> QED
        BY <4>1, <4>2, <4>3
    <3>3. CASE h = <<104, <<"PPS">>>>
      <4>1. h[1] = 104 /\ h[2] = <<"PPS">> /\ 104 % 32 = 8
        BY <3>3
      <4>2. <<"PPS">> \in Seq(NalName)
        BY DEF NalName
      <4>3. <<"SEI", "SPS", "PPS", "AUD">>[8 - 5] = "PPS"
        OBVIOUS
      <4> QED
        BY <4>1, <4>2, <4>3
    <3>4. CASE h = <<9, <<"AUD">>>>
      <4>1. h[1] = 9 /\ h[2] = <<"AUD">> /\ 9 % 32 = 9
        BY <3>4
      <4>2. <<"AUD">> \in Seq(NalName)
        BY DEF NalName
      <4>3. <<"SEI", "SPS", "PPS", "AUD">>[9 - 5] = "AUD"
        OBVIOUS
      <4> QED
        BY <4>1, <4>2, <4>3
    <3>5. CASE h = <<12, <<>>>>
      <4>1. h[1] = 12 /\ h[2] = <<>> /\ 12 % 32 = 12
        BY <3>5
      <4>2. <<>> \in Seq(NalName)
        OBVIOUS
      <4> QED
        BY <4>1, <4>2
    <3> QED
      BY <3>1, <3>2, <3>3, <3>4, <3>5
  <2>4. u \in [long : BOOLEAN, header : 1 .. 255, body : Seq(Byte),
               info : Seq(NalName)]
    BY <2>1, <2>2, <2>3
  <2>5. u.body # <<>> => u.body[Len(u.body)] # 0
    <3>1. b[Len(b)] # 0
      BY <2>1
    <3> QED
      BY <2>2, <3>1
  <2> QED
    BY <2>2, <2>3, <2>4, <2>5 DEF EncoderUnit, u
<1>2. ASSUME NEW long \in BOOLEAN, NEW header \in {65, 101},
             NEW first \in 0 .. GreatestValue, NEW slice \in {0, 2, 6, 9},
             Len(GolombOf(first)) <= 45, slice \in 0 .. GreatestValue,
             Len(GolombOf(slice)) <= 7
      PROVE  SliceUnit(long, header, first, slice) \in EncoderUnit
  <2> DEFINE u == SliceUnit(long, header, first, slice)
             f == GolombOf(first)
             g == GolombOf(slice)
             rest == <<0, 0, 1, 255>>
             B == BytesOf(f \o g)
             b == B \o rest
             i == << <<"P", "B", "I", "SP", "SI", "P", "B", "I", "SP", "SI">>
                       [slice + 1] >>
  <2>1. slice \in 0 .. GreatestValue
    BY <1>2
  <2>2. Len(f) <= 45 /\ Len(g) <= 7
    BY <1>2
  <2>3. f \in Seq(Bit) /\ g \in Seq(Bit)
    BY <2>1, GolombOfValue, SMT DEF IsCode
  <2>4. rest \in Seq(Byte) /\ Len(rest) = 4 /\ rest[4] = 255
    <3>1. 0 \in Byte /\ 1 \in Byte /\ 255 \in Byte
      BY DEF Byte
    <3> QED
      BY <3>1
  <2>5. /\ u = [long |-> long, header |-> header, body |-> b, info |-> i]
        /\ u.long = long /\ u.header = header /\ u.body = b /\ u.info = i
    BY DEF SliceUnit
  <2> HIDE DEF f, g, rest
  <2>6. B \in Seq(Byte)
    <3>1. f \o g \in Seq(Bit)
      BY <2>3
    <3> QED
      BY <3>1, BytesOfBits
  <2> HIDE DEF B
  <2>7. b \in Seq(Byte) /\ IsJoined(b, B, rest)
    BY <2>4, <2>6, Joined
  <2>8. Len(b) = Len(B) + 4 /\ b[Len(b)] # 0
    <3>1. Len(b) = Len(B) + 4 /\ b[Len(B) + 4] = 255
      BY <2>4, <2>7 DEF IsJoined
    <3> QED
      BY <3>1
  <2>9. /\ i = << <<"P", "B", "I", "SP", "SI">>[(slice % 5) + 1] >>
        /\ i \in Seq(NalName)
    <3>1. CASE slice = 0
      <4>1. i = <<"P">> /\ (slice % 5) + 1 = 1
        BY <3>1
      <4> QED
        BY <4>1 DEF NalName
    <3>2. CASE slice = 2
      <4>1. i = <<"I">> /\ (slice % 5) + 1 = 3
        BY <3>2
      <4> QED
        BY <4>1 DEF NalName
    <3>3. CASE slice = 6
      <4>1. i = <<"B">> /\ (slice % 5) + 1 = 2
        BY <3>3
      <4> QED
        BY <4>1 DEF NalName
    <3>4. CASE slice = 9
      <4>1. i = <<"SI">> /\ (slice % 5) + 1 = 5
        BY <3>4
      <4> QED
        BY <4>1 DEF NalName
    <3> QED
      BY <3>1, <3>2, <3>3, <3>4
  <2> HIDE DEF i, b, u
  <2>10. header \in 1 .. 255 /\ header % 32 \in {1, 5}
    OBVIOUS
  <2>11. Len(f) + Len(g) <= 8 * RbspMax
    <3>1. Len(f) \in Nat /\ Len(g) \in Nat
      BY <2>3
    <3> QED
      BY <2>2, <3>1, H264InspectorAssumption
  <2> DEFINE P(x, y, z) ==
        /\ Len(GolombOf(x)) + Len(GolombOf(y)) <= 8 * RbspMax
        /\ u.body = BytesOf(GolombOf(x) \o GolombOf(y)) \o z
        /\ u.info = << <<"P", "B", "I", "SP", "SI">>[(y % 5) + 1] >>
  <2>12. \E x, y \in 0 .. GreatestValue, z \in Seq(Byte) : P(x, y, z)
    <3>1. P(first, slice, rest)
      BY <2>5, <2>9, <2>11 DEF b, B, f, g
    <3> HIDE DEF P
    <3> QED
      BY <2>1, <2>4, <3>1
  <2>13. u \in [long : BOOLEAN, header : 1 .. 255, body : Seq(Byte),
                info : Seq(NalName)]
    BY <2>5, <2>7, <2>9, <2>10
  <2>14. u.header % 32 \notin 6 .. 9 /\ u.header % 32 \in {1} \cup 5 .. 9
    BY <2>5, <2>10
  <2>15. u.body # <<>> => u.body[Len(u.body)] # 0
    BY <2>5, <2>8
  <2>16. u \in EncoderUnit
    BY <2>12, <2>13, <2>14, <2>15 DEF EncoderUnit
  <2> QED
    BY <2>16 DEF u
<1>3. ASSUME NEW slice \in {0, 2, 6, 9}
      PROVE  slice \in 0 .. GreatestValue /\ Len(GolombOf(slice)) <= 7
  <2>1. slice \in Nat /\ slice <= 9
    OBVIOUS
  <2> QED
    BY <2>1, CodeLengths, SMT
<1> DEFINE Firsts == {0, 6, 4194303}
<1>4. ASSUME NEW first \in Firsts
      PROVE  first \in 0 .. GreatestValue /\ Len(GolombOf(first)) <= 45
  <2>1. first \in Nat /\ first <= 4194303
    BY SMT
  <2> HIDE DEF Firsts
  <2> QED
    BY <2>1, CodeLengths, SMT
<1>5. Unit =
        {ParameterUnit(long, h[1], h[2]) :
           long \in BOOLEAN,
           h \in {<<6, <<"SEI">>>>, <<103, <<"SPS">>>>, <<104, <<"PPS">>>>,
                  <<9, <<"AUD">>>>, <<12, <<>>>>}}
        \cup {SliceUnit(long, header, first, slice) :
                long \in BOOLEAN, header \in {65, 101},
                first \in Firsts, slice \in {0, 2, 6, 9}}
  BY SMT DEF Unit
<1> HIDE DEF Firsts
<1>6. \A long \in BOOLEAN, header \in {65, 101}, first \in Firsts,
         slice \in {0, 2, 6, 9} :
        SliceUnit(long, header, first, slice) \in EncoderUnit
  BY <1>2, <1>3, <1>4
<1> SUFFICES ASSUME NEW u \in Unit
             PROVE  u \in EncoderUnit
  OBVIOUS
<1>7. \/ \E long \in BOOLEAN,
            h \in {<<6, <<"SEI">>>>, <<103, <<"SPS">>>>, <<104, <<"PPS">>>>,
                   <<9, <<"AUD">>>>, <<12, <<>>>>} :
           u = ParameterUnit(long, h[1], h[2])
      \/ \E long \in BOOLEAN, header \in {65, 101}, first \in Firsts,
            slice \in {0, 2, 6, 9} :
           u = SliceUnit(long, header, first, slice)
  BY <1>5
<1> QED
  BY <1>1, <1>6, <1>7
=============================================================================
