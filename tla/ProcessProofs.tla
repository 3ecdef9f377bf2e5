---------------------------- MODULE ProcessProofs ----------------------------
(***************************************************************************)
(* The safety properties of Process for every set of configurations and    *)
(* any number of rows and writes: what a process opens is closed in the    *)
(* reverse order, with what stands on it, and what it does not need is     *)
(* never built.                                                            *)
(***************************************************************************)
EXTENDS Process, SequenceTheorems, TLAPS

USE DEF start, held, poll

-----------------------------------------------------------------------------
(* The order of a start. *)

(* The initializers come first, in their order, then the options.          *)
LEMMA Layout ==
    ASSUME cmd \in Commands, pc \in Nat \ {0}, NEW s, At(s)
    PROVE  /\ pc = 1 => s = "telemetry"
           /\ pc = 2 => s = "store"
           /\ pc = 3 => s = "queue"
           /\ pc = 4 => s = "broker"
           /\ pc = 5 => s = "translator"
           /\ pc = 6 => s = "translation"
           /\ pc = 7 => s = "auth"
           /\ pc = 8 => s = "bus"
           /\ pc = 9 => s = "auditlog"
           /\ pc = 10 => s = "dedup"
           /\ pc = 11 => s = "cores"
           /\ pc = 12 => s = "handlers"
           /\ pc > 12 => s \in OptionNames /\ (s = "api" => cmd \in {"serve", "http"})
<1> DEFINE Names == {"telemetry", "store", "queue", "broker", "translator", "translation", "auth",
                     "bus", "auditlog", "dedup", "cores", "handlers"}
           S == Names \cup OptionNames
<1>1. Len(Initializers) = 12 /\ Initializers \in Seq(Names)
    BY DEF Initializers
<1>2. Options(cmd) \in Seq(OptionNames)
    <2>1. /\ ServeOptions \in Seq(OptionNames) /\ HTTPOptions \in Seq(OptionNames)
          /\ WorkerOptions \in Seq(OptionNames) /\ ConsumerOptions \in Seq(OptionNames)
        BY DEF ServeOptions, HTTPOptions, WorkerOptions, ConsumerOptions, OptionNames
    <2> QED  BY <2>1 DEF Options
<1>3. ASSUME NEW i \in 1 .. Len(Options(cmd)), Options(cmd)[i] = "api"
      PROVE  cmd \in {"serve", "http"}
    <2>1. CASE cmd = "worker"
        BY <1>3, <2>1 DEF Options, WorkerOptions
    <2>2. CASE cmd = "consumer"
        BY <1>3, <2>2 DEF Options, ConsumerOptions
    <2> QED  BY <2>1, <2>2 DEF Commands
<1>4. Initializers \in Seq(S) /\ Options(cmd) \in Seq(S)
    BY <1>1, <1>2, SeqMonotonic
<1>5. Len(Options(cmd)) \in Nat
    BY <1>2, LenProperties
<1>6. /\ Len(steps) = 12 + Len(Options(cmd))
      /\ \A i \in 1 .. 12 + Len(Options(cmd)) :
            steps[i] = IF i <= 12 THEN Initializers[i] ELSE Options(cmd)[i - 12]
    <2> HIDE DEF S
    <2>1. /\ Len(steps) = Len(Initializers) + Len(Options(cmd))
          /\ \A i \in 1 .. Len(Initializers) + Len(Options(cmd)) :
                steps[i] = IF i <= Len(Initializers) THEN Initializers[i]
                           ELSE Options(cmd)[i - Len(Initializers)]
        BY <1>4, ConcatProperties, Zenon DEF steps
    <2> QED  BY <1>1, <2>1
<1>7. pc \in 1 .. 12 + Len(Options(cmd)) /\ s = steps[pc]
    BY <1>5, <1>6 DEF At
<1>8. CASE pc <= 12
    <2>1. s = Initializers[pc]
        BY <1>6, <1>7, <1>8
    <2> QED  BY <1>8, <2>1 DEF Initializers
<1>9. CASE pc > 12
    <2>1. s = Options(cmd)[pc - 12] /\ pc - 12 \in 1 .. Len(Options(cmd))
        BY <1>5, <1>6, <1>7, <1>9
    <2>2. s \in OptionNames
        BY <1>2, <2>1, ElementOfSeq
    <2> QED  BY <1>3, <1>9, <2>1, <2>2
<1> QED  BY <1>8, <1>9

(* There are twelve of them. *)
LEMMA Steps == Len(steps) \in Nat /\ Len(steps) >= 12
<1> DEFINE S == {"telemetry", "store", "queue", "broker", "translator", "translation", "auth",
                 "bus", "auditlog", "dedup", "cores", "handlers"} \cup OptionNames
<1>1. Len(Initializers) = 12 /\ Initializers \in Seq(S)
    BY DEF Initializers
<1>2. Options(cmd) \in Seq(S)
    <2>1. /\ ServeOptions \in Seq(S) /\ HTTPOptions \in Seq(S)
          /\ WorkerOptions \in Seq(S) /\ ConsumerOptions \in Seq(S)
        BY DEF ServeOptions, HTTPOptions, WorkerOptions, ConsumerOptions, OptionNames
    <2> QED  BY <2>1 DEF Options
<1> HIDE DEF S
<1>3. Len(steps) = Len(Initializers) + Len(Options(cmd)) /\ Len(Options(cmd)) \in Nat
    BY <1>1, <1>2, ConcatProperties, LenProperties, Zenon DEF steps
<1> QED  BY <1>1, <1>3

(* The providers of the widgets over gRPC, of the workers, of the settings *)
(* and of the bus stay among themselves: no other is built with them.      *)
Inner ==
    {"DB", "Queue", "Registry", "BrokerConn", "Events", "Bus", "AuditLog", "Dedup",
     "WidgetSettings", "WidgetCore", "WidgetImport", "WidgetCount", "WidgetGRPC"}

LEMMA UsesInner == \A x \in Inner : Uses(x) \subseteq Inner
BY DEF Inner, Uses, UsesOfStores, UsesOfWidgets, UsesOfUsers, UsesOfProducts

LEMMA ClosureInner == \A ps \in SUBSET Inner : Closure(ps) \subseteq Inner
<1>1. \A ps \in SUBSET Inner : WithUses(ps) \in SUBSET Inner
    BY UsesInner DEF WithUses
<1> QED  BY <1>1 DEF Closure

LEMMA UsesProviders == \A x \in Providers : Uses(x) \subseteq Providers
BY DEF Providers, Uses, UsesOfStores, UsesOfWidgets, UsesOfUsers, UsesOfProducts

LEMMA ClosureProviders == \A ps \in SUBSET Providers : Closure(ps) \subseteq Providers
<1>1. \A ps \in SUBSET Providers : WithUses(ps) \in SUBSET Providers
    BY UsesProviders DEF WithUses
<1> QED  BY <1>1 DEF Closure

(* A closure has its roots, and the store of a provider that needs one. *)
LEMMA ClosureGrows ==
    \A ps : ps \subseteq Closure(ps) /\ \A x \in ps : Uses(x) \subseteq Closure(ps)
<1>1. \A ps : ps \subseteq WithUses(ps) /\ \A x \in ps : Uses(x) \subseteq WithUses(ps)
    BY DEF WithUses
<1> QED  BY <1>1 DEF Closure

(* The roots of an option are providers, and inner ones but for the API.   *)
LEMMA RootsType ==
    \A o : Roots(o) \subseteq Providers /\ (o # "api" => Roots(o) \subseteq Inner)
BY DEF Roots, RootsOfAPI, RootsOfGRPC, RootsOfWorkers, RootsOfConsumers, Providers, Inner

(* What the closer gains with a cleanup. *)
LEMMA Adding ==
    ASSUME closers \in Seq(Cleanups), NEW c \in Cleanups, closers' = Append(closers, c)
    PROVE  /\ closers' \in Seq(Cleanups) /\ closers' # <<>>
           /\ Registered(c)' /\ \A x : Registered(x) => Registered(x)'
           /\ \A x : (Covered(x) \/ x \in Closes(c) \/ (x = "pub" /\ c = "broker")) => Covered(x)'
           /\ closers'[1] = IF closers = <<>> THEN c ELSE closers[1]
           /\ (\A i \in 2 .. Len(closers) : closers[i] # "telemetry")
                 /\ (closers = <<>> \/ c # "telemetry")
              => \A i \in 2 .. Len(closers') : closers'[i] # "telemetry"
<1>1. /\ closers' \in Seq(Cleanups) /\ Len(closers') = Len(closers) + 1 /\ Len(closers) \in Nat
      /\ \A i \in 1 .. Len(closers) : closers'[i] = closers[i]
      /\ closers'[Len(closers) + 1] = c
    OBVIOUS
<1>2. Len(closers) = 0 <=> closers = <<>>
    OBVIOUS
<1>3. closers' # <<>> /\ closers'[1] = IF closers = <<>> THEN c ELSE closers[1]
    BY <1>1, <1>2
<1>4. Registered(c)' /\ \A x : Registered(x) => Registered(x)'
    BY <1>1 DEF Registered
<1>5. \A x : (Covered(x) \/ x \in Closes(c) \/ (x = "pub" /\ c = "broker")) => Covered(x)'
    BY <1>1 DEF Covered
<1>6. ASSUME \A i \in 2 .. Len(closers) : closers[i] # "telemetry",
             closers = <<>> \/ c # "telemetry",
             NEW i \in 2 .. Len(closers')
      PROVE  closers'[i] # "telemetry"
    <2>1. CASE i <= Len(closers)
        BY <1>1, <1>6, <2>1
    <2>2. CASE i > Len(closers)
        BY <1>1, <1>2, <1>6, <2>2
    <2> QED  BY <1>1, <2>1, <2>2
<1> QED  BY <1>1, <1>3, <1>4, <1>5, <1>6

(* What it loses with the last one. *)
LEMMA Removing ==
    ASSUME closers \in Seq(Cleanups), closers # <<>>,
           closers' = SubSeq(closers, 1, Len(closers) - 1)
    PROVE  /\ closers' \in Seq(Cleanups)
           /\ \A x : Covered(x) /\ x \notin Closes(Last) /\ (x = "pub" => Last # "broker")
                        => Covered(x)'
           /\ closers' # <<>> => closers'[1] = closers[1] /\ Len(closers) \in 2 .. Len(closers)
           /\ (\A i \in 2 .. Len(closers) : closers[i] # "telemetry")
              => \A i \in 2 .. Len(closers') : closers'[i] # "telemetry"
<1>1. /\ closers' \in Seq(Cleanups) /\ Len(closers') = Len(closers) - 1
      /\ Len(closers) \in Nat \ {0}
      /\ \A i \in 1 .. Len(closers) - 1 : closers'[i] = closers[i]
    <2>1. Len(closers) \in Nat \ {0} /\ \A i \in 1 .. Len(closers) : closers[i] \in Cleanups
        OBVIOUS
    <2> DEFINE n == Len(closers) - 1
    <2>2. n \in Nat /\ \A i \in 1 .. n : closers[i] \in Cleanups
        BY <2>1
    <2>3. /\ closers' \in Seq(Cleanups) /\ Len(closers') = n
          /\ \A i \in 1 .. n : closers'[i] = closers[i]
        <3> HIDE DEF n
        <3>1. closers' = SubSeq(closers, 1, n)
            BY DEF n
        <3>2. /\ SubSeq(closers, 1, n) \in Seq(Cleanups)
              /\ Len(SubSeq(closers, 1, n)) = IF 1 <= n THEN n - 1 + 1 ELSE 0
              /\ \A i \in 1 .. n - 1 + 1 : SubSeq(closers, 1, n)[i] = closers[1 + i - 1]
            BY <2>2, SubSeqProperties
        <3> QED  BY <2>2, <3>1, <3>2
    <2> QED  BY <2>1, <2>3
<1>2. closers' # <<>> => Len(closers') # 0
    BY <1>1
<1>3. ASSUME NEW x, Covered(x), x \notin Closes(Last), x = "pub" => Last # "broker"
      PROVE  Covered(x)'
    <2>1. PICK i \in 1 .. Len(closers) :
              x \in Closes(closers[i]) \/ (x = "pub" /\ closers[i] = "broker")
        BY <1>3 DEF Covered
    <2>2. i # Len(closers)
        BY <1>3, <2>1 DEF Last
    <2>3. i \in 1 .. Len(closers') /\ closers'[i] = closers[i]
        BY <1>1, <2>2
    <2> QED  BY <2>1, <2>3 DEF Covered
<1>4. closers' # <<>> => closers'[1] = closers[1] /\ Len(closers) \in 2 .. Len(closers)
    BY <1>1, <1>2
<1>5. (\A i \in 2 .. Len(closers) : closers[i] # "telemetry")
        => \A i \in 2 .. Len(closers') : closers'[i] # "telemetry"
    BY <1>1
<1> QED  BY <1>1, <1>3, <1>4, <1>5

-----------------------------------------------------------------------------
(* The initial state satisfies the invariant. *)
LEMMA InitInv == Init => IInv
<1> SUFFICES ASSUME Init PROVE IInv
    OBVIOUS
<1> USE DEF Init
<1>1. TypeOK
    <2>1. cmd \in Commands /\ cfg \in Configs \cup {NoConfig} /\ closers \in Seq(Cleanups)
        BY DEF Commands
    <2>2. /\ writes \in 0 .. MaxWrites /\ cached \in 0 .. MaxRows
          /\ size \in 0 .. MaxRows /\ pc \in Nat \ {0}
        BY ProcessAssumption
    <2> QED  BY <2>1, <2>2 DEF TypeOK
<1>2. StageInv /\ CloserInv /\ PollInv
    BY DEF StageInv, CloserInv, PollInv, NoConfig
<1>3. NeedsMet /\ NothingLeaks /\ InstallOnly /\ CachedWasTrue
    BY DEF NeedsMet, NothingLeaks, InstallOnly, CachedWasTrue, NoConfig
<1> QED  BY <1>1, <1>2, <1>3 DEF IInv

(* The providers an option or an initializer builds, and what it opens.    *)
LEMMA OpenedType == \A ps : Opened(ps) \subseteq {"db", "translator"}
BY DEF Opened

(* Every step keeps the types. *)
LEMMA TypeStep == TypeOK /\ [Next]_vars => TypeOK'
<1> SUFFICES ASSUME TypeOK, [Next]_vars PROVE TypeOK'
    OBVIOUS
<1> USE DEF TypeOK
<1>s. \A c \in Cleanups : Append(closers, c) \in Seq(Cleanups)
    OBVIOUS
<1>p. pc + 1 \in Nat \ {0}
    OBVIOUS
<1>1. ASSUME NEW c \in Commands, NEW o \in Configs, Launch(c, o) PROVE TypeOK'
    BY <1>1 DEF Launch
<1>2. CASE Wire \/ WireResource \/ InitEager
    <2>1. open' \subseteq Resources
        BY <1>2 DEF Wire, WireResource, InitEager, Resources
    <2>2. closers' \in Seq(Cleanups)
        BY <1>2, <1>s DEF Wire, WireResource, InitEager, Cleanups
    <2> QED  BY <1>2, <2>1, <2>2, <1>p DEF Wire, WireResource, InitEager, Advance
<1>3. CASE Dial \/ NewPublisher
    <2>1. open' \subseteq Resources
        BY <1>3 DEF Dial, NewPublisher, Resources
    <2>2. closers' \in Seq(Cleanups)
        BY <1>3, <1>s DEF Dial, NewPublisher, Cleanups
    <2> QED  BY <1>3, <2>1, <2>2, <1>p DEF Dial, NewPublisher, Advance
<1>4. CASE InitAuditLog
    <2>1. Closure({"Bus", "AuditLog"}) \subseteq Providers
        BY ClosureProviders DEF Providers
    <2> QED  BY <1>4, <2>1, <1>p, OpenedType DEF InitAuditLog, Build, Advance, Resources
<1>5. CASE InitFails
    <2>1. PICK opened \in SUBSET open : Abort(opened)
        BY <1>5 DEF InitFails
    <2> QED  BY <2>1 DEF Abort, End
<1>6. ASSUME NEW o \in OptionNames, Skip(o) PROVE TypeOK'
    BY <1>6, <1>p DEF Skip, Advance
<1>7. ASSUME NEW o \in OptionNames, Mount(o) PROVE TypeOK'
    <2>1. Adds(o) \subseteq Parts
        BY DEF Adds, Workers, Parts, OptionNames
    <2>2. Closure(Roots(o)) \subseteq Providers
        BY RootsType, ClosureProviders
    <2>3. open' \subseteq Resources
        BY <1>7, OpenedType DEF Mount, Resources
    <2>4. closers' \in Seq(Cleanups)
        BY <1>7, <1>s DEF Mount, Cleanups
    <2> QED  BY <1>7, <2>1, <2>2, <2>3, <2>4, <1>p DEF Mount, Advance
<1>8. ASSUME NEW o \in OptionNames, Refuse(o) PROVE TypeOK'
    <2>1. PICK ps \in SUBSET Roots(o) : Build(ps)
        BY <1>8 DEF Refuse
    <2>2. Closure(ps) \subseteq Providers
        BY RootsType, ClosureProviders
    <2> QED  BY <1>8, <2>1, <2>2, OpenedType DEF Refuse, Build, End, Resources
<1>9. ASSUME NEW o \in OptionNames, Die(o) PROVE TypeOK'
    BY <1>9 DEF Die, End
<1>10. CASE Run \/ Stop \/ \E x \in Parts : StopPart(x)
    BY <1>10 DEF Run, Stop, StopPart
<1>11. CASE Release \/ ClosePublisher \/ Exit
    BY <1>11 DEF Release, ClosePublisher, Exit
<1>12. CASE CloseLast
    <2>1. closers' \in Seq(Cleanups)
        BY <1>12, Removing DEF CloseLast
    <2> QED  BY <1>12, <2>1 DEF CloseLast
<1>13. CASE Write
    <2>1. writes + 1 \in 0 .. MaxWrites /\ size' \in 0 .. MaxRows
        BY <1>13, ProcessAssumption DEF Write
    <2> QED  BY <1>13, <2>1 DEF Write
<1>14. CASE PollRead \/ PollStore
    BY <1>14 DEF PollRead, PollStore
<1>15. CASE UNCHANGED vars
    BY <1>15 DEF vars
<1> QED
    BY <1>1, <1>2, <1>3, <1>4, <1>5, <1>6, <1>7, <1>8, <1>9, <1>10, <1>11, <1>12, <1>13, <1>14, <1>15
       DEF Next, Start, InitStep, OptionStep, Shutdown

-----------------------------------------------------------------------------
(* Telemetry stays the first of the closer, and open while it is there. *)
LEMMA CloserStep == IInv /\ [Next]_vars => CloserInv'
<1> SUFFICES ASSUME IInv, [Next]_vars PROVE CloserInv'
    OBVIOUS
<1>t. TypeOK /\ CloserInv /\ StageInv /\ closers \in Seq(Cleanups)
    BY DEF IInv, TypeOK
<1>a. ASSUME NEW c \in Cleanups, closers' = Append(closers, c), open \subseteq open',
             IF closers = <<>> THEN c = "telemetry" /\ c \in open' ELSE c # "telemetry"
      PROVE  CloserInv'
    BY <1>a, <1>t, Adding DEF CloserInv
<1>s. ASSUME closers' = closers, "telemetry" \in open => "telemetry" \in open' PROVE CloserInv'
    BY <1>s, <1>t DEF CloserInv
<1>p. ASSUME NEW s, At(s), s # "telemetry" PROVE closers # <<>>
    <2>1. pc # 1 /\ stage = "starting"
        BY <1>p, <1>t, Layout DEF TypeOK, At
    <2> QED  BY <2>1, <1>t DEF StageInv, OpenedSoFar, TypeOK
<1>1. CASE WireResource
    <2>1. PICK c \in {"store", "translator"} : At(c) /\ closers' = Append(closers, c)
        BY <1>1 DEF WireResource
    <2>2. c \in Cleanups /\ closers # <<>> /\ open' = open
        BY <1>1, <2>1, <1>p DEF Cleanups, WireResource
    <2> QED  BY <2>1, <2>2, <1>a
<1>2. CASE InitEager
    <2>1. PICK c \in {"telemetry", "dedup"} :
              At(c) /\ open' = open \cup {c} /\ closers' = Append(closers, c)
        BY <1>2 DEF InitEager
    <2>2. CASE c = "telemetry"
        <3>1. pc = 1 /\ stage = "starting"
            BY <2>1, <2>2, <1>t, Layout DEF TypeOK, At, OptionNames
        <3>2. closers = <<>>
            BY <3>1, <1>t DEF StageInv, OpenedSoFar
        <3> QED  BY <2>1, <2>2, <3>2, <1>a DEF Cleanups
    <2>3. CASE c = "dedup"
        <3>1. closers # <<>>
            BY <2>1, <2>3, <1>p
        <3> QED  BY <2>1, <2>3, <3>1, <1>a DEF Cleanups
    <2> QED  BY <2>1, <2>2, <2>3
<1>3. CASE NewPublisher
    <2>1. At("broker") /\ closers' = Append(closers, "broker") /\ open \subseteq open'
        BY <1>3 DEF NewPublisher
    <2>2. closers # <<>>
        BY <2>1, <1>p
    <2> QED  BY <2>1, <2>2, <1>a DEF Cleanups
<1>4. ASSUME NEW o \in OptionNames, Mount(o) PROVE CloserInv'
    <2>1. At(o) /\ open \subseteq open'
        BY <1>4 DEF Mount
    <2>2. closers # <<>>
        BY <2>1, <1>p DEF OptionNames
    <2>3. closers' = Append(closers, "gateway") \/ closers' = closers
        BY <1>4 DEF Mount
    <2>4. CASE closers' = closers  BY <2>1, <2>4, <1>s
    <2>5. CASE closers' = Append(closers, "gateway")  BY <2>1, <2>2, <2>5, <1>a DEF Cleanups
    <2> QED  BY <2>3, <2>4, <2>5
<1>5. CASE CloseLast
    <2>1. /\ closers # <<>> /\ closers' = SubSeq(closers, 1, Len(closers) - 1)
          /\ open' = open \ Closes(Last)
        BY <1>5 DEF CloseLast
    <2>2. closers' # <<>> => closers'[1] = closers[1] /\ Len(closers) \in 2 .. Len(closers)
        BY <2>1, <1>t, Removing
    <2>3. closers' # <<>> => Last # "telemetry"
        BY <2>2, <1>t DEF CloserInv, Last
    <2>4. closers' # <<>> => "telemetry" \in open'
        BY <2>1, <2>3, <1>t DEF CloserInv, Closes
    <2>5. \A i \in 2 .. Len(closers') : closers'[i] # "telemetry"
        BY <2>1, <1>t, Removing DEF CloserInv
    <2> QED  BY <2>1, <2>2, <2>4, <2>5, <1>t DEF CloserInv
<1>6. CASE InitFails
    <2>1. PICK opened : Abort(opened) /\ (opened = open \/ opened = open \ {"conn"})
        BY <1>6 DEF InitFails
    <2> QED  BY <2>1, <1>s DEF Abort
<1>7. CASE Wire \/ Dial \/ InitAuditLog \/ Run \/ Stop \/ Release \/ ClosePublisher \/ Exit
           \/ Write \/ PollRead \/ PollStore \/ UNCHANGED vars
    BY <1>7, <1>s DEF Wire, Dial, InitAuditLog, Build, Run, Stop, Release, ClosePublisher, Exit,
       Write, PollRead, PollStore, vars
<1>8. ASSUME NEW o \in OptionNames, Skip(o) \/ Refuse(o) \/ Die(o) PROVE CloserInv'
    BY <1>8, <1>s DEF Skip, Refuse, Build, Die
<1>9. ASSUME NEW x \in Parts, StopPart(x) PROVE CloserInv'
    BY <1>9, <1>s DEF StopPart
<1>10. ASSUME NEW c \in Commands, NEW o \in Configs, Launch(c, o) PROVE CloserInv'
    BY <1>10, <1>s DEF Launch
<1> QED
    BY <1>1, <1>2, <1>3, <1>4, <1>5, <1>6, <1>7, <1>8, <1>9, <1>10
       DEF Next, Start, InitStep, OptionStep, Shutdown

(* A provider that only the API needs is built for the API. *)
Outer == {"Translator", "Translation", "WidgetHandler", "UserCore", "UserHandler", "ProductCore",
          "ProductHandler"}

LEMMA InstallStep == IInv /\ [Next]_vars => InstallOnly'
<1> SUFFICES ASSUME IInv, [Next]_vars PROVE InstallOnly'
    OBVIOUS
<1>t. TypeOK /\ InstallOnly /\ StageInv
    BY DEF IInv
<1>o. Inner \cap Outer = {}
    BY DEF Inner, Outer
<1>s. ASSUME built' \subseteq built \cup Inner, cmd' = cmd, cfg' = cfg PROVE InstallOnly'
    BY <1>s, <1>t, <1>o DEF InstallOnly, Outer
<1>1. ASSUME NEW o \in OptionNames, Mount(o) PROVE InstallOnly'
    <2>1. At(o) /\ ~Off(o) /\ built' = built \cup Closure(Roots(o)) /\ cmd' = cmd /\ cfg' = cfg
        BY <1>1 DEF Mount, Advance
    <2>2. CASE o = "api"
        <3>1. "http" \in cfg.addrs
            BY <2>1, <2>2 DEF Off
        <3>2. cmd \in {"serve", "http"}
            BY <2>1, <2>2, <1>t, Layout DEF TypeOK
        <3> QED  BY <2>1, <3>1, <3>2 DEF InstallOnly
    <2>3. CASE o # "api"
        <3>1. Closure(Roots(o)) \subseteq Inner
            BY <2>3, RootsType, ClosureInner
        <3> QED  BY <2>1, <3>1, <1>s
    <2> QED  BY <2>2, <2>3
<1>2. ASSUME NEW o \in OptionNames, Refuse(o) PROVE InstallOnly'
    <2>1. PICK ps \in SUBSET Roots(o) : Build(ps)
        BY <1>2 DEF Refuse
    <2>2. Closure(ps) \subseteq Inner
        BY <1>2, RootsType, ClosureInner DEF Refuse
    <2> QED  BY <1>2, <2>1, <2>2, <1>s DEF Refuse, Build, End
<1>3. CASE InitAuditLog
    <2>1. Closure({"Bus", "AuditLog"}) \subseteq Inner
        BY ClosureInner DEF Inner
    <2> QED  BY <1>3, <2>1, <1>s DEF InitAuditLog, Build, Advance
<1>4. ASSUME NEW c \in Commands, NEW o \in Configs, Launch(c, o) PROVE InstallOnly'
    BY <1>4, <1>t DEF Launch, StageInv, InstallOnly
<1>5. CASE InitFails
    <2>1. PICK opened : Abort(opened)
        BY <1>5 DEF InitFails
    <2> QED  BY <2>1, <1>s DEF Abort, End
<1>6. CASE Wire \/ WireResource \/ InitEager \/ Dial \/ NewPublisher
    BY <1>6, <1>s DEF Wire, WireResource, InitEager, Dial, NewPublisher, Advance
<1>7. CASE Run \/ Stop \/ Release \/ ClosePublisher \/ CloseLast \/ Exit
           \/ Write \/ PollRead \/ PollStore \/ UNCHANGED vars
    BY <1>7, <1>s DEF Run, Stop, Release, ClosePublisher, CloseLast, Exit, Write, PollRead,
       PollStore, vars
<1>8. ASSUME NEW o \in OptionNames, Skip(o) \/ Die(o) PROVE InstallOnly'
    BY <1>8, <1>s DEF Skip, Die, Advance, End
<1>9. ASSUME NEW x \in Parts, StopPart(x) PROVE InstallOnly'
    BY <1>9, <1>s DEF StopPart
<1> QED
    BY <1>1, <1>2, <1>3, <1>4, <1>5, <1>6, <1>7, <1>8, <1>9
       DEF Next, Start, InitStep, OptionStep, Shutdown

(* What a poll has read, and what is cached, is a size the table had.      *)
LEMMA PollStep == IInv /\ [Next]_vars => PollInv' /\ CachedWasTrue'
<1> SUFFICES ASSUME IInv, [Next]_vars PROVE PollInv' /\ CachedWasTrue'
    OBVIOUS
<1>t. TypeOK /\ PollInv /\ CachedWasTrue /\ StageInv
    BY DEF IInv
<1> USE DEF PollInv, CachedWasTrue
<1>s. ASSUME UNCHANGED poll, live' \subseteq live,
             stage' \in {"off", "starting"} => stage \in {"off", "starting"}
      PROVE  PollInv' /\ CachedWasTrue'
    BY <1>s, <1>t
<1>1. ASSUME NEW c \in Commands, NEW o \in Configs, Launch(c, o) PROVE PollInv' /\ CachedWasTrue'
    BY <1>1, <1>s DEF Launch
<1>2. CASE Wire \/ WireResource \/ InitEager \/ Dial \/ NewPublisher \/ InitAuditLog
    BY <1>2, <1>s DEF Wire, WireResource, InitEager, Dial, NewPublisher, InitAuditLog, Advance
<1>3. CASE InitFails
    <2>1. PICK opened : Abort(opened)
        BY <1>3 DEF InitFails
    <2> QED  BY <2>1, <1>s DEF Abort, End
<1>4. ASSUME NEW o \in OptionNames, Skip(o) \/ Mount(o) \/ Refuse(o) \/ Die(o)
      PROVE  PollInv' /\ CachedWasTrue'
    BY <1>4, <1>s DEF Skip, Mount, Refuse, Die, Advance, End
<1>5. CASE Run
    BY <1>5, <1>t DEF Run
<1>6. ASSUME NEW x \in Parts, StopPart(x) PROVE PollInv' /\ CachedWasTrue'
    BY <1>6, <1>s DEF StopPart
<1>7. CASE Stop \/ Release \/ ClosePublisher \/ CloseLast \/ Exit \/ UNCHANGED vars
    BY <1>7, <1>s DEF Stop, Release, ClosePublisher, CloseLast, Exit, vars
<1>8. CASE Write \/ PollRead
    BY <1>8, <1>t DEF Write, PollRead, StageInv
<1>9. CASE PollStore
    BY <1>9, <1>t DEF PollStore, StageInv
<1> QED
    BY <1>1, <1>2, <1>3, <1>4, <1>5, <1>6, <1>7, <1>8, <1>9
       DEF Next, Start, InitStep, OptionStep, Shutdown

-----------------------------------------------------------------------------
(* A registered cleanup covers what it closes. *)
LEMMA RegisteredCovers ==
    /\ Registered("store") => Covered("db")
    /\ Registered("translator") => Covered("translator")
BY DEF Registered, Covered, Closes

(* A start goes on: the next step finds what the one before it opened and  *)
(* registered.                                                             *)
LEMMA GoesOn ==
    ASSUME IInv, NEW s, At(s), Advance, open \subseteq open', closers' # <<>>,
           \A x : Covered(x) => Covered(x)',
           \A c : Registered(c) => Registered(c)',
           s = "telemetry" => "telemetry" \in open',
           s = "store" => Registered("store")',
           s = "broker" /\ cfg.broker => {"conn", "pub"} \subseteq open' /\ Covered("conn")',
           s = "translator" => Registered("translator")',
           s = "auditlog" => "db" \in open',
           s = "dedup" => "dedup" \in open',
           "conn" \in open' => "conn" \in open,
           "pub" \in open' => "pub" \in open \/ s = "broker",
           \A x \in parts' : x \in parts \/ Needs(x) \subseteq open',
           \A x \in open' : x \in open \/ Covered(x)'
    PROVE  StageInv'
<1>1. /\ stage = "starting" /\ stage' = "starting" /\ pc' = pc + 1 /\ cfg' = cfg
      /\ live' = {} /\ pc \in Nat \ {0} /\ ~cfg.unsafe
      /\ OpenedSoFar /\ RegisteredSoFar
    BY DEF At, Advance, IInv, StageInv, TypeOK
<1>2. /\ pc = 1 => s = "telemetry"
      /\ pc = 2 => s = "store"
      /\ pc = 4 <=> s = "broker"
      /\ pc = 5 => s = "translator"
      /\ pc = 9 => s = "auditlog"
      /\ pc = 10 => s = "dedup"
    <2>1. cmd \in Commands
        BY DEF IInv, TypeOK
    <2> QED  BY <1>1, <2>1, Layout DEF OptionNames
<1>3. OpenedSoFar'
    <2>1. pc' > 1 /\ closers' # <<>> /\ "telemetry" \in open'
        BY <1>1, <1>2 DEF OpenedSoFar
    <2>2. "conn" \in open' => cfg'.broker /\ pc' >= 4
        BY <1>1 DEF OpenedSoFar
    <2>3. "pub" \in open' => pc' > 4
        BY <1>1, <1>2 DEF OpenedSoFar
    <2>4. cfg'.broker /\ pc' > 4 => {"conn", "pub"} \subseteq open'
        BY <1>1, <1>2 DEF OpenedSoFar
    <2>5. (pc' > 9 => "db" \in open') /\ (pc' > 10 => "dedup" \in open')
        BY <1>1, <1>2 DEF OpenedSoFar
    <2>6. \A x \in parts' : Needs(x) \subseteq open'
        BY <1>1 DEF OpenedSoFar
    <2> QED  BY <1>1, <2>1, <2>2, <2>3, <2>4, <2>5, <2>6 DEF OpenedSoFar
<1>4. RegisteredSoFar'
    <2>1. pc' > 2 => Registered("store")'
        BY <1>1, <1>2 DEF RegisteredSoFar
    <2>2. pc' > 5 => Registered("translator")'
        BY <1>1, <1>2 DEF RegisteredSoFar
    <2>3. ASSUME NEW x \in open' PROVE Covered(x)'
        <3>1. CASE x \in open /\ x = "conn" /\ pc = 4
            BY <1>1, <1>2, <3>1 DEF OpenedSoFar
        <3> QED  BY <1>1, <2>3, <3>1 DEF RegisteredSoFar
    <2> QED  BY <2>1, <2>2, <2>3 DEF RegisteredSoFar
<1> QED  BY <1>1, <1>3, <1>4 DEF StageInv

(* The initializers, one by one. *)
LEMMA InitializersStep ==
    ASSUME IInv, Wire \/ WireResource \/ InitEager \/ NewPublisher \/ InitAuditLog
    PROVE  StageInv'
<1>t. /\ TypeOK /\ StageInv /\ closers \in Seq(Cleanups)
      /\ stage = "starting" => OpenedSoFar /\ RegisteredSoFar
    BY DEF IInv, TypeOK, StageInv
<1>p. ASSUME NEW s, At(s), s # "telemetry" PROVE closers # <<>> /\ stage = "starting" /\ pc > 1
    <2>1. pc # 1 /\ stage = "starting"
        BY <1>p, <1>t, Layout DEF TypeOK, At
    <2> QED  BY <2>1, <1>t DEF OpenedSoFar, TypeOK
<1>1. CASE Wire
    <2>1. PICK s \in Wiring \cup {"broker"} : At(s) /\ (s = "broker" => ~cfg.broker)
        BY <1>1 DEF Wire, Wiring
    <2>2. UNCHANGED <<held, parts>> /\ Advance
        BY <1>1 DEF Wire
    <2>3. closers # <<>>
        BY <2>1, <1>p DEF Wiring
    <2>4. \A x : (Covered(x) => Covered(x)') /\ (Registered(x) => Registered(x)')
        BY <2>2 DEF Covered, Registered
    <2> QED  BY <2>1, <2>2, <2>3, <2>4, GoesOn DEF Wiring
<1>2. CASE WireResource
    <2>1. PICK c \in {"store", "translator"} : At(c) /\ closers' = Append(closers, c)
        BY <1>2 DEF WireResource
    <2>2. UNCHANGED <<built, open, parts>> /\ Advance
        BY <1>2 DEF WireResource
    <2>3. /\ closers' # <<>> /\ Registered(c)'
          /\ \A x : (Covered(x) => Covered(x)') /\ (Registered(x) => Registered(x)')
        BY <2>1, <1>t, Adding DEF Cleanups
    <2> QED  BY <2>1, <2>2, <2>3, GoesOn
<1>3. CASE InitEager
    <2>1. PICK c \in {"telemetry", "dedup"} :
              At(c) /\ open' = open \cup {c} /\ closers' = Append(closers, c)
        BY <1>3 DEF InitEager
    <2>2. UNCHANGED <<built, parts>> /\ Advance
        BY <1>3 DEF InitEager
    <2>3. /\ closers' # <<>> /\ Registered(c)'
          /\ \A x : (Covered(x) => Covered(x)') /\ (Registered(x) => Registered(x)')
          /\ Covered(c)'
        BY <2>1, <1>t, Adding DEF Cleanups, Closes
    <2> QED  BY <2>1, <2>2, <2>3, GoesOn
<1>4. CASE NewPublisher
    <2>1. /\ At("broker") /\ "conn" \in open /\ open' = open \cup {"pub"}
          /\ closers' = Append(closers, "broker") /\ UNCHANGED <<built, parts>> /\ Advance
        BY <1>4 DEF NewPublisher
    <2>2. /\ closers' # <<>> /\ Covered("conn")' /\ Covered("pub")'
          /\ \A x : (Covered(x) => Covered(x)') /\ (Registered(x) => Registered(x)')
        BY <2>1, <1>t, Adding DEF Cleanups, Closes
    <2> QED  BY <2>1, <2>2, GoesOn
<1>5. CASE InitAuditLog
    <2>1. /\ At("auditlog") /\ open' = open \cup Opened(Closure({"Bus", "AuditLog"}))
          /\ UNCHANGED <<closers, parts>> /\ Advance
        BY <1>5 DEF InitAuditLog, Build
    <2>2. "DB" \in Closure({"Bus", "AuditLog"})
        <3>1. Uses("AuditLog") \subseteq Closure({"Bus", "AuditLog"})
            BY ClosureGrows
        <3> QED  BY <3>1 DEF Uses, UsesOfStores
    <2>3. "Translator" \notin Closure({"Bus", "AuditLog"})
        BY ClosureInner DEF Inner
    <2>4. open' = open \cup {"db"}
        BY <2>1, <2>2, <2>3 DEF Opened
    <2>5. closers # <<>> /\ stage = "starting" /\ pc = 9
        <3>1. closers # <<>> /\ stage = "starting" /\ pc > 1
            BY <2>1, <1>p
        <3>2. pc = 9
            BY <2>1, <1>t, Layout DEF TypeOK, OptionNames
        <3> QED  BY <3>1, <3>2
    <2>6. Covered("db")
        BY <2>5, <1>t, RegisteredCovers DEF RegisteredSoFar
    <2>7. \A x : (Covered(x) => Covered(x)') /\ (Registered(x) => Registered(x)')
        BY <2>1 DEF Covered, Registered
    <2> QED  BY <2>1, <2>4, <2>5, <2>6, <2>7, GoesOn
<1> QED  BY <1>1, <1>2, <1>3, <1>4, <1>5

(* What an option finds: the stores are registered, the store is open. *)
LEMMA AtOption ==
    ASSUME IInv, NEW o \in OptionNames, At(o)
    PROVE  /\ pc > 12 /\ stage = "starting" /\ closers # <<>>
           /\ Registered("store") /\ Registered("translator")
           /\ {"telemetry", "db", "dedup"} \subseteq open
           /\ cfg.broker => {"conn", "pub"} \subseteq open
           /\ \A x \in open : Covered(x)
<1>1. /\ stage = "starting" /\ OpenedSoFar /\ RegisteredSoFar
      /\ pc \in Nat \ {0} /\ cmd \in Commands
    BY DEF IInv, StageInv, TypeOK, At
<1>2. pc > 12
    <2>1. pc \notin {1, 2, 3, 4, 5, 6, 7, 8, 9, 10, 11, 12}
        BY <1>1, Layout DEF OptionNames
    <2> QED  BY <1>1, <2>1
<1> QED  BY <1>1, <1>2 DEF OpenedSoFar, RegisteredSoFar

(* The options, one by one: a part finds what it needs open. *)
LEMMA OptionsStep ==
    ASSUME IInv, NEW o \in OptionNames, Skip(o) \/ Mount(o)
    PROVE  StageInv'
<1>t. TypeOK /\ StageInv /\ closers \in Seq(Cleanups)
    BY DEF IInv, TypeOK
<1>o. At(o) /\ Advance
    BY DEF Skip, Mount
<1>s. o \notin {"telemetry", "store", "broker", "translator", "auditlog", "dedup"}
    BY DEF OptionNames
<1>1. CASE Skip(o)
    <2>1. UNCHANGED <<held, parts>>
        BY <1>1 DEF Skip
    <2>2. \A x : (Covered(x) => Covered(x)') /\ (Registered(x) => Registered(x)')
        BY <2>1 DEF Covered, Registered
    <2> QED  BY <1>o, <1>s, <2>1, <2>2, AtOption, GoesOn
<1>2. CASE Mount(o)
    <2> DEFINE ps == Closure(Roots(o))
    <2>1. /\ ~Off(o) /\ parts' = parts \cup Adds(o)
          /\ open' = open \cup Opened(ps) \cup (IF o = "gateway" THEN {"gateway"} ELSE {})
          /\ closers' = IF o = "gateway" THEN Append(closers, "gateway") ELSE closers
        BY <1>2 DEF Mount
    <2>2. /\ closers' # <<>>
          /\ \A x : (Covered(x) => Covered(x)') /\ (Registered(x) => Registered(x)')
          /\ o = "gateway" => Covered("gateway")'
        <3>1. CASE o = "gateway"
            BY <2>1, <3>1, <1>t, Adding DEF Cleanups, Closes
        <3>2. CASE o # "gateway"
            <4>1. closers' = closers /\ closers # <<>>
                BY <2>1, <3>2, <1>o, AtOption
            <4> QED  BY <3>2, <4>1 DEF Covered, Registered
        <3> QED  BY <3>1, <3>2
    <2>3. Covered("db")' /\ Covered("translator")'
        BY <2>2, <1>o, AtOption, RegisteredCovers
    <2>4. \A x \in open' : x \in open \/ Covered(x)'
        BY <2>1, <2>2, <2>3, OpenedType
    <2>5. open \subseteq open' /\ ("conn" \in open' => "conn" \in open) /\ ("pub" \in open' => "pub" \in open)
        BY <2>1, OpenedType
    <2>6. ASSUME NEW x \in Adds(o) PROVE Needs(x) \subseteq open'
        <3>1. {"telemetry", "db", "dedup"} \subseteq open'
            BY <2>5, <1>o, AtOption
        <3>2. CASE o = "api"
            <4>1. "Translator" \in ps
                BY <3>2, ClosureGrows DEF Roots, RootsOfAPI
            <4>2. "translator" \in open'
                BY <2>1, <4>1 DEF Opened
            <4> QED  BY <2>6, <3>1, <3>2, <4>2 DEF Adds, Needs
        <3>3. CASE o = "gateway"
            BY <2>1, <2>6, <3>1, <3>3 DEF Adds, Needs
        <3>4. CASE o \in {"grpc", "settings", "debug"}
            BY <2>6, <3>1, <3>4 DEF Adds, Needs
        <3>5. CASE o = "consumers"
            <4>1. cfg.broker
                BY <2>1, <3>5 DEF Off
            <4>2. "conn" \in open'
                BY <4>1, <2>5, <1>o, AtOption
            <4> QED  BY <2>6, <3>1, <3>5, <4>2 DEF Adds, Needs
        <3>6. CASE o = "workers"
            <4>1. cfg.broker => {"conn", "pub"} \subseteq open'
                BY <2>5, <1>o, AtOption
            <4>2. x \in {"imports", "count", "keeper"} \/ (x = "events" /\ cfg.broker)
                BY <2>6, <3>6 DEF Adds, Workers
            <4> QED  BY <3>1, <4>1, <4>2 DEF Needs
        <3> QED  BY <3>2, <3>3, <3>4, <3>5, <3>6 DEF OptionNames
    <2>7. \A x \in parts' : x \in parts \/ Needs(x) \subseteq open'
        BY <2>1, <2>6
    <2> QED  BY <1>o, <1>s, <2>2, <2>4, <2>5, <2>7, GoesOn
<1> QED  BY <1>1, <1>2

(* Every step keeps what the stages of a process promise. *)
LEMMA StageStep == IInv /\ [Next]_vars => StageInv'
<1> SUFFICES ASSUME IInv, [Next]_vars PROVE StageInv'
    OBVIOUS
<1>t. TypeOK /\ StageInv
    BY DEF IInv
<1>1. ASSUME NEW c \in Commands, NEW o \in Configs, Launch(c, o) PROVE StageInv'
    <2>1. /\ stage = "off" /\ UNCHANGED <<pc, held, parts, live>> /\ cfg' = o
          /\ stage' = IF o.unsafe THEN "exited" ELSE "starting"
        BY <1>1 DEF Launch
    <2> QED
        BY <2>1, <1>t DEF StageInv, OpenedSoFar, RegisteredSoFar
<1>2. CASE Wire \/ WireResource \/ InitEager \/ NewPublisher \/ InitAuditLog
    BY <1>2, InitializersStep
<1>3. CASE Dial
    <2>1. /\ stage = "starting" /\ pc = 4 /\ cfg.broker /\ open' = open \cup {"conn"}
          /\ UNCHANGED <<start, stage, pc, closers, parts, live>>
        BY <1>3, <1>t, Layout DEF Dial, At, TypeOK, OptionNames
    <2>2. \A x : (Covered(x) => Covered(x)') /\ (Registered(x) => Registered(x)')
        BY <2>1 DEF Covered, Registered
    <2>3. OpenedSoFar'
        BY <2>1, <1>t DEF StageInv, OpenedSoFar
    <2>4. RegisteredSoFar'
        BY <2>1, <2>2, <1>t DEF StageInv, RegisteredSoFar
    <2> QED  BY <2>1, <2>3, <2>4, <1>t DEF StageInv
<1>4. CASE InitFails
    <2>1. PICK opened : Abort(opened)
        BY <1>4 DEF InitFails
    <2>2. stage = "starting"
        BY <1>4 DEF InitFails, At
    <2>3. stage' \in {"exited", "closing"} /\ UNCHANGED <<cfg, live>>
        BY <2>1 DEF Abort, End
    <2> QED  BY <2>2, <2>3, <1>t DEF StageInv
<1>5. ASSUME NEW o \in OptionNames, Skip(o) \/ Mount(o) PROVE StageInv'
    BY <1>5, OptionsStep
<1>6. ASSUME NEW o \in OptionNames, Refuse(o) \/ Die(o) PROVE StageInv'
    <2>1. stage = "starting" /\ stage' \in {"exited", "closing"} /\ UNCHANGED <<cfg, live>>
        BY <1>6 DEF Refuse, Die, End, At
    <2> QED  BY <2>1, <1>t DEF StageInv
<1>7. CASE Run
    <2>1. /\ stage = "starting" /\ stage' = "running" /\ live' = parts
          /\ UNCHANGED <<cfg, open>>
        BY <1>7 DEF Run
    <2> QED  BY <2>1, <1>t DEF StageInv, OpenedSoFar
<1>8. CASE Stop
    BY <1>8, <1>t DEF Stop, StageInv
<1>9. ASSUME NEW x \in Parts, StopPart(x) PROVE StageInv'
    BY <1>9, <1>t DEF StopPart, StageInv
<1>10. CASE Release
    BY <1>10, <1>t DEF Release, StageInv
<1>11. CASE ClosePublisher \/ CloseLast
    BY <1>11, <1>t DEF ClosePublisher, CloseLast, StageInv
<1>12. CASE Exit
    BY <1>12, <1>t DEF Exit, StageInv
<1>13. CASE Write \/ PollRead \/ PollStore \/ UNCHANGED vars
    <2>1. UNCHANGED <<start, stage, pc, held, parts, live, late>>
        BY <1>13 DEF Write, PollRead, PollStore, vars
    <2>2. OpenedSoFar' <=> OpenedSoFar
        BY <2>1 DEF OpenedSoFar
    <2>3. RegisteredSoFar' <=> RegisteredSoFar
        BY <2>1 DEF RegisteredSoFar, Registered, Covered
    <2> QED  BY <2>1, <2>2, <2>3, <1>t DEF StageInv
<1> QED
    BY <1>1, <1>2, <1>3, <1>4, <1>5, <1>6, <1>7, <1>8, <1>9, <1>10, <1>11, <1>12, <1>13
       DEF Next, Start, InitStep, OptionStep, Shutdown

(* Every step leaves a cleanup for what is open, and nothing open at the   *)
(* end of a shutdown.                                                      *)
LEMMA LeakStep == IInv /\ [Next]_vars => NothingLeaks'
<1> SUFFICES ASSUME IInv, [Next]_vars PROVE NothingLeaks'
    OBVIOUS
<1>t. TypeOK /\ StageInv /\ NothingLeaks /\ closers \in Seq(Cleanups)
    BY DEF IInv, TypeOK
<1>s. ASSUME UNCHANGED <<cfg, stage, outcome, held>> PROVE NothingLeaks'
    BY <1>s, <1>t DEF NothingLeaks, Covered
<1>a. ASSUME stage' = "starting", ~cfg'.unsafe PROVE NothingLeaks'
    BY <1>a DEF NothingLeaks
<1>b. ASSUME stage = "starting", cfg' = cfg, closers' = closers,
             outcome' \notin {"option", "stopped"} \/ stage' # "exited",
             \A x \in open' : Covered(x)
      PROVE  NothingLeaks'
    <2>1. \A x : Covered(x) => Covered(x)'
        BY <1>b DEF Covered
    <2>2. ~cfg.unsafe
        BY <1>b, <1>t DEF StageInv
    <2> QED  BY <1>b, <2>1, <2>2 DEF NothingLeaks
<1>u. stage = "starting" => ~cfg.unsafe
    BY <1>t DEF StageInv
<1>1. ASSUME NEW c \in Commands, NEW o \in Configs, Launch(c, o) PROVE NothingLeaks'
    BY <1>1, <1>t DEF Launch, StageInv, NothingLeaks
<1>2. CASE Wire \/ WireResource \/ InitEager \/ Dial \/ NewPublisher \/ InitAuditLog
    <2>1. stage = "starting" /\ stage' = "starting" /\ cfg' = cfg
        BY <1>2 DEF Wire, WireResource, InitEager, Dial, NewPublisher, InitAuditLog, Advance, At
    <2> QED  BY <2>1, <1>a, <1>u
<1>3. ASSUME NEW o \in OptionNames, Skip(o) \/ Mount(o) PROVE NothingLeaks'
    <2>1. stage = "starting" /\ stage' = "starting" /\ cfg' = cfg
        BY <1>3 DEF Skip, Mount, Advance, At
    <2> QED  BY <2>1, <1>a, <1>u
<1>4. CASE InitFails
    <2>1. PICK opened : /\ Abort(opened)
                        /\ \/ opened = open /\ (At("broker") => "conn" \notin open)
                           \/ opened = open \ {"conn"}
        <3>1. CASE At("broker") /\ "conn" \in open
            <4>1. ~ (At("telemetry") \/ At("auditlog") \/ At("dedup") \/ At("auth"))
                BY <3>1 DEF At
            <4> QED  BY <1>4, <3>1, <4>1 DEF InitFails
        <3>2. CASE ~(At("broker") /\ "conn" \in open)
            BY <1>4, <3>2 DEF InitFails
        <3> QED  BY <3>1, <3>2
    <2>2. stage = "starting" /\ \E s : At(s)
        BY <1>4 DEF InitFails, At
    <2>3. /\ open' = opened /\ closers' = closers /\ outcome' = "init" /\ cfg' = cfg
        BY <2>1 DEF Abort, End
    <2>4. pc = 4 => At("broker")
        BY <2>2, <1>t, Layout DEF TypeOK
    <2>5. \A x \in open' : Covered(x)
        BY <2>1, <2>2, <2>3, <2>4, <1>t DEF StageInv, RegisteredSoFar
    <2> QED  BY <2>2, <2>3, <2>5, <1>b
<1>5. ASSUME NEW o \in OptionNames, Refuse(o) PROVE NothingLeaks'
    <2>1. PICK ps : Build(ps)
        BY <1>5 DEF Refuse
    <2>2. At(o) /\ stage' = "closing" /\ closers' = closers /\ cfg' = cfg
        BY <1>5 DEF Refuse, End
    <2>3. \A x \in open' : Covered(x)
        BY <2>1, <2>2, AtOption, RegisteredCovers, OpenedType DEF Build
    <2> QED  BY <2>2, <2>3, <1>b, AtOption
<1>6. ASSUME NEW o \in OptionNames, Die(o) PROVE NothingLeaks'
    <2>1. At(o) /\ outcome' = "died" /\ closers' = closers /\ open' = open /\ cfg' = cfg
        BY <1>6 DEF Die, End
    <2> QED  BY <2>1, <1>b, AtOption
<1>7. CASE Run
    <2>1. /\ stage = "starting" /\ stage' = "running" /\ pc > Len(steps)
          /\ closers' = closers /\ open' = open /\ cfg' = cfg
        BY <1>7 DEF Run
    <2>2. pc # 4
        BY <2>1, <1>t, Steps DEF TypeOK
    <2>3. \A x \in open : Covered(x)
        BY <2>1, <2>2, <1>t DEF StageInv, RegisteredSoFar
    <2> QED  BY <2>1, <2>3, <1>b
<1>8. CASE Stop \/ Release
    <2>1. /\ stage \in {"running", "stopping"} /\ stage' \in {"stopping", "closing"}
          /\ UNCHANGED <<cfg, held>>
        BY <1>8 DEF Stop, Release
    <2> QED  BY <2>1, <1>t DEF StageInv, NothingLeaks, Covered
<1>9. ASSUME NEW x \in Parts, StopPart(x) PROVE NothingLeaks'
    BY <1>9, <1>s DEF StopPart
<1>10. CASE ClosePublisher
    <2>1. stage = "closing" /\ stage' = "closing" /\ open' \subseteq open /\ UNCHANGED <<cfg, closers>>
        BY <1>10 DEF ClosePublisher
    <2> QED  BY <2>1, <1>t DEF StageInv, NothingLeaks, Covered
<1>11. CASE CloseLast
    <2>1. /\ stage = "closing" /\ stage' = "closing" /\ closers # <<>> /\ cfg' = cfg
          /\ closers' = SubSeq(closers, 1, Len(closers) - 1)
          /\ open' = open \ Closes(Last) /\ (Last = "broker" => "pub" \notin open)
        BY <1>11 DEF CloseLast
    <2>2. \A x : Covered(x) /\ x \notin Closes(Last) /\ (x = "pub" => Last # "broker") => Covered(x)'
        BY <2>1, <1>t, Removing
    <2>3. \A x \in open' : Covered(x)'
        BY <2>1, <2>2, <1>t DEF NothingLeaks
    <2> QED  BY <2>1, <2>3, <1>t DEF StageInv, NothingLeaks
<1>12. CASE Exit
    <2>1. stage = "closing" /\ closers = <<>> /\ UNCHANGED <<cfg, outcome, held>>
        BY <1>12 DEF Exit
    <2>2. open = {}
        BY <2>1, <1>t DEF NothingLeaks, Covered
    <2> QED  BY <2>1, <2>2, <1>t DEF StageInv, NothingLeaks
<1>13. CASE Write \/ PollRead \/ PollStore \/ UNCHANGED vars
    BY <1>13, <1>s DEF Write, PollRead, PollStore, vars
<1> QED
    BY <1>1, <1>2, <1>3, <1>4, <1>5, <1>6, <1>7, <1>8, <1>9, <1>10, <1>11, <1>12, <1>13
       DEF Next, Start, InitStep, OptionStep, Shutdown

(* Every step leaves the connection under the publisher. *)
LEMMA PublisherStep ==
    IInv /\ [Next]_vars => ("pub" \in open' => "conn" \in open')
<1> SUFFICES ASSUME IInv, [Next]_vars, "pub" \in open' PROVE "conn" \in open'
    OBVIOUS
<1>t. TypeOK /\ StageInv /\ ("pub" \in open => "conn" \in open)
    BY DEF IInv, NeedsMet
<1>s. ASSUME open \subseteq open', "pub" \in open' => "pub" \in open PROVE "conn" \in open'
    BY <1>s, <1>t
<1>1. CASE NewPublisher
    BY <1>1 DEF NewPublisher
<1>2. CASE CloseLast
    <2>1. Last \in Cleanups
        <3>1. closers \in Seq(Cleanups) /\ closers # <<>>
            BY <1>2, <1>t DEF CloseLast, TypeOK
        <3>2. Len(closers) \in 1 .. Len(closers)
            BY <3>1
        <3> QED  BY <3>1, <3>2, ElementOfSeq DEF Last
    <2>2. "conn" \in Closes(Last) => Last = "broker"
        BY <2>1 DEF Closes, Cleanups
    <2> QED  BY <1>2, <2>2, <1>t DEF CloseLast
<1>3. CASE InitFails
    <2>1. Abort(open) \/ (Abort(open \ {"conn"}) /\ At("broker"))
        BY <1>3 DEF InitFails
    <2>2. At("broker") => "pub" \notin open
        <3> SUFFICES ASSUME At("broker") PROVE "pub" \notin open
            OBVIOUS
        <3>1. pc = 4 /\ stage = "starting"
            BY <1>t, Layout DEF At, TypeOK, OptionNames
        <3> QED  BY <3>1, <1>t DEF StageInv, OpenedSoFar
    <2> QED  BY <2>1, <2>2, <1>t DEF Abort
<1>4. CASE ClosePublisher
    BY <1>4 DEF ClosePublisher
<1>5. CASE Wire \/ WireResource \/ Dial \/ InitEager
    BY <1>5, <1>s DEF Wire, WireResource, Dial, InitEager
<1>6. CASE InitAuditLog
    BY <1>6, <1>s, OpenedType DEF InitAuditLog, Build
<1>7. ASSUME NEW o \in OptionNames, Skip(o) \/ Mount(o) \/ Refuse(o) \/ Die(o)
      PROVE  "conn" \in open'
    BY <1>7, <1>s, OpenedType DEF Skip, Mount, Refuse, Build, Die
<1>8. CASE Run \/ Stop \/ Release \/ Exit \/ Write \/ PollRead \/ PollStore \/ UNCHANGED vars
    BY <1>8, <1>s DEF Run, Stop, Release, Exit, Write, PollRead, PollStore, vars
<1>9. ASSUME NEW x \in Parts, StopPart(x) PROVE "conn" \in open'
    BY <1>9, <1>s DEF StopPart
<1>10. ASSUME NEW c \in Commands, NEW o \in Configs, Launch(c, o) PROVE "conn" \in open'
    BY <1>10, <1>s DEF Launch
<1> QED
    BY <1>1, <1>2, <1>3, <1>4, <1>5, <1>6, <1>7, <1>8, <1>9, <1>10
       DEF Next, Start, InitStep, OptionStep, Shutdown

(* What runs and what is open has what it stands on, by the stages and by  *)
(* the order of the closer.                                                *)
LEMMA Stands ==
    ASSUME TypeOK, StageInv, CloserInv, NothingLeaks, "pub" \in open => "conn" \in open
    PROVE  NeedsMet
<1>1. ~late => \A x \in live : Needs(x) \subseteq open
    BY DEF TypeOK, StageInv
<1>2. ASSUME NEW x \in open PROVE "telemetry" \in open
    <2>1. CASE stage = "starting"
        BY <1>2, <2>1 DEF StageInv, OpenedSoFar, TypeOK
    <2>2. CASE stage # "starting"
        <3>1. Covered(x)
            BY <1>2, <2>2 DEF NothingLeaks
        <3>2. closers # <<>>
            BY <3>1 DEF Covered
        <3> QED  BY <3>2 DEF CloserInv
    <2> QED  BY <2>1, <2>2
<1> QED  BY <1>1, <1>2 DEF NeedsMet

-----------------------------------------------------------------------------
(* The strengthening of the properties is an invariant. *)
THEOREM Invariance == Spec => []IInv
<1>1. IInv /\ [Next]_vars => IInv'
    <2> SUFFICES ASSUME IInv, [Next]_vars PROVE IInv'
        OBVIOUS
    <2>1. /\ TypeOK' /\ StageInv' /\ CloserInv' /\ PollInv' /\ CachedWasTrue'
          /\ NothingLeaks' /\ InstallOnly' /\ ("pub" \in open' => "conn" \in open')
        BY TypeStep, StageStep, CloserStep, PollStep, LeakStep, InstallStep, PublisherStep DEF IInv
    <2>2. NeedsMet'
        <3>1. ("pub" \in open => "conn" \in open)'
            BY <2>1
        <3> QED  BY <2>1, <3>1, Stands, PTL
    <2> QED  BY <2>1, <2>2 DEF IInv
<1> QED  BY InitInv, <1>1, PTL DEF Spec

(* The variables have their types. *)
THEOREM TypeCorrect == Spec => []TypeOK
BY Invariance, PTL DEF IInv

(* What runs, and what is open, has what it stands on, from the first part *)
(* to the last cleanup.                                                    *)
THEOREM NeedsAreMet == Spec => []NeedsMet
BY Invariance, PTL DEF IInv

(* What is open has its cleanup, and a refused start and a stopped process *)
(* leave nothing open.                                                     *)
THEOREM NothingIsLeaked == Spec => []NothingLeaks
BY Invariance, PTL DEF IInv

(* Only a process that serves the API builds what only the API needs.      *)
THEOREM OnlyInstallBuilds == Spec => []InstallOnly
BY Invariance, PTL DEF IInv

(* A start and a shutdown have boundedly many steps, whatever runs beside  *)
(* them, and a process never goes back to a stage it has left.             *)
THEOREM StartsAndShutdownsRunDown == Spec => StartAndShutdownEnd
<1>1. IInv /\ [Next]_vars => [Onward]_vars
    <2> SUFFICES ASSUME IInv, Next PROVE Onward
        OBVIOUS
    <2>0. /\ Len(steps) \in Nat /\ pc \in Nat /\ closers \in Seq(Cleanups)
          /\ Len(closers) \in Nat
        BY Steps DEF IInv, TypeOK
    <2>1. ASSUME Advance, NEW s, At(s), "conn" \in open => "conn" \in open' PROVE Onward
        <3>1. /\ stage = "starting" /\ stage' = stage /\ pc <= Len(steps) /\ pc' = pc + 1
              /\ cmd' = cmd
            BY <2>1 DEF Advance, At, start
        <3>2. steps' = steps
            BY <3>1 DEF steps
        <3> DEFINE a == IF "conn" \in open THEN 0 ELSE 1
                   b == IF "conn" \in open' THEN 0 ELSE 1
                   n == Len(steps)
        <3>3. StepsLeft = 2 * (n + 1 - pc) + a /\ StepsLeft' = 2 * (n + 1 - (pc + 1)) + b
            BY <3>1, <3>2 DEF StepsLeft
        <3>4. a \in {0, 1} /\ b \in {0, 1} /\ b <= a
            BY <2>1
        <3>5. n \in Nat /\ pc <= n
            BY <2>0, <3>1
        <3> HIDE DEF a, b, n
        <3>6. 2 * (n + 1 - (pc + 1)) + b \in 0 .. (2 * (n + 1 - pc) + a - 1)
            BY <2>0, <3>4, <3>5
        <3>7. StepsLeft' \in 0 .. (StepsLeft - 1)
            BY <2>0, <3>3, <3>4, <3>5, <3>6
        <3> QED  BY <3>1, <3>7 DEF Onward
    <2>2. CASE InitStep
        <3>1. CASE Wire
            BY <2>1, <3>1 DEF Wire, held
        <3>2. CASE WireResource
            BY <2>1, <3>2 DEF WireResource
        <3>3. CASE InitEager
            BY <2>1, <3>3 DEF InitEager
        <3>4. CASE NewPublisher
            BY <2>1, <3>4 DEF NewPublisher
        <3>5. CASE InitAuditLog
            BY <2>1, <3>5 DEF InitAuditLog, Build
        <3>6. CASE InitFails
            BY <3>6 DEF InitFails, Abort, End, At, Onward, Place
        <3>7. CASE Dial
            <4>1. /\ stage = "starting" /\ stage' = stage /\ pc' = pc /\ cmd' = cmd
                  /\ pc <= Len(steps) /\ "conn" \notin open /\ "conn" \in open'
                BY <3>7 DEF Dial, At, start
            <4>2. steps' = steps
                BY <4>1 DEF steps
            <4> DEFINE n == Len(steps)
            <4>3. StepsLeft = 2 * (n + 1 - pc) + 1 /\ StepsLeft' = 2 * (n + 1 - pc) + 0
                BY <4>1, <4>2 DEF StepsLeft
            <4>4. n \in Nat /\ pc <= n
                BY <2>0, <4>1
            <4> HIDE DEF n
            <4>5. 2 * (n + 1 - pc) + 0 \in 0 .. (2 * (n + 1 - pc) + 1 - 1)
                BY <2>0, <4>4
            <4>6. StepsLeft' \in 0 .. (StepsLeft - 1)
                BY <2>0, <4>3, <4>4, <4>5
            <4> QED  BY <4>1, <4>6 DEF Onward
        <3> QED  BY <2>2, <3>1, <3>2, <3>3, <3>4, <3>5, <3>6, <3>7 DEF InitStep
    <2>3. CASE OptionStep
        <3>1. PICK o \in OptionNames : Skip(o) \/ Mount(o) \/ Refuse(o) \/ Die(o)
            BY <2>3 DEF OptionStep
        <3>2. CASE Skip(o)
            BY <2>1, <3>2 DEF Skip, held
        <3>3. CASE Mount(o)
            BY <2>1, <3>3 DEF Mount
        <3>4. CASE Refuse(o) \/ Die(o)
            BY <3>4 DEF Refuse, Die, At, End, Onward, Place
        <3> QED  BY <3>1, <3>2, <3>3, <3>4
    <2>4. CASE Shutdown
        <3>1. CASE Release \/ Exit
            BY <3>1 DEF Release, Exit, Onward, Place
        <3>2. CASE ClosePublisher
            <4>1. /\ stage = "closing" /\ stage' = stage /\ closers' = closers
                  /\ "pub" \in open /\ "pub" \notin open'
                BY <3>2 DEF ClosePublisher
            <4>2. StepsLeft = 2 * Len(closers) + 1 /\ StepsLeft' = 2 * Len(closers) + 0
                BY <4>1 DEF StepsLeft
            <4> QED  BY <2>0, <4>1, <4>2 DEF Onward
        <3>3. CASE CloseLast
            <4>1. /\ stage = "closing" /\ stage' = stage /\ open' \subseteq open
                  /\ closers # <<>> /\ closers' = SubSeq(closers, 1, Len(closers) - 1)
                BY <3>3 DEF CloseLast
            <4> DEFINE m == Len(closers) - 1
                       a == IF "pub" \in open THEN 1 ELSE 0
                       b == IF "pub" \in open' THEN 1 ELSE 0
            <4>2. m \in Nat
                BY <2>0, <4>1
            <4>3. Len(closers') = m
                <5> HIDE DEF m
                <5>1. m < Len(closers) /\ \A i \in 1 .. m : closers[i] \in Cleanups
                    BY <2>0, <4>2 DEF m
                <5>2. closers' = SubSeq(closers, 1, m)
                    BY <4>1 DEF m
                <5> QED  BY <4>2, <5>1, <5>2, SubSeqProperties
            <4>4. StepsLeft = 2 * Len(closers) + a /\ StepsLeft' = 2 * Len(closers') + b
                BY <4>1 DEF StepsLeft
            <4>5. a \in {0, 1} /\ b \in {0, 1} /\ b <= a /\ Len(closers) = m + 1
                BY <2>0, <4>1
            <4> HIDE DEF m, a, b
            <4>6. 2 * m + b \in 0 .. (2 * (m + 1) + a - 1)
                BY <4>2, <4>5
            <4> QED  BY <4>1, <4>3, <4>4, <4>5, <4>6 DEF Onward
        <3> QED  BY <2>4, <3>1, <3>2, <3>3 DEF Shutdown
    <2>5. CASE \E c \in Commands, o \in Configs : Launch(c, o)
        BY <2>5 DEF Launch, Onward, Place
    <2>6. CASE Run \/ Stop
        BY <2>6 DEF Run, Stop, Onward, Place
    <2>7. CASE (\E x \in Parts : StopPart(x)) \/ Write \/ PollRead \/ PollStore
        BY <2>7 DEF StopPart, Write, PollRead, PollStore, Onward
    <2> QED  BY <2>2, <2>3, <2>4, <2>5, <2>6, <2>7 DEF Next, Start
<1> QED  BY <1>1, Invariance, PTL DEF Spec, StartAndShutdownEnd

(* The cached count is one the table had while the process ran, or zero.   *)
THEOREM CountWasTrue == Spec => []CachedWasTrue
BY Invariance, PTL DEF IInv
=============================================================================
