------------------------------ MODULE Process -------------------------------
(***************************************************************************)
(* The life of one process of the service: the configuration is validated, *)
(* the initializers of deps run, the options of its command add servers,   *)
(* workers and consumers, app.Run supervises them until SIGTERM, and the   *)
(* closer releases what was opened, last in first out.  With it runs the   *)
(* poller of the widget count, which only some processes have.             *)
(*                                                                         *)
(* app, closer and dim are libraries, modelled as the code uses them: a    *)
(* provider is built on its first use, with the providers it calls; a      *)
(* provider that can not be built fails the start, cleanups or not; so     *)
(* does an initializer.  Other processes write the table of widgets.       *)
(***************************************************************************)
EXTENDS Naturals, Sequences

CONSTANTS
    Configs,    \* configurations a process may be started with
    MaxRows,    \* bound: widgets in the table
    MaxWrites   \* bound: writes of other processes while this one runs

Addrs == {"http", "grpc", "gateway", "debug"}
Config == [unsafe: BOOLEAN, broker: BOOLEAN, auth: BOOLEAN, disabled: BOOLEAN,
           addrs: SUBSET Addrs]

ASSUME ProcessAssumption ==
    Configs \subseteq Config /\ MaxRows \in Nat /\ MaxWrites \in Nat

-----------------------------------------------------------------------------
(* What is composed. *)

Initializers ==
    <<"telemetry", "store", "queue", "broker", "translator", "translation", "auth",
      "bus", "auditlog", "dedup", "cores", "handlers">>

Commands == {"serve", "http", "worker", "consumer"}

ServeOptions == <<"api", "grpc", "gateway", "settings", "debug", "workers", "consumers">>
HTTPOptions == <<"api", "grpc", "gateway", "settings", "debug">>
WorkerOptions == <<"debug", "workers">>
ConsumerOptions == <<"debug", "consumers">>

Options(c) ==
    CASE c = "serve" -> ServeOptions [] c = "http" -> HTTPOptions
      [] c = "worker" -> WorkerOptions [] OTHER -> ConsumerOptions

Providers ==
    {"DB", "Queue", "Registry", "BrokerConn", "Events", "Translator", "Translation", "Bus",
     "AuditLog", "Dedup", "WidgetSettings", "WidgetCore", "WidgetImport", "WidgetCount",
     "WidgetHandler", "WidgetGRPC", "UserCore", "UserHandler", "ProductCore", "ProductHandler"}

(* The providers a provider calls. *)
UsesOfWidgets(x) ==
    CASE x = "WidgetSettings" -> {"DB"}
      [] x = "WidgetCore" -> {"DB", "Queue", "Registry", "Bus", "WidgetSettings"}
      [] x = "WidgetImport" -> {"DB", "WidgetSettings", "Queue"}
      [] x \in {"WidgetCount", "WidgetGRPC"} -> {"WidgetCore"}
      [] x = "WidgetHandler" ->
            {"WidgetCore", "WidgetImport", "WidgetCount", "WidgetSettings", "Translation"}
      [] OTHER -> {}

UsesOfUsers(x) ==
    CASE x = "UserCore" -> {"DB"} [] x = "UserHandler" -> {"UserCore"} [] OTHER -> {}

UsesOfProducts(x) ==
    CASE x = "ProductCore" -> {"DB"} [] x = "ProductHandler" -> {"ProductCore"} [] OTHER -> {}

UsesOfStores(x) == IF x \in {"Queue", "Translation", "AuditLog"} THEN {"DB"} ELSE {}

Uses(x) == UsesOfStores(x) \cup UsesOfWidgets(x) \cup UsesOfUsers(x) \cup UsesOfProducts(x)

WithUses(ps) == ps \cup UNION {Uses(x) : x \in ps}

(* With all they call; the longest chain ends in the handler of widgets.   *)
Closure(ps) == WithUses(WithUses(WithUses(WithUses(ps))))

(* Providers whose construction may fail: a connection, a schema, a read.  *)
Fallible == {"DB", "Queue", "Translator", "Translation", "AuditLog", "WidgetSettings"}

Resources == {"telemetry", "db", "conn", "pub", "translator", "dedup", "gateway"}

(* Lazy resources: opened with their provider. *)
Opened(ps) ==
    (IF "DB" \in ps THEN {"db"} ELSE {}) \cup (IF "Translator" \in ps THEN {"translator"} ELSE {})

Cleanups == {"telemetry", "store", "broker", "translator", "dedup", "gateway"}

(* What a cleanup closes; of the broker, the publisher first. *)
Closes(c) ==
    CASE c = "store" -> {"db"} [] c = "broker" -> {"conn"} [] OTHER -> {c}

Parts == {"api", "grpc", "gateway", "settings", "debug", "imports", "count", "events",
          "keeper", "consumer"}

(* The resources a running part works with. *)
Needs(x) ==
    {"telemetry"} \cup
    CASE x = "api" -> {"db", "translator", "dedup"}
      [] x = "gateway" -> {"gateway"}
      [] x = "events" -> {"db", "conn", "pub"}
      [] x = "consumer" -> {"db", "conn", "dedup"}
      [] OTHER -> {"db"}

-----------------------------------------------------------------------------
VARIABLES
    cmd, cfg,   \* the command and its configuration
    stage,      \* off, starting, running, stopping, closing or exited
    outcome,    \* how it came to its end
    pc,         \* the next initializer or option
    built,      \* providers built
    open,       \* resources open
    closers,    \* cleanups of the closer, in the order they were added
    parts,      \* parts added
    live,       \* parts that run
    late,       \* parts outlived the timeout of the shutdown
    size,       \* widgets in the table
    writes,     \* writes of other processes
    seen,       \* history: sizes of the table while the process ran
    polled,     \* sizes a poll has read and not stored: none or one
    cached      \* the cached count

start == <<cmd, cfg>>
held == <<built, open, closers>>
poll == <<size, writes, seen, polled, cached>>
vars == <<start, stage, outcome, pc, held, parts, live, late, poll>>

steps == Initializers \o Options(cmd)

At(s) == stage = "starting" /\ pc <= Len(steps) /\ steps[pc] = s

Advance == pc' = pc + 1 /\ UNCHANGED <<start, stage, outcome, live, late, poll>>

End(how, next) ==
    /\ outcome' = how
    /\ stage' = next
    /\ UNCHANGED <<start, pc, parts, live, late, poll>>

-----------------------------------------------------------------------------
(* run: Validate, then server.New. *)

Launch(c, o) ==
    /\ stage = "off"
    /\ cmd' = c /\ cfg' = o
    /\ IF o.unsafe
       THEN stage' = "exited" /\ outcome' = "rejected"
       ELSE stage' = "starting" /\ UNCHANGED outcome
    /\ UNCHANGED <<pc, held, parts, live, late, poll>>

(* Initializers that only set providers, or nothing while they are off. *)
Wiring == {"queue", "translation", "auth", "bus", "cores", "handlers"}

Wire ==
    /\ (\E s \in Wiring : At(s)) \/ (At("broker") /\ ~cfg.broker)
    /\ Advance
    /\ UNCHANGED <<held, parts>>

(* Resources opened when their provider is; the cleanup knows. *)
WireResource ==
    /\ \E c \in {"store", "translator"} :
          At(c) /\ closers' = Append(closers, c)
    /\ Advance
    /\ UNCHANGED <<built, open, parts>>

InitEager ==
    /\ \E c \in {"telemetry", "dedup"} :
          At(c) /\ open' = open \cup {c} /\ closers' = Append(closers, c)
    /\ Advance
    /\ UNCHANGED <<built, parts>>

Dial ==
    /\ At("broker") /\ cfg.broker /\ "conn" \notin open
    /\ open' = open \cup {"conn"}
    /\ UNCHANGED <<start, stage, outcome, pc, built, closers, parts, live, late, poll>>

NewPublisher ==
    /\ At("broker") /\ "conn" \in open
    /\ open' = open \cup {"pub"}
    /\ closers' = Append(closers, "broker")
    /\ Advance
    /\ UNCHANGED <<built, parts>>

(* Build providers, and open what is lazy about them. *)
Build(ps) ==
    /\ built' = built \cup Closure(ps)
    /\ open' = open \cup Opened(Closure(ps))

(* Mutant: the translations are built with the audit log. *)
InitEverything ==
    /\ At("auditlog")
    /\ Build({"Bus", "AuditLog", "Translation"})
    /\ Advance
    /\ UNCHANGED <<closers, parts>>

(* The audit log is built at once: the bus needs its consumer. *)
InitAuditLog ==
    /\ At("auditlog")
    /\ Build({"Bus", "AuditLog"})
    /\ Advance
    /\ UNCHANGED <<closers, parts>>

(* app.InitDeps fails; what it does with the cleanups it has is its own.   *)
Abort(opened) ==
    /\ open' = opened
    /\ End("init", "exited") \/ End("init", "closing")
    /\ UNCHANGED <<built, closers>>

InitFails ==
    \/ /\ At("telemetry") \/ At("auditlog") \/ At("dedup") \/ (At("auth") /\ cfg.auth)
          \/ (At("broker") /\ cfg.broker /\ "conn" \notin open)
       /\ Abort(open)
    \/ At("broker") /\ "conn" \in open /\ Abort(open \ {"conn"})

-----------------------------------------------------------------------------
(* The options. *)

Off(o) ==
    CASE o = "api" -> "http" \notin cfg.addrs
      [] o \in {"grpc", "debug"} -> o \notin cfg.addrs
      [] o = "gateway" -> ~ {"gateway", "grpc"} \subseteq cfg.addrs
      [] o = "workers" -> cfg.disabled /\ ~cfg.broker
      [] o = "consumers" -> ~cfg.broker
      [] OTHER -> FALSE

Workers ==
    (IF cfg.disabled THEN {} ELSE {"imports", "count"})
        \cup (IF cfg.broker THEN {"events", "keeper"} ELSE {})

Adds(o) == CASE o = "workers" -> Workers [] o = "consumers" -> {"consumer"} [] OTHER -> {o}

(* The providers an option asks for. *)
RootsOfAPI ==
    {"Translator", "Translation", "WidgetHandler", "UserHandler", "Dedup", "ProductHandler",
     "AuditLog"}

RootsOfGRPC == {"WidgetGRPC"}

RootsOfWorkers ==
    (IF cfg.disabled THEN {} ELSE {"WidgetImport", "WidgetCount"})
        \cup (IF cfg.broker THEN {"Events", "Registry", "Queue", "DB"} ELSE {})

RootsOfConsumers == {"DB", "Dedup", "BrokerConn"}

Roots(o) ==
    CASE o = "api" -> RootsOfAPI
      [] o \in {"grpc", "gateway"} -> RootsOfGRPC
      [] o = "settings" -> {"WidgetSettings"}
      [] o = "workers" -> RootsOfWorkers
      [] o = "consumers" -> RootsOfConsumers
      [] OTHER -> {}

OptionNames == {"api", "grpc", "gateway", "settings", "debug", "workers", "consumers"}

Skip(o) == At(o) /\ Off(o) /\ Advance /\ UNCHANGED <<held, parts>>

Mount(o) ==
    /\ At(o) /\ ~Off(o)
    /\ built' = built \cup Closure(Roots(o))
    /\ open' = open \cup Opened(Closure(Roots(o)))
                    \cup (IF o = "gateway" THEN {"gateway"} ELSE {})
    /\ closers' = IF o = "gateway" THEN Append(closers, "gateway") ELSE closers
    /\ parts' = parts \cup Adds(o)
    /\ Advance

(* Mutant: New returns the error of an option and no more. *)
RefuseOpen(o) ==
    /\ o \in {"gateway", "workers", "consumers"} /\ At(o) /\ ~Off(o)
    /\ \E ps \in SUBSET Roots(o) : Build(ps)
    /\ End("option", "exited")
    /\ UNCHANGED closers

(* An option returns an error, with some of its providers built: New       *)
(* releases what there is.                                                 *)
Refuse(o) ==
    /\ o \in {"gateway", "workers", "consumers"} /\ At(o) /\ ~Off(o)
    /\ \E ps \in SUBSET Roots(o) : Build(ps)
    /\ End("option", "closing")
    /\ UNCHANGED closers

(* A provider of the option can not be built. *)
Die(o) ==
    /\ At(o) /\ ~Off(o)
    /\ (Closure(Roots(o)) \ built) \cap Fallible # {}
    /\ End("died", "exited")
    /\ UNCHANGED held

-----------------------------------------------------------------------------
(* app.Run. *)

Run ==
    /\ stage = "starting" /\ pc > Len(steps)
    /\ stage' = "running" /\ live' = parts
    /\ seen' = {size}
    /\ UNCHANGED <<start, outcome, pc, held, parts, late, size, writes, polled, cached>>

(* SIGTERM, or a part that failed. *)
Stop ==
    /\ stage = "running"
    /\ stage' = "stopping" /\ outcome' = "stopped"
    /\ UNCHANGED <<start, pc, held, parts, live, late, poll>>

StopPart(x) ==
    /\ stage = "stopping" /\ x \in live
    /\ live' = live \ {x}
    /\ UNCHANGED <<start, stage, outcome, pc, held, parts, late, poll>>

(* Mutant: the shutdown waits for its parts. *)
ReleaseWhenDown ==
    /\ stage = "stopping" /\ live = {}
    /\ stage' = "closing" /\ late' = FALSE
    /\ UNCHANGED <<start, outcome, pc, held, parts, live, poll>>

(* All parts are down, or the timeout of the shutdown is over. *)
Release ==
    /\ stage = "stopping"
    /\ stage' = "closing" /\ late' = (live # {})
    /\ UNCHANGED <<start, outcome, pc, held, parts, live, poll>>

-----------------------------------------------------------------------------
(* closer.CloseSync: last in, first out. *)

Last == closers[Len(closers)]

ClosePublisher ==
    /\ stage = "closing" /\ closers # <<>> /\ Last = "broker" /\ "pub" \in open
    /\ open' = open \ {"pub"}
    /\ UNCHANGED <<start, stage, outcome, pc, built, closers, parts, live, late, poll>>

(* Mutant: first in, first out. *)
CloseFirst ==
    /\ stage = "closing" /\ closers # <<>>
    /\ open' = open \ (Closes(Head(closers)) \cup {"pub"})
    /\ closers' = Tail(closers)
    /\ UNCHANGED <<start, stage, outcome, pc, built, parts, live, late, poll>>

CloseLast ==
    /\ stage = "closing" /\ closers # <<>>
    /\ Last = "broker" => "pub" \notin open
    /\ open' = open \ Closes(Last)
    /\ closers' = SubSeq(closers, 1, Len(closers) - 1)
    /\ UNCHANGED <<start, stage, outcome, pc, built, parts, live, late, poll>>

Exit ==
    /\ stage = "closing" /\ closers = <<>>
    /\ stage' = "exited" /\ live' = {}
    /\ UNCHANGED <<start, outcome, pc, held, parts, late, poll>>

-----------------------------------------------------------------------------
(* The table, and the poller of the count. *)

Write ==
    /\ stage = "running" /\ writes < MaxWrites
    /\ size' \in {size + 1, size - 1} \cap (0 .. MaxRows)
    /\ writes' = writes + 1 /\ seen' = seen \cup {size'}
    /\ UNCHANGED <<start, stage, outcome, pc, held, parts, live, late, polled, cached>>

(* Mutant: the first count is kept. *)
PollOnce ==
    /\ "count" \in live /\ polled = {} /\ "db" \in open /\ cached = 0
    /\ polled' = {size}
    /\ UNCHANGED <<start, stage, outcome, pc, held, parts, live, late, size, writes, seen, cached>>

(* A poll that fails, or runs into its timeout, changes nothing. *)
PollRead ==
    /\ "count" \in live /\ polled = {} /\ "db" \in open
    /\ polled' = {size}
    /\ UNCHANGED <<start, stage, outcome, pc, held, parts, live, late, size, writes, seen, cached>>

(* Mutant: polls are summed up. *)
PollAdd ==
    /\ "count" \in live
    /\ \E n \in polled : cached' = cached + n
    /\ polled' = {}
    /\ UNCHANGED <<start, stage, outcome, pc, held, parts, live, late, size, writes, seen>>

PollStore ==
    /\ "count" \in live
    /\ \E n \in polled : cached' = n
    /\ polled' = {}
    /\ UNCHANGED <<start, stage, outcome, pc, held, parts, live, late, size, writes, seen>>

-----------------------------------------------------------------------------
NoConfig == [unsafe |-> FALSE, broker |-> FALSE, auth |-> FALSE, disabled |-> FALSE,
             addrs |-> {}]

Init ==
    /\ cmd = "serve" /\ cfg = NoConfig
    /\ stage = "off" /\ outcome = "none" /\ pc = 1
    /\ built = {} /\ open = {} /\ closers = <<>>
    /\ parts = {} /\ live = {} /\ late = FALSE
    /\ size \in 0 .. MaxRows /\ writes = 0 /\ seen = {} /\ polled = {} /\ cached = 0

InitStep ==
    \/ Wire \/ WireResource \/ InitEager \/ Dial \/ NewPublisher \/ InitAuditLog \/ InitFails

OptionStep == \E o \in OptionNames : Skip(o) \/ Mount(o) \/ Refuse(o) \/ Die(o)

Start == InitStep \/ OptionStep \/ Run

Shutdown == Release \/ ClosePublisher \/ CloseLast \/ Exit

Next ==
    \/ \E c \in Commands, o \in Configs : Launch(c, o)
    \/ Start
    \/ Stop \/ \E x \in Parts : StopPart(x)
    \/ Shutdown
    \/ Write \/ PollRead \/ PollStore

(* A start and a shutdown go on; the poller polls again and again, and     *)
(* polls succeed in the end.                                               *)
Fairness ==
    /\ WF_vars(Start) /\ WF_vars(Shutdown)
    /\ WF_vars(PollRead) /\ WF_vars(PollStore)

Spec == Init /\ [][Next]_vars /\ Fairness

-----------------------------------------------------------------------------
(* The variables have their types. *)
TypeOK ==
    /\ cmd \in Commands /\ cfg \in Configs \cup {NoConfig}
    /\ stage \in {"off", "starting", "running", "stopping", "closing", "exited"}
    /\ outcome \in {"none", "rejected", "init", "died", "option", "stopped"}
    /\ pc \in Nat \ {0}
    /\ built \subseteq Providers /\ open \subseteq Resources
    /\ closers \in Seq(Cleanups)
    /\ parts \subseteq Parts /\ live \subseteq parts /\ late \in BOOLEAN
    /\ size \in 0 .. MaxRows /\ writes \in 0 .. MaxWrites /\ seen \subseteq 0 .. MaxRows
    /\ polled \subseteq 0 .. MaxRows /\ cached \in 0 .. MaxRows

(* "Closed LIFO: publisher first, then the connection it rode on"          *)
(* (broker.go), telemetry "cleanup runs last and flushes the spans of the  *)
(* stopping servers" (telemetry.go): what runs, and what is open, has what *)
(* it stands on, from the first part to the last cleanup.                  *)
NeedsMet ==
    /\ ~late => \A x \in live : Needs(x) \subseteq open
    /\ "pub" \in open => "conn" \in open
    /\ open # {} => "telemetry" \in open

(* The closer has a cleanup for x. *)
Covered(x) ==
    \E i \in 1 .. Len(closers) : x \in Closes(closers[i]) \/ (x = "pub" /\ closers[i] = "broker")

(* A start that an option refused, and a process that was stopped, leave   *)
(* nothing open ("release what the options already built", server.go), and *)
(* what is open has its cleanup all the while: a start that fails in the   *)
(* initializers can be released too.  Production without TLS opens nothing *)
(* (opts.go, Validate).                                                    *)
NothingLeaks ==
    /\ stage = "exited" /\ outcome \in {"option", "stopped"} => open = {}
    /\ stage # "starting" => \A x \in open : Covered(x)
    /\ cfg.unsafe => open = {} /\ built = {}

(* "Only processes whose server lists Install resolve the handlers, the    *)
(* translators and the cores behind them" (routes.go): so it is but for    *)
(* the core of the widgets, which the workers and the gRPC server build    *)
(* too, and which is left out here.                                        *)
InstallOnly ==
    built \cap {"Translator", "Translation", "WidgetHandler", "UserCore", "UserHandler",
                "ProductCore", "ProductHandler"} # {} =>
        cmd \in {"serve", "http"} /\ "http" \in cfg.addrs

(* The cached count is one the table had while the process ran, or the     *)
(* value before the first poll.                                            *)
CachedWasTrue == cached = 0 \/ cached \in seen

(* Where the poller runs the count catches up with the table. *)
CountCatchesUp == "count" \in live ~> (cached = size \/ "count" \notin live)

(* A start ends in a process that runs or has ended, a shutdown ends,      *)
(* with parts that do not stop too.                                        *)
Settles ==
    stage \in {"starting", "stopping", "closing"} ~> stage \in {"running", "exited"}

(* Why it does: the stages only go forward, each step of a start or of a   *)
(* shutdown leaves it fewer, and what runs beside it gives it no more.     *)
Place == [off |-> 0, starting |-> 1, running |-> 2, stopping |-> 3, closing |-> 4, exited |-> 5]

StepsLeft ==
    CASE stage = "starting" ->
            2 * (Len(steps) + 1 - pc) + (IF "conn" \in open THEN 0 ELSE 1)
      [] stage = "closing" -> 2 * Len(closers) + (IF "pub" \in open THEN 1 ELSE 0)
      [] OTHER -> 0

Onward ==
    \/ Place[stage'] > Place[stage]
    \/ stage' = stage /\ UNCHANGED <<start, pc, held>>
    \/ stage' = stage /\ StepsLeft' \in 0 .. (StepsLeft - 1)

StartAndShutdownEnd == [][Onward]_vars

(* "The value is refreshed in the background by a poller" (widget.go,      *)
(* count): so it is where the endpoint is served.                          *)
CountRefreshed == "api" \in live ~> (cached = size \/ "api" \notin live)

-----------------------------------------------------------------------------
(* The inductive invariant: what a start has opened and registered by the  *)
(* time it reaches a step, in the order of the initializers.               *)

Registered(c) == \E i \in 1 .. Len(closers) : closers[i] = c

OpenedSoFar ==
    /\ pc = 1 => open = {} /\ closers = <<>>
    /\ pc > 1 => "telemetry" \in open /\ closers # <<>>
    /\ "conn" \in open => cfg.broker /\ pc >= 4
    /\ "pub" \in open => pc > 4
    /\ cfg.broker /\ pc > 4 => {"conn", "pub"} \subseteq open
    /\ pc > 9 => "db" \in open
    /\ pc > 10 => "dedup" \in open
    /\ \A x \in parts : Needs(x) \subseteq open

RegisteredSoFar ==
    /\ pc > 2 => Registered("store")
    /\ pc > 5 => Registered("translator")
    /\ \A x \in open : Covered(x) \/ (x = "conn" /\ pc = 4)

StageInv ==
    /\ stage = "off" => open = {} /\ built = {} /\ closers = <<>> /\ parts = {} /\ pc = 1
    /\ stage = "starting" => OpenedSoFar /\ RegisteredSoFar
    /\ stage \in {"off", "starting", "exited"} => live = {}
    /\ stage \in {"running", "stopping"} => \A x \in live : Needs(x) \subseteq open
    /\ stage = "closing" /\ ~late => live = {}
    /\ cfg.unsafe => stage = "exited"

(* Telemetry is the first to open and the last to close. *)
CloserInv ==
    /\ closers # <<>> => closers[1] = "telemetry" /\ "telemetry" \in open
    /\ \A i \in 2 .. Len(closers) : closers[i] # "telemetry"

PollInv ==
    /\ stage \in {"off", "starting"} => cached = 0 /\ polled = {}
    /\ live # {} => size \in seen
    /\ polled \subseteq seen

IInv ==
    /\ TypeOK /\ StageInv /\ CloserInv /\ PollInv
    /\ NeedsMet /\ NothingLeaks /\ InstallOnly /\ CachedWasTrue
=============================================================================
