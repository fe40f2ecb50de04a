--------------------------- MODULE AdapterProcess ---------------------------
(***************************************************************************)
(* The life of the adapter process: main builds the adapters its command   *)
(* line asks for, starts the SIL Kit lifecycle and the io_context thread,  *)
(* waits for SIGINT and takes everything down again.  Three threads run in *)
(* it: main, the io_context thread with the completion handlers of the     *)
(* sockets, and a thread of SIL Kit with the frame handlers.  They share   *)
(* the adapters, which main owns and destroys.                             *)
(*                                                                         *)
(* What a handler does with the bytes is in EthSocketReceiver and          *)
(* EthSocketTransmitter; here it begins, may find its socket broken, and   *)
(* ends.                                                                   *)
(***************************************************************************)
EXTENDS Naturals, FiniteSets, SequencesExt

CONSTANTS
    Sockets,        \* the socket texts of the command lines
    CommandLines,   \* [mode, args] the process may be started with
    NoSocket        \* the thread runs no handler

\* The options that ask for an adapter.
Options == {"chardev", "unixChardev", "eth", "unixEth"}
EthOptions == {"eth", "unixEth"}

(***************************************************************************)
(* An argument: the text of its socket, whether the parts the common       *)
(* helpers parse are well formed, and, of an Ethernet argument, its last   *)
(* part split at "=" and each piece split at ":".                          *)
(***************************************************************************)
Argument == [option : Options, socket : Sockets, wellFormed : BOOLEAN,
             setting : Seq(Seq(STRING))]

ASSUME CommandLinesAssumption ==
    CommandLines \subseteq [mode : {"run", "info", "unknown"}, args : Seq(Argument)]
ASSUME NoSocketAssumption == NoSocket \notin Sockets

VARIABLES
    commandLine,    \* what the process was started with
    listening,      \* the sockets QEMU can be reached at
    pc,             \* where main is
    todo,           \* the arguments main has not processed yet, in its order
    provided,       \* alreadyProvidedSockets
    chardevs,       \* the sockets of chardevSocketTransmitters
    eths,           \* the sockets of ethernetSocketTransmitters
    controllers,    \* the names of the Ethernet controllers, in the order of creation
    count,          \* the number of the next generated name
    registered,     \* the sockets whose handlers SIL Kit and the io_context may call
    exit,           \* the exit code that main is about to return or has returned
    lifecycle,      \* the SIL Kit lifecycle of the participant
    sigint,         \* what a SIGINT does: kill the process, or be handled by promptForExit
    released,       \* promptForExit has seen a SIGINT
    ioThread,       \* the io_context thread
    ioStopped,      \* ioContext is stopped
    ioHandler,      \* the socket whose completion handler runs
    ioFailing,      \* that handler has found its socket broken
    broken,         \* the sockets whose next read fails
    skHandler       \* the socket whose frame handler runs

commandVars == <<commandLine, listening>>
namingVars == <<controllers, count>>
adapterVars == <<todo, provided, chardevs, eths, namingVars, registered>>
signalVars == <<sigint, released>>
ioVars == <<ioThread, ioStopped, ioHandler, ioFailing, broken>>
vars == <<commandVars, pc, adapterVars, exit, lifecycle, signalVars, ioVars, skHandler>>

Adapters == chardevs \cup eths

\* foreachArgDo: the arguments of one option, as they follow one another on the command line.
ArgumentsOf(args, option) ==
    LET found[i \in 0 .. Len(args)] ==
            IF i = 0 THEN <<>>
            ELSE IF args[i].option = option THEN Append(found[i - 1], args[i]) ELSE found[i - 1]
    IN  found[Len(args)]

\* The arguments in the order main goes through them: all of one option, then the next.
InOrderOfOptions(args) ==
    ArgumentsOf(args, "chardev") \o ArgumentsOf(args, "unixChardev")
        \o ArgumentsOf(args, "eth") \o ArgumentsOf(args, "unixEth")

Init ==
    /\ commandLine \in CommandLines
    /\ listening \in SUBSET Sockets
    /\ pc = "options"
    /\ todo = InOrderOfOptions(commandLine.args)
    /\ provided = {}
    /\ chardevs = {}
    /\ eths = {}
    /\ controllers = <<>>
    /\ count = 1
    /\ registered = {}
    /\ exit = "none"
    /\ lifecycle = "created"
    /\ sigint = "kills"
    /\ released = FALSE
    /\ ioThread = "none"
    /\ ioStopped = FALSE
    /\ ioHandler = NoSocket
    /\ ioFailing = FALSE
    /\ broken = {}
    /\ skHandler = NoSocket

----------------------------------------------------------------------------
(* main: building *)

Goto(here, there) == pc = here /\ pc' = there

\* main returns before it has built anything.
Return(code) == pc' = "ended" /\ exit' = code

\* Mutant: the error is reported but main goes on to its last line.
ThrowAndSucceed(code) == pc' = "destroyEths" /\ exit' = "CodeSuccess"

\* An exception leaves the try block: what has been built is destroyed.
Throw(code) == pc' = "destroyEths" /\ exit' = code

CheckOptions ==
    /\ pc = "options"
    /\ CASE commandLine.mode = "info" -> Return("CodeSuccess")
         [] commandLine.mode = "unknown" -> Return("CodeErrorCli")
         [] OTHER -> pc' = "participant" /\ UNCHANGED exit
    /\ UNCHANGED <<commandVars, adapterVars, lifecycle, signalVars, ioVars, skHandler>>

\* CreateParticipant may throw a ConfigurationError or another SilKitError.
CreateParticipant ==
    /\ pc = "participant"
    /\ \/ pc' = "adapters" /\ UNCHANGED exit
       \/ \E code \in {"CodeErrorConfiguration", "CodeErrorOther"} : Return(code)
    /\ UNCHANGED <<commandVars, adapterVars, lifecycle, signalVars, ioVars, skHandler>>

\* Mutant: the socket is looked up but not remembered.
LookUpOnly(socket) == UNCHANGED provided

Remember(socket) == provided' = provided \cup {socket}

AlreadyProvided(socket) == socket \in provided

\* extractAndEraseNamespaceAndControllernameFrom: network=<network>[:<controller>].
NetworkWellFormed(setting) ==
    Len(setting) = 2 /\ setting[1] = <<"network">> /\ Len(setting[2]) \in {1, 2}

\* The name the user gives to the controller; an empty one is none.
ControllerOf(arg) == IF Len(arg.setting[2]) = 2 THEN arg.setting[2][2] ELSE ""

WellFormed(arg) ==
    arg.wellFormed /\ (arg.option \in EthOptions => NetworkWellFormed(arg.setting))

\* Mutant: the connection is tried before the rest of the argument is parsed.
UsageErrorIfReachable(arg) ==
    AlreadyProvided(arg.socket) \/ (arg.socket \in listening /\ ~WellFormed(arg))

\* The uniqueness first, then the syntax; the connection comes only then.
UsageError(arg) == AlreadyProvided(arg.socket) \/ ~WellFormed(arg)

\* The argument parseEthernetSocketArgument or SocketToBytesPubSubAdapter::parseArgument gets.
Processes(arg) ==
    /\ pc = "adapters" /\ todo # <<>> /\ arg = Head(todo)
    /\ Remember(arg.socket)
    /\ UNCHANGED <<commandVars, lifecycle, signalVars, ioVars, skHandler>>

RejectArgument(arg) ==
    /\ Processes(arg) /\ UsageError(arg)
    /\ Throw("CodeErrorCli")
    /\ UNCHANGED <<todo, chardevs, eths, namingVars, registered>>

(***************************************************************************)
(* The connection to QEMU is the last that can fail; then the first read   *)
(* is started and the frame handler registered.  The adapter's destructor  *)
(* takes back neither: the read is aborted, which calls its handler, too.  *)
(***************************************************************************)
Connect(arg) ==
    IF arg.socket \in listening
    THEN /\ todo' = Tail(todo)
         /\ registered' = registered \cup {arg.socket}
         /\ IF arg.option \in EthOptions
            THEN eths' = eths \cup {arg.socket} /\ UNCHANGED chardevs
            ELSE chardevs' = chardevs \cup {arg.socket} /\ UNCHANGED eths
         /\ UNCHANGED <<pc, exit>>
    ELSE Throw("CodeErrorOther") /\ UNCHANGED <<todo, chardevs, eths, registered>>

BuildChardev(arg) ==
    /\ Processes(arg) /\ ~UsageError(arg) /\ arg.option \notin EthOptions
    /\ Connect(arg)
    /\ UNCHANGED namingVars

\* Mutant: the static counter does not advance.
GenerateSameName == UNCHANGED count

\* generateControllerName
GenerateName == count' = count + 1

GeneratedName(n) == "SilKit_ETH_CTRL_" \o ToString(n)

NameFor(arg) == IF ControllerOf(arg) = "" THEN GeneratedName(count) ELSE ControllerOf(arg)

(***************************************************************************)
(* The adapter creates its controller before it connects, so the           *)
(* controller stays when the connection fails.  SIL Kit may refuse a name  *)
(* that is taken.                                                          *)
(***************************************************************************)
BuildEth(arg) ==
    /\ Processes(arg) /\ ~UsageError(arg) /\ arg.option \in EthOptions
    /\ IF ControllerOf(arg) = "" THEN GenerateName ELSE UNCHANGED count
    /\ \/ controllers' = Append(controllers, NameFor(arg)) /\ Connect(arg)
       \/ /\ NameFor(arg) \in Range(controllers)
          /\ Throw("CodeErrorConfiguration")
          /\ UNCHANGED <<todo, chardevs, eths, controllers, registered>>

BuildAdapter ==
    \E arg \in Range(todo) : RejectArgument(arg) \/ BuildChardev(arg) \/ BuildEth(arg)

\* Mutant: main goes on without an adapter.
RequestsAnything == TRUE

\* numberOfRequestedAdaptations, which counts the arguments, is not zero.
RequestsAdapter == commandLine.args # <<>>

\* StartLifecycle may throw a SilKitError; no thread has been created then.
StartLifecycle ==
    /\ pc = "adapters" /\ todo = <<>>
    /\ \/ RequestsAdapter /\ pc' = "spawn" /\ lifecycle' = "running" /\ UNCHANGED exit
       \/ RequestsAdapter /\ Throw("CodeErrorOther") /\ UNCHANGED lifecycle
       \/ ~RequestsAdapter /\ Throw("CodeErrorCli") /\ UNCHANGED lifecycle
    /\ UNCHANGED <<commandVars, adapterVars, signalVars, ioVars, skHandler>>

\* The constructor of std::thread may throw; the lifecycle has been started then.
SpawnIoThread ==
    /\ pc = "spawn"
    /\ \/ pc' = "prompt" /\ ioThread' = "running" /\ UNCHANGED exit
       \/ Throw("CodeErrorOther") /\ UNCHANGED ioThread
    /\ UNCHANGED <<commandVars, adapterVars, lifecycle, signalVars,
                   ioStopped, ioHandler, ioFailing, broken, skHandler>>

\* promptForExit installs its signal handler.
PromptForExit ==
    /\ Goto("prompt", "waiting")
    /\ sigint' = "handled"
    /\ UNCHANGED <<commandVars, adapterVars, exit, lifecycle, released, ioVars, skHandler>>

\* Mutant: unwinding leaves the thread to itself.
UnwindPastThread == Throw("CodeErrorOther")

\* Unwinding destroys ioContextThread first; it is joinable, so std::terminate is called.
DestroyJoinableThread == Return("terminated")

\* promptForExit or Stop throws before the thread is joined.
ServingThrows ==
    /\ pc \in {"prompt", "waiting", "join"}
    /\ DestroyJoinableThread
    /\ UNCHANGED <<commandVars, adapterVars, lifecycle, signalVars, ioVars, skHandler>>

----------------------------------------------------------------------------
(* main: taking down *)

\* Mutant: the io_context is not stopped, the thread is waited for all the same.
LeaveIoContext ==
    /\ released /\ Goto("waiting", "join")
    /\ UNCHANGED <<commandVars, adapterVars, exit, lifecycle, signalVars, ioVars, skHandler>>

\* promptForExit returns and Stop stops the io_context.
StopIoContext ==
    /\ released /\ Goto("waiting", "join")
    /\ ioStopped' = TRUE
    /\ UNCHANGED <<commandVars, adapterVars, exit, lifecycle, signalVars,
                   ioThread, ioHandler, ioFailing, broken, skHandler>>

JoinIoThread ==
    /\ Goto("join", "stop") /\ ioThread = "finished"
    /\ ioThread' = "joined"
    /\ UNCHANGED <<commandVars, adapterVars, exit, lifecycle, signalVars,
                   ioStopped, ioHandler, ioFailing, broken, skHandler>>

\* Stop waits until SIL Kit has left the running state, which it does between two frames.
StopLifecycle ==
    /\ Goto("stop", "destroyEths") /\ skHandler = NoSocket
    /\ lifecycle' = "stopped"
    /\ exit' = "CodeSuccess"
    /\ UNCHANGED <<commandVars, adapterVars, signalVars, ioVars, skHandler>>

\* Or it waits no longer; main does not learn of it.
StopGivesUp ==
    /\ Goto("stop", "destroyEths")
    /\ exit' = "CodeSuccess"
    /\ UNCHANGED <<commandVars, adapterVars, lifecycle, signalVars, ioVars, skHandler>>

\* The locals of main go in the reverse order of their declaration.
DestroyEths ==
    /\ Goto("destroyEths", "destroyChardevs")
    /\ eths' = {}
    /\ UNCHANGED <<commandVars, todo, provided, chardevs, namingVars, registered, exit, lifecycle,
                   signalVars, ioVars, skHandler>>

DestroyChardevs ==
    /\ Goto("destroyChardevs", "destroyParticipant")
    /\ chardevs' = {}
    /\ UNCHANGED <<commandVars, todo, provided, eths, namingVars, registered, exit, lifecycle,
                   signalVars, ioVars, skHandler>>

(***************************************************************************)
(* Only now the frame handlers are gone: no adapter ever removes its own.  *)
(* The participant ends its thread, and waits for a handler that runs.     *)
(***************************************************************************)
DestroyParticipant ==
    /\ Goto("destroyParticipant", "ended") /\ skHandler = NoSocket
    /\ registered' = {}
    /\ UNCHANGED <<commandVars, todo, provided, chardevs, eths, namingVars, exit, lifecycle,
                   signalVars, ioVars, skHandler>>

Main ==
    \/ CheckOptions \/ CreateParticipant
    \/ BuildAdapter \/ StartLifecycle
    \/ SpawnIoThread \/ PromptForExit
    \/ StopIoContext \/ JoinIoThread \/ StopLifecycle
    \/ DestroyEths \/ DestroyChardevs \/ DestroyParticipant

----------------------------------------------------------------------------
(* SIGINT *)

Running == pc # "ended"

Interrupt ==
    IF sigint = "handled"
    THEN released' = TRUE /\ UNCHANGED <<pc, exit>>
    ELSE pc' = "ended" /\ exit' = "killed" /\ UNCHANGED released

UserInterrupts ==
    /\ Running /\ ~released
    /\ Interrupt
    /\ UNCHANGED <<commandVars, adapterVars, lifecycle, sigint, ioVars, skHandler>>

----------------------------------------------------------------------------
(* The io_context thread. *)

\* QEMU goes away, or announces a frame that is too large.
SocketBreaks(s) ==
    /\ Running /\ s \in eths \ broken
    /\ broken' = broken \cup {s}
    /\ UNCHANGED <<commandVars, pc, adapterVars, exit, lifecycle, signalVars,
                   ioThread, ioStopped, ioHandler, ioFailing, skHandler>>

(***************************************************************************)
(* A read of socket s is complete, has failed or was aborted; its handler  *)
(* is called, whether or not its adapter is still there.                   *)
(***************************************************************************)
IoBegin(s) ==
    /\ Running /\ ioThread = "running" /\ ~ioStopped /\ ioHandler = NoSocket
    /\ ioHandler' = s
    /\ ioFailing' = (s \in broken)
    /\ UNCHANGED <<commandVars, pc, adapterVars, exit, lifecycle, signalVars,
                   ioThread, ioStopped, broken, skHandler>>

\* Mutant: the handler closes its own socket only.
CloseOnly == UNCHANGED <<ioStopped, pc, exit, released>>

\* Stop the io_context and raise SIGINT.
StopAndRaise == ioStopped' = TRUE /\ Interrupt

\* ShutdownEthSocketToEthControllerAdapter.
IoShutdown ==
    /\ Running /\ ioFailing
    /\ ioFailing' = FALSE
    /\ StopAndRaise
    /\ UNCHANGED <<commandVars, adapterVars, lifecycle, sigint, ioThread,
                   ioHandler, broken, skHandler>>

IoEnd ==
    /\ Running /\ ioHandler # NoSocket /\ ~ioFailing
    /\ ioHandler' = NoSocket
    /\ UNCHANGED <<commandVars, pc, adapterVars, exit, lifecycle, signalVars,
                   ioThread, ioStopped, ioFailing, broken, skHandler>>

\* ioContext.run() returns.
IoThreadFinishes ==
    /\ Running /\ ioThread = "running" /\ ioStopped /\ ioHandler = NoSocket
    /\ ioThread' = "finished"
    /\ UNCHANGED <<commandVars, pc, adapterVars, exit, lifecycle, signalVars,
                   ioStopped, ioHandler, ioFailing, broken, skHandler>>

----------------------------------------------------------------------------
(* The SIL Kit thread. *)

\* SIL Kit may call a registered handler at any time, whatever the lifecycle is.
SkBegin(s) ==
    /\ Running
    /\ s \in registered /\ skHandler = NoSocket
    /\ skHandler' = s
    /\ UNCHANGED <<commandVars, pc, adapterVars, exit, lifecycle, signalVars, ioVars>>

SkEnd ==
    /\ Running /\ skHandler # NoSocket
    /\ skHandler' = NoSocket
    /\ UNCHANGED <<commandVars, pc, adapterVars, exit, lifecycle, signalVars, ioVars>>

\* What a frame handler does with an adapter that is destroyed is undefined.
SkCrashes ==
    /\ Running /\ skHandler \notin Adapters \cup {NoSocket}
    /\ Return("crashed")
    /\ UNCHANGED <<commandVars, adapterVars, lifecycle, signalVars, ioVars, skHandler>>

----------------------------------------------------------------------------
Next ==
    \/ Main \/ StopGivesUp \/ ServingThrows
    \/ UserInterrupts
    \/ \E s \in eths : SocketBreaks(s)
    \/ \E s \in registered : IoBegin(s)
    \/ IoShutdown \/ IoEnd \/ IoThreadFinishes
    \/ \E s \in registered : SkBegin(s)
    \/ SkEnd \/ SkCrashes

Spec == Init /\ [][Next]_vars

(***************************************************************************)
(* main and the completion handlers run.  asio runs completed operations   *)
(* first come first served, so the handler of a broken socket is called    *)
(* however busy the others are; SIL Kit lets main stop the lifecycle, and  *)
(* ends its thread, between two frames.  A frame handler need not return:  *)
(* it may be inside a write that QEMU does not take.                       *)
(***************************************************************************)
FairSpec ==
    /\ Spec
    /\ WF_vars(Main) /\ SF_vars(StopLifecycle) /\ SF_vars(DestroyParticipant)
    /\ WF_vars(IoShutdown) /\ WF_vars(IoEnd) /\ WF_vars(IoThreadFinishes)
    /\ \A s \in Sockets : SF_vars(s \in broken \cap Adapters /\ IoBegin(s))

----------------------------------------------------------------------------
TypeOK ==
    /\ commandLine \in CommandLines
    /\ listening \subseteq Sockets
    /\ pc \in {"options", "participant", "adapters", "spawn", "prompt", "waiting", "join",
               "stop", "destroyEths", "destroyChardevs", "destroyParticipant", "ended"}
    /\ todo \in Seq(Argument)
    /\ provided \subseteq Sockets
    /\ chardevs \subseteq provided
    /\ eths \subseteq provided
    /\ Len(controllers) <= Len(commandLine.args)
    /\ count \in 1 .. Len(commandLine.args) + 1
    /\ registered \subseteq provided
    /\ exit \in {"none", "CodeSuccess", "CodeErrorCli", "CodeErrorConfiguration",
                 "CodeErrorOther", "killed", "terminated", "crashed"}
    /\ lifecycle \in {"created", "running", "stopped"}
    /\ sigint \in {"kills", "handled"}
    /\ released \in BOOLEAN
    /\ ioThread \in {"none", "running", "finished", "joined"}
    /\ ioStopped \in BOOLEAN
    /\ ioHandler \in Sockets \cup {NoSocket}
    /\ ioFailing \in BOOLEAN
    /\ broken \subseteq Sockets
    /\ skHandler \in Sockets \cup {NoSocket}

(***************************************************************************)
(* No completion handler works on an adapter that main has destroyed       *)
(* already: it captures "this", and nothing but main's order of taking     *)
(* down, and std::terminate where an exception skips a part of it, keeps   *)
(* it from outliving the adapter.  Nothing of the kind is claimed of the   *)
(* frame handlers.                                                         *)
(***************************************************************************)
NoUseAfterDestroy == Running => ioHandler \in Adapters \cup {NoSocket}

(***************************************************************************)
(* The participant joins the simulation only with everything the command   *)
(* line asks for: at least one adapter, each connected to a socket of its  *)
(* own.                                                                    *)
(***************************************************************************)
StartedOnlyComplete ==
    pc \in {"spawn", "prompt", "waiting", "join", "stop"} =>
        /\ Adapters # {}
        /\ Cardinality(Adapters) = Len(commandLine.args)
        /\ Adapters \subseteq listening

(***************************************************************************)
(* A run that reports success has served until a SIGINT and been taken     *)
(* down in full: the thread is joined, and nobody uses or holds an         *)
(* adapter.  (The lifecycle may run still: Stop may give up.)              *)
(***************************************************************************)
SuccessIsClean ==
    ~Running /\ commandLine.mode = "run" /\ exit = "CodeSuccess" =>
        /\ released /\ lifecycle # "created"
        /\ ioThread = "joined" /\ ioHandler = NoSocket
        /\ Adapters = {} /\ registered = {} /\ skHandler = NoSocket

(***************************************************************************)
(* The exit code tells which mistake of the command line comes first in    *)
(* the order of the options: an argument that repeats a socket or is       *)
(* malformed is a usage error, even if QEMU cannot be reached there; a     *)
(* socket that cannot be reached is another error.                         *)
(***************************************************************************)
ExitCodeOfFirstMistake ==
    LET args == InOrderOfOptions(commandLine.args)
        Usage(i) == ~WellFormed(args[i]) \/ \E j \in 1 .. i - 1 : args[j].socket = args[i].socket
        Bad(i) == Usage(i) \/ args[i].socket \notin listening
        first == CHOOSE i \in DOMAIN args : Bad(i) /\ \A j \in 1 .. i - 1 : ~Bad(j)
        mistaken == \E i \in DOMAIN args : Bad(i)
    IN  pc = "destroyEths" /\ args # <<>> =>
            /\ exit = "CodeSuccess" => ~mistaken
            /\ exit = "CodeErrorCli" => mistaken /\ Usage(first)
            /\ exit = "CodeErrorOther" /\ mistaken => ~Usage(first)

\* The controller names the user has given.
GivenNames ==
    {ControllerOf(arg) : arg \in
        {a \in Range(commandLine.args) : a.option \in EthOptions /\ WellFormed(a)}} \ {""}

(***************************************************************************)
(* Generated names never clash with each other, however arguments with and *)
(* without a name follow one another: two controllers have the same name,  *)
(* or SIL Kit refuses one for it, only if the user has given that name.    *)
(* (The user's name may still be one that is generated.)                   *)
(***************************************************************************)
ClashingNameIsGiven ==
    /\ \A i, j \in DOMAIN controllers :
        i # j /\ controllers[i] = controllers[j] => controllers[i] \in GivenNames
    /\ pc = "destroyEths" /\ exit = "CodeErrorConfiguration" =>
        Range(controllers) \cap GivenNames # {}

\* No frame handler stays in its write for ever.
FrameHandlersReturn == []<>(skHandler = NoSocket)

(***************************************************************************)
(* A broken socket ends the process, whatever main is doing and however    *)
(* busy the other sockets are, unless a frame handler never returns.       *)
(***************************************************************************)
BrokenSocketEndsProcess ==
    FrameHandlersReturn => \A s \in Sockets : (s \in broken) ~> (pc = "ended")

(***************************************************************************)
(* A SIGINT ends the process, unless a frame handler never returns: that   *)
(* is the only thing that main can wait for in vain.                       *)
(***************************************************************************)
InterruptEndsProcess == FrameHandlersReturn => (released ~> (pc = "ended"))
=============================================================================
