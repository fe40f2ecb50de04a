------------------------ MODULE AdapterProcessProofs ------------------------
(***************************************************************************)
(* The io_context thread never uses an adapter that main has destroyed,    *)
(* and main starts with all that the command line asks for or reports its  *)
(* first mistake: for any sockets and command lines.                       *)
(***************************************************************************)
EXTENDS AdapterProcess, SequenceLemmas, FiniteSetTheorems, TLAPS

Building == {"options", "participant", "adapters"}
Serving == {"prompt", "waiting", "join"}
Started == {"spawn", "prompt", "waiting", "join", "stop"}

(***************************************************************************)
(* Where main is says whether the io_context thread may run a handler: it  *)
(* does between its start and its join.  Until then main keeps every       *)
(* adapter that a completion handler may be called for, and unwinding      *)
(* destroys adapters only where the thread is not there yet.               *)
(***************************************************************************)
ThreadInv ==
    /\ pc \in Building \cup Started => registered \subseteq Adapters
    /\ ioThread = "running" => pc \in Serving \cup {"ended"}
    /\ ioHandler # NoSocket => ioThread = "running"
    /\ ioHandler \in Adapters \cup {NoSocket}
    /\ pc \in Building \cup {"spawn"} => ioThread = "none"

\* No thread has started anything yet.
LEMMA InitThreads == Init => ThreadInv
BY DEF Init, ThreadInv, Building, Serving, Started, Adapters

\* No step of main, of a handler or of the user breaks it.
LEMMA StepThreads ==
    ASSUME ThreadInv, [Next]_vars
    PROVE  ThreadInv'
<1> USE DEF ThreadInv, Building, Serving, Started, Adapters, Running, commandVars, namingVars, adapterVars, signalVars, ioVars
<1>1. CASE CheckOptions
  BY <1>1 DEF CheckOptions, Return
<1>2. CASE CreateParticipant
  BY <1>2 DEF CreateParticipant, Return
<1>3. CASE BuildAdapter
  <2>1. ASSUME NEW arg \in Range(todo), RejectArgument(arg)
        PROVE  ThreadInv'
    BY <2>1 DEF RejectArgument, Processes, Throw
  <2>2. ASSUME NEW arg \in Range(todo), BuildChardev(arg)
        PROVE  ThreadInv'
    BY <2>2 DEF BuildChardev, Processes, Connect, Throw
  <2>3. ASSUME NEW arg \in Range(todo), BuildEth(arg)
        PROVE  ThreadInv'
    BY <2>3 DEF BuildEth, Processes, Connect, GenerateName, Throw
  <2> QED
    BY <1>3, <2>1, <2>2, <2>3 DEF BuildAdapter
<1>4. CASE StartLifecycle
  BY <1>4 DEF StartLifecycle, Throw
<1>5. CASE SpawnIoThread
  BY <1>5 DEF SpawnIoThread, Throw
<1>6. CASE PromptForExit
  BY <1>6 DEF PromptForExit, Goto
<1>7. CASE StopIoContext
  BY <1>7 DEF StopIoContext, Goto
<1>8. CASE JoinIoThread
  BY <1>8 DEF JoinIoThread, Goto
<1>9. CASE StopLifecycle
  BY <1>9 DEF StopLifecycle, Goto
<1>10. CASE DestroyEths
  BY <1>10 DEF DestroyEths, Goto
<1>11. CASE DestroyChardevs
  BY <1>11 DEF DestroyChardevs, Goto
<1>12. CASE DestroyParticipant
  BY <1>12 DEF DestroyParticipant, Goto
<1>13. CASE UserInterrupts
  BY <1>13 DEF UserInterrupts, Interrupt
<1>14. ASSUME NEW s \in eths, SocketBreaks(s)
      PROVE  ThreadInv'
  BY <1>14 DEF SocketBreaks
<1>15. ASSUME NEW s \in registered, IoBegin(s)
      PROVE  ThreadInv'
  BY <1>15 DEF IoBegin
<1>16. CASE IoShutdown
  BY <1>16 DEF IoShutdown, StopAndRaise, Interrupt
<1>17. CASE IoEnd
  BY <1>17 DEF IoEnd
<1>18. CASE IoThreadFinishes
  BY <1>18 DEF IoThreadFinishes
<1>19. ASSUME NEW s \in registered, SkBegin(s)
      PROVE  ThreadInv'
  BY <1>19 DEF SkBegin
<1>20. CASE SkEnd
  BY <1>20 DEF SkEnd
<1>21. CASE UNCHANGED vars
  BY <1>21 DEF vars
<1>22. CASE ServingThrows
  BY <1>22 DEF ServingThrows, DestroyJoinableThread, Return
<1>23. CASE StopGivesUp
  BY <1>23 DEF StopGivesUp, Goto
<1>24. CASE SkCrashes
  BY <1>24 DEF SkCrashes, Return
<1> QED
  BY <1>1, <1>2, <1>3, <1>4, <1>5, <1>6, <1>7, <1>8, <1>9, <1>10, <1>11, <1>12, <1>13, <1>14, <1>15, <1>16, <1>17, <1>18, <1>19, <1>20, <1>21, <1>22, <1>23, <1>24 DEF Next, Main

(***************************************************************************)
(* NoUseAfterDestroy, for every set of sockets and every command line: no  *)
(* completion handler works on an adapter that main has destroyed, at      *)
(* whichever point main leaves its way: an argument that fails, a thread   *)
(* that cannot be created, an exception while it serves.                   *)
(***************************************************************************)
THEOREM NoDanglingHandler == Spec => []NoUseAfterDestroy
<1>1. Init => ThreadInv
  BY InitThreads
<1>2. ThreadInv /\ [Next]_vars => ThreadInv'
  BY StepThreads
<1>3. ThreadInv => NoUseAfterDestroy
  BY DEF ThreadInv, NoUseAfterDestroy
<1> QED
  BY <1>1, <1>2, <1>3, PTL DEF Spec

----------------------------------------------------------------------------
Destroying == {"destroyEths", "destroyChardevs", "destroyParticipant"}

(***************************************************************************)
(* How far a run that is to report success has come with taking down: each *)
(* part is done before main goes to the next, and the code is set after    *)
(* the threads are at rest.                                                *)
(***************************************************************************)
CleanInv ==
    /\ ioHandler # NoSocket => ioThread = "running"
    /\ pc \notin Destroying \cup {"ended"} => exit = "none"
    /\ pc \in {"join", "stop"} => released
    /\ pc = "stop" => ioThread = "joined"
    /\ pc \in Started => lifecycle # "created"
    /\ pc \in Destroying /\ exit = "CodeSuccess" =>
           released /\ lifecycle # "created" /\ ioThread = "joined"
    /\ pc \in {"destroyChardevs", "destroyParticipant"} => eths = {}
    /\ pc = "destroyParticipant" => chardevs = {}
    /\ SuccessIsClean

\* A process that has just started has not ended.
LEMMA InitClean == Init => CleanInv
BY DEF Init, CleanInv, SuccessIsClean, Running, Destroying, Started

\* No step skips a part of taking down or undoes it.
LEMMA StepClean ==
    ASSUME CleanInv, [Next]_vars
    PROVE  CleanInv'
<1> USE DEF CleanInv, SuccessIsClean, Destroying, Started, Adapters, Running, commandVars, namingVars, adapterVars, signalVars, ioVars
<1>1. CASE CheckOptions
  BY <1>1 DEF CheckOptions, Return
<1>2. CASE CreateParticipant
  BY <1>2 DEF CreateParticipant, Return
<1>3. CASE BuildAdapter
  <2>1. ASSUME NEW arg \in Range(todo), RejectArgument(arg)
        PROVE  CleanInv'
    BY <2>1 DEF RejectArgument, Processes, Throw
  <2>2. ASSUME NEW arg \in Range(todo), BuildChardev(arg)
        PROVE  CleanInv'
    BY <2>2 DEF BuildChardev, Processes, Connect, Throw
  <2>3. ASSUME NEW arg \in Range(todo), BuildEth(arg)
        PROVE  CleanInv'
    BY <2>3 DEF BuildEth, Processes, Connect, GenerateName, Throw
  <2> QED
    BY <1>3, <2>1, <2>2, <2>3 DEF BuildAdapter
<1>4. CASE StartLifecycle
  BY <1>4 DEF StartLifecycle, Throw
<1>5. CASE SpawnIoThread
  BY <1>5 DEF SpawnIoThread, Throw
<1>6. CASE PromptForExit
  BY <1>6 DEF PromptForExit, Goto
<1>7. CASE StopIoContext
  BY <1>7 DEF StopIoContext, Goto
<1>8. CASE JoinIoThread
  BY <1>8 DEF JoinIoThread, Goto
<1>9. CASE StopLifecycle
  BY <1>9 DEF StopLifecycle, Goto
<1>10. CASE DestroyEths
  BY <1>10 DEF DestroyEths, Goto
<1>11. CASE DestroyChardevs
  BY <1>11 DEF DestroyChardevs, Goto
<1>12. CASE DestroyParticipant
  BY <1>12 DEF DestroyParticipant, Goto
<1>13. CASE UserInterrupts
  BY <1>13 DEF UserInterrupts, Interrupt
<1>14. ASSUME NEW s \in eths, SocketBreaks(s)
      PROVE  CleanInv'
  BY <1>14 DEF SocketBreaks
<1>15. ASSUME NEW s \in registered, IoBegin(s)
      PROVE  CleanInv'
  BY <1>15 DEF IoBegin
<1>16. CASE IoShutdown
  BY <1>16 DEF IoShutdown, StopAndRaise, Interrupt
<1>17. CASE IoEnd
  BY <1>17 DEF IoEnd
<1>18. CASE IoThreadFinishes
  BY <1>18 DEF IoThreadFinishes
<1>19. ASSUME NEW s \in registered, SkBegin(s)
      PROVE  CleanInv'
  BY <1>19 DEF SkBegin
<1>20. CASE SkEnd
  BY <1>20 DEF SkEnd
<1>21. CASE UNCHANGED vars
  BY <1>21 DEF vars
<1>22. CASE ServingThrows
  BY <1>22 DEF ServingThrows, DestroyJoinableThread, Return
<1>23. CASE StopGivesUp
  BY <1>23 DEF StopGivesUp, Goto
<1>24. CASE SkCrashes
  BY <1>24 DEF SkCrashes, Return
<1> QED
  BY <1>1, <1>2, <1>3, <1>4, <1>5, <1>6, <1>7, <1>8, <1>9, <1>10, <1>11, <1>12, <1>13, <1>14, <1>15, <1>16, <1>17, <1>18, <1>19, <1>20, <1>21, <1>22, <1>23, <1>24 DEF Next, Main

(***************************************************************************)
(* SuccessIsClean, for every set of sockets and every command line,        *)
(* whether or not Stop gives up.                                           *)
(***************************************************************************)
THEOREM CleanSuccess == Spec => []SuccessIsClean
<1>1. Init => CleanInv
  BY InitClean
<1>2. CleanInv /\ [Next]_vars => CleanInv'
  BY StepClean
<1>3. CleanInv => SuccessIsClean
  BY DEF CleanInv
<1> QED
  BY <1>1, <1>2, <1>3, PTL DEF Spec

----------------------------------------------------------------------------
(* The arguments in the order main goes through them. *)

(***************************************************************************)
(* The function by which ArgumentsOf goes through the first n arguments    *)
(* exists, and its values pick one argument after the other.               *)
(***************************************************************************)
Finds(args, option, n, found) ==
    found = [i \in 0 .. n |->
        IF i = 0 THEN <<>>
        ELSE IF args[i].option = option THEN Append(found[i - 1], args[i]) ELSE found[i - 1]]

\* One argument more is added if it is one of the option.
Takes(args, option, found, k) ==
    found[k + 1] = IF args[k + 1].option = option THEN Append(found[k], args[k + 1])
                   ELSE found[k]

\* What the equation says of the values.
LEMMA FindsValues ==
    ASSUME NEW args, NEW option, NEW n \in Nat, NEW found, Finds(args, option, n, found)
    PROVE  found[0] = <<>> /\ \A k \in Nat : k + 1 <= n => Takes(args, option, found, k)
<1>1. ASSUME NEW i \in 0 .. n
      PROVE  found[i] = IF i = 0 THEN <<>>
                        ELSE IF args[i].option = option THEN Append(found[i - 1], args[i])
                        ELSE found[i - 1]
  BY DEF Finds
<1>2. found[0] = <<>>
  <2>1. 0 \in 0 .. n
    OBVIOUS
  <2> QED
    BY <1>1, <2>1
<1>3. ASSUME NEW k \in Nat, k + 1 <= n
      PROVE  Takes(args, option, found, k)
  <2>1. k + 1 \in 0 .. n /\ k + 1 # 0 /\ k + 1 - 1 = k
    BY <1>3
  <2>2. found[k + 1] = IF k + 1 = 0 THEN <<>>
                       ELSE IF args[k + 1].option = option
                       THEN Append(found[k + 1 - 1], args[k + 1]) ELSE found[k + 1 - 1]
    BY <1>1, <2>1
  <2> QED
    BY <2>1, <2>2, Zenon DEF Takes
<1> QED
  BY <1>2, <1>3

\* The loop ends, however many arguments there are.
LEMMA FindsExists ==
    ASSUME NEW args, NEW option, NEW n \in Nat
    PROVE  \E found : Finds(args, option, n, found)
<1> DEFINE Good == {k \in Nat : \E found : Finds(args, option, k, found)}
<1>1. 0 \in Good
  <2> DEFINE g == [i \in 0 .. 0 |-> <<>>]
  <2>1. g = [i \in 0 .. 0 |->
               IF i = 0 THEN <<>>
               ELSE IF args[i].option = option THEN Append(g[i - 1], args[i]) ELSE g[i - 1]]
    OBVIOUS
  <2>2. Finds(args, option, 0, g)
    BY <2>1 DEF Finds
  <2> QED
    BY <2>2
<1>2. ASSUME NEW k \in Nat, k \in Good PROVE k + 1 \in Good
  <2>1. PICK f : Finds(args, option, k, f)
    BY <1>2
  <2> DEFINE last == IF args[k + 1].option = option THEN Append(f[k], args[k + 1]) ELSE f[k]
             g == [i \in 0 .. k + 1 |-> IF i = k + 1 THEN last ELSE f[i]]
  <2>2. ASSUME NEW i \in 0 .. k + 1
        PROVE  g[i] = IF i = 0 THEN <<>>
                      ELSE IF args[i].option = option THEN Append(g[i - 1], args[i])
                      ELSE g[i - 1]
    <3>1. CASE i = k + 1
      <4>1. g[i] = last /\ i # 0 /\ i - 1 = k /\ g[i - 1] = f[k]
        BY <3>1
      <4> QED
        BY <3>1, <4>1, Zenon
    <3>2. CASE i = 0
      <4>1. g[i] = f[0]
        BY <3>2
      <4>2. f[0] = <<>>
        BY <2>1, FindsValues, Zenon
      <4> QED
        BY <3>2, <4>1, <4>2, Zenon
    <3>3. CASE i \in 1 .. k
      <4>1. i # 0 /\ g[i] = f[i] /\ g[i - 1] = f[i - 1] /\ i - 1 \in Nat /\ i - 1 + 1 = i
            /\ i - 1 + 1 <= k
        BY <3>3
      <4>2. f[i - 1 + 1] = IF args[i - 1 + 1].option = option
                           THEN Append(f[i - 1], args[i - 1 + 1]) ELSE f[i - 1]
        <5>1. Takes(args, option, f, i - 1)
          BY <2>1, <4>1, FindsValues, Zenon
        <5> QED
          BY <5>1, Zenon DEF Takes
      <4> QED
        BY <4>1, <4>2, Zenon
    <3> QED
      BY <3>1, <3>2, <3>3
  <2>3. g = [i \in 0 .. k + 1 |-> g[i]]
    OBVIOUS
  <2> HIDE DEF g
  <2>4. g = [i \in 0 .. k + 1 |->
               IF i = 0 THEN <<>>
               ELSE IF args[i].option = option THEN Append(g[i - 1], args[i]) ELSE g[i - 1]]
    BY <2>2, <2>3
  <2>5. Finds(args, option, k + 1, g)
    BY <2>4 DEF Finds
  <2> QED
    BY <2>5
<1>3. \A k \in Nat : k \in Good
  <2> HIDE DEF Good
  <2> QED
    BY <1>1, <1>2, Induction
<1> QED
  BY <1>3

\* ArgumentsOf in the words of that equation.
LEMMA ArgumentsFound ==
    ASSUME NEW args, Len(args) \in Nat, NEW option
    PROVE  \E found : /\ Finds(args, option, Len(args), found)
                      /\ ArgumentsOf(args, option) = found[Len(args)]
<1> DEFINE g == CHOOSE f : Finds(args, option, Len(args), f)
<1>1. Finds(args, option, Len(args), g)
  BY FindsExists, Zenon
<1>2. ArgumentsOf(args, option) = g[Len(args)]
  BY Zenon DEF ArgumentsOf, Finds
<1> QED
  BY <1>1, <1>2, Zenon

\* What one option adds when one more argument is looked at.
LEMMA FoundLength ==
    ASSUME NEW n \in Nat, NEW args \in Seq(Argument), Len(args) = n,
           NEW option, NEW found, Finds(args, option, n, found)
    PROVE  \A k \in 0 .. n : found[k] \in Seq(Range(args))
<1> DEFINE Good == {k \in Nat : k <= n => found[k] \in Seq(Range(args))}
<1>1. 0 \in Good
  <2>1. found[0] = <<>> /\ <<>> \in Seq(Range(args))
    <3>1. found[0] = <<>>
      BY FindsValues, Zenon
    <3> QED
      BY <3>1
  <2> QED
    BY <2>1
<1>2. ASSUME NEW k \in Nat, k \in Good PROVE k + 1 \in Good
  <2> SUFFICES ASSUME k + 1 <= n PROVE found[k + 1] \in Seq(Range(args))
    OBVIOUS
  <2>1. found[k] \in Seq(Range(args))
    BY <1>2
  <2>2. found[k + 1] = IF args[k + 1].option = option THEN Append(found[k], args[k + 1])
                       ELSE found[k]
    <3>1. Takes(args, option, found, k)
      BY FindsValues, Zenon
    <3> QED
      BY <3>1, Zenon DEF Takes
  <2>3. args[k + 1] \in Range(args)
    BY DEF Range
  <2> QED
    BY <2>1, <2>2, <2>3
<1>3. \A k \in Nat : k \in Good
  <2> HIDE DEF Good
  <2> QED
    BY <1>1, <1>2, Induction
<1> QED
  BY <1>3

(***************************************************************************)
(* main goes through every argument of the command line once: each asks    *)
(* for one of the four options.                                            *)
(***************************************************************************)
LEMMA EveryArgumentOnce ==
    ASSUME NEW args \in Seq(Argument)
    PROVE  /\ InOrderOfOptions(args) \in Seq(Range(args))
           /\ Len(InOrderOfOptions(args)) = Len(args)
<1> DEFINE n == Len(args)
<1>0. n \in Nat /\ Len(args) = n /\ n <= n
  OBVIOUS
<1>1. PICK c : Finds(args, "chardev", n, c) /\ ArgumentsOf(args, "chardev") = c[n]
  BY <1>0, ArgumentsFound
<1>2. PICK u : Finds(args, "unixChardev", n, u) /\ ArgumentsOf(args, "unixChardev") = u[n]
  BY <1>0, ArgumentsFound
<1>3. PICK e : Finds(args, "eth", n, e) /\ ArgumentsOf(args, "eth") = e[n]
  BY <1>0, ArgumentsFound
<1>4. PICK x : Finds(args, "unixEth", n, x) /\ ArgumentsOf(args, "unixEth") = x[n]
  BY <1>0, ArgumentsFound
<1> HIDE DEF n
<1>5. \A k \in 0 .. n : /\ c[k] \in Seq(Range(args)) /\ u[k] \in Seq(Range(args))
                        /\ e[k] \in Seq(Range(args)) /\ x[k] \in Seq(Range(args))
  BY <1>0, <1>1, <1>2, <1>3, <1>4, FoundLength
<1> DEFINE Size(s) == Len(s)
           Total(k) == Size(c[k]) + Size(u[k]) + Size(e[k]) + Size(x[k])
<1> HIDE DEF Size, Total
<1> DEFINE Good == {k \in Nat : k <= n => Total(k) = k}
<1>6. 0 \in Good
  <2>1. c[0] = <<>> /\ u[0] = <<>> /\ e[0] = <<>> /\ x[0] = <<>>
    BY <1>0, <1>1, <1>2, <1>3, <1>4, FindsValues, Zenon
  <2>2. Size(c[0]) = 0 /\ Size(u[0]) = 0 /\ Size(e[0]) = 0 /\ Size(x[0]) = 0
    BY <2>1 DEF Size
  <2>3. Total(0) = 0
    BY <2>2 DEF Total
  <2> QED
    BY <2>3
<1>7. ASSUME NEW k \in Nat, k \in Good PROVE k + 1 \in Good
  <2> SUFFICES ASSUME k + 1 <= n PROVE Total(k + 1) = k + 1
    OBVIOUS
  <2> DEFINE a == args[k + 1]
  <2>1. k \in 0 .. n /\ Total(k) = k
    BY <1>0, <1>7
  <2>2. a.option \in {"chardev", "unixChardev", "eth", "unixEth"} /\ a \in Range(args)
    <3>1. k + 1 \in DOMAIN args /\ a \in Argument
      BY <1>0
    <3> QED
      BY <3>1 DEF Range, Argument, Options
  <2>3. /\ c[k + 1] = IF a.option = "chardev" THEN Append(c[k], a) ELSE c[k]
        /\ u[k + 1] = IF a.option = "unixChardev" THEN Append(u[k], a) ELSE u[k]
        /\ e[k + 1] = IF a.option = "eth" THEN Append(e[k], a) ELSE e[k]
        /\ x[k + 1] = IF a.option = "unixEth" THEN Append(x[k], a) ELSE x[k]
    <3>1. /\ Takes(args, "chardev", c, k) /\ Takes(args, "unixChardev", u, k)
          /\ Takes(args, "eth", e, k) /\ Takes(args, "unixEth", x, k)
      BY <1>0, <1>1, <1>2, <1>3, <1>4, FindsValues, Zenon
    <3> QED
      BY <3>1, Zenon DEF Takes
  <2>4. /\ c[k] \in Seq(Range(args)) /\ u[k] \in Seq(Range(args))
        /\ e[k] \in Seq(Range(args)) /\ x[k] \in Seq(Range(args))
    BY <1>0, <1>5, <2>1
  <2> HIDE DEF a
  <2>5. /\ Size(c[k + 1]) = IF a.option = "chardev" THEN Size(c[k]) + 1 ELSE Size(c[k])
        /\ Size(u[k + 1]) = IF a.option = "unixChardev" THEN Size(u[k]) + 1 ELSE Size(u[k])
        /\ Size(e[k + 1]) = IF a.option = "eth" THEN Size(e[k]) + 1 ELSE Size(e[k])
        /\ Size(x[k + 1]) = IF a.option = "unixEth" THEN Size(x[k]) + 1 ELSE Size(x[k])
    BY <2>2, <2>3, <2>4 DEF Size
  <2>6. Size(c[k]) \in Nat /\ Size(u[k]) \in Nat /\ Size(e[k]) \in Nat /\ Size(x[k]) \in Nat
    BY <2>4 DEF Size
  <2>7. Size(c[k]) + Size(u[k]) + Size(e[k]) + Size(x[k]) = k
    BY <2>1 DEF Total
  <2>8. Size(c[k + 1]) + Size(u[k + 1]) + Size(e[k + 1]) + Size(x[k + 1]) = k + 1
    <3>1. CASE a.option = "chardev"
      <4>1. /\ Size(c[k + 1]) = Size(c[k]) + 1 /\ Size(u[k + 1]) = Size(u[k])
            /\ Size(e[k + 1]) = Size(e[k]) /\ Size(x[k + 1]) = Size(x[k])
        BY <2>5, <3>1
      <4> QED
        BY <2>6, <2>7, <4>1
    <3>2. CASE a.option = "unixChardev"
      <4>1. /\ Size(c[k + 1]) = Size(c[k]) /\ Size(u[k + 1]) = Size(u[k]) + 1
            /\ Size(e[k + 1]) = Size(e[k]) /\ Size(x[k + 1]) = Size(x[k])
        BY <2>5, <3>2
      <4> QED
        BY <2>6, <2>7, <4>1
    <3>3. CASE a.option = "eth"
      <4>1. /\ Size(c[k + 1]) = Size(c[k]) /\ Size(u[k + 1]) = Size(u[k])
            /\ Size(e[k + 1]) = Size(e[k]) + 1 /\ Size(x[k + 1]) = Size(x[k])
        BY <2>5, <3>3
      <4> QED
        BY <2>6, <2>7, <4>1
    <3>4. CASE a.option = "unixEth"
      <4>1. /\ Size(c[k + 1]) = Size(c[k]) /\ Size(u[k + 1]) = Size(u[k])
            /\ Size(e[k + 1]) = Size(e[k]) /\ Size(x[k + 1]) = Size(x[k]) + 1
        BY <2>5, <3>4
      <4> QED
        BY <2>6, <2>7, <4>1
    <3> QED
      BY <2>2, <3>1, <3>2, <3>3, <3>4
  <2> QED
    BY <2>8 DEF Total
<1>8. \A k \in Nat : k \in Good
  <2> HIDE DEF Good
  <2> QED
    BY <1>6, <1>7, Induction
<1>9. Total(n) = n /\ n \in 0 .. n
  BY <1>0, <1>8
<1>10. /\ c[n] \in Seq(Range(args)) /\ u[n] \in Seq(Range(args))
       /\ e[n] \in Seq(Range(args)) /\ x[n] \in Seq(Range(args))
  BY <1>5, <1>9
<1>11. InOrderOfOptions(args) = c[n] \o u[n] \o e[n] \o x[n]
  BY <1>1, <1>2, <1>3, <1>4, Zenon DEF InOrderOfOptions
<1> DEFINE cu == c[n] \o u[n]
           cue == cu \o e[n]
           cuex == cue \o x[n]
<1>12. cu \in Seq(Range(args)) /\ Len(cu) = Len(c[n]) + Len(u[n])
  BY <1>10
<1> HIDE DEF cu
<1>13. cue \in Seq(Range(args)) /\ Len(cue) = Len(cu) + Len(e[n])
  BY <1>10, <1>12, ConcatParts, Zenon
<1> HIDE DEF cue
<1>14. cuex \in Seq(Range(args)) /\ Len(cuex) = Len(cue) + Len(x[n])
  BY <1>10, <1>13, ConcatParts, Zenon
<1>15. InOrderOfOptions(args) = cuex
  BY <1>11 DEF cu, cue, cuex
<1> HIDE DEF cuex
<1>16. Len(cuex) = Total(n)
  BY <1>10, <1>12, <1>13, <1>14 DEF Size, Total
<1> QED
  BY <1>0, <1>9, <1>14, <1>15, <1>16

----------------------------------------------------------------------------
(* main's way through the arguments: the mistake that ends it, or all adapters. *)

Args == InOrderOfOptions(commandLine.args)

\* How many of them main has processed.
Done == Len(Args) - Len(todo)

\* What ExitCodeOfFirstMistake calls so.
Usage(i) == ~WellFormed(Args[i]) \/ \E j \in 1 .. i - 1 : Args[j].socket = Args[i].socket
Bad(i) == Usage(i) \/ Args[i].socket \notin listening

(***************************************************************************)
(* The arguments that main has processed are those before the first        *)
(* mistake, and those that are left follow them.                           *)
(***************************************************************************)
Processed ==
    /\ commandLine \in CommandLines
    /\ todo \in Seq(Range(commandLine.args))
    /\ Len(todo) <= Len(Args)
    /\ \A j \in 1 .. Len(todo) : todo[j] = Args[Done + j]
    /\ \A i \in 1 .. Done : ~Bad(i)

\* Until main takes the adapters down, each processed argument has one, at its own socket.
Collected ==
    pc \in Building \cup Started =>
        /\ Adapters = provided
        /\ provided = {Args[i].socket : i \in 1 .. Done}
        /\ IsFiniteSet(provided) /\ Cardinality(provided) = Done

\* main goes on only when it has processed all of them, and there is one.
AllProcessed == pc \in Started => todo = <<>> /\ commandLine.args # <<>>

\* With what main has left the try block.
Left ==
    pc = "destroyEths" =>
        /\ exit = "CodeSuccess" => todo = <<>>
        /\ exit = "CodeErrorCli" => commandLine.args = <<>> \/ (todo # <<>> /\ Usage(Done + 1))
        /\ exit = "CodeErrorOther" => todo = <<>> \/ (~Usage(Done + 1) /\ Bad(Done + 1))

BuildInv == Processed /\ Collected /\ AllProcessed /\ Left

\* What is known of the arguments in main's order.
LEMMA ArgsFacts ==
    ASSUME commandLine \in CommandLines
    PROVE  /\ commandLine.args \in Seq(Argument)
           /\ Args \in Seq(Range(commandLine.args)) /\ Len(Args) = Len(commandLine.args)
           /\ Len(Args) \in Nat
           /\ Range(commandLine.args) \subseteq Argument
           /\ Args \in Seq(Argument)
<1>1. commandLine.args \in Seq(Argument)
  BY CommandLinesAssumption
<1>2. Args \in Seq(Range(commandLine.args)) /\ Len(Args) = Len(commandLine.args)
  BY <1>1, EveryArgumentOnce, Zenon DEF Args
<1>3. Range(commandLine.args) \subseteq Argument
  BY <1>1 DEF Range
<1>4. Args \in Seq(Argument) /\ Len(Args) \in Nat
  BY <1>2, <1>3
<1> QED
  BY <1>1, <1>2, <1>3, <1>4

\* At its start main has processed nothing.
LEMMA InitBuild == Init => BuildInv
<1> SUFFICES ASSUME Init PROVE BuildInv
  OBVIOUS
<1>1. commandLine \in CommandLines /\ todo = Args
  BY DEF Init, Args
<1>2. Args \in Seq(Range(commandLine.args)) /\ Len(Args) \in Nat
  BY <1>1, ArgsFacts
<1>3. Done = 0
  BY <1>1, <1>2 DEF Done
<1>4. Processed
  <2>1. \A j \in 1 .. Len(todo) : Done + j = j
    BY <1>3
  <2> QED
    BY <1>1, <1>2, <1>3, <2>1 DEF Processed
<1>5. Collected
  <2>1. {Args[i].socket : i \in 1 .. Done} = {}
    BY <1>3
  <2>2. IsFiniteSet({}) /\ Cardinality({}) = 0
    BY FS_EmptySet
  <2>3. provided = {} /\ Adapters = {}
    BY DEF Init, Adapters
  <2> QED
    BY <1>3, <2>1, <2>2, <2>3 DEF Collected
<1> QED
  BY <1>4, <1>5 DEF BuildInv, AllProcessed, Left, Init, Started

(***************************************************************************)
(* A step that processes no argument keeps it, if it goes on only from     *)
(* where all are processed and leaves the try block with success only from *)
(* there.                                                                  *)
(***************************************************************************)
LEMMA ElsewhereBuild ==
    ASSUME BuildInv, UNCHANGED <<commandLine, listening, todo, provided>>,
           pc' \in Building \cup Started =>
               pc \in Building \cup Started /\ UNCHANGED <<chardevs, eths>>,
           pc' \in Started => pc \in Started \/ (todo = <<>> /\ commandLine.args # <<>>),
           pc' = "destroyEths" =>
               \/ UNCHANGED <<pc, exit>>
               \/ exit' \in {"CodeSuccess", "CodeErrorOther"} /\ todo = <<>>
               \/ exit' = "CodeErrorCli" /\ commandLine.args = <<>>
    PROVE  BuildInv'
<1>1. Args' = Args /\ Done' = Done
  BY DEF Args, Done
<1>2. \A i : Usage(i)' = Usage(i) /\ Bad(i)' = Bad(i)
  BY <1>1 DEF Usage, Bad, WellFormed
<1>3. Processed'
  BY <1>1, <1>2 DEF BuildInv, Processed
<1>4. Collected'
  BY <1>1 DEF BuildInv, Collected, Adapters
<1>5. AllProcessed'
  BY DEF BuildInv, AllProcessed
<1>6. Left'
  BY <1>1, <1>2 DEF BuildInv, Left
<1> QED
  BY <1>3, <1>4, <1>5, <1>6 DEF BuildInv

\* The argument that main is about to process is the next in its order.
LEMMA NextArgument ==
    ASSUME BuildInv, NEW arg, Processes(arg)
    PROVE  /\ todo # <<>> /\ Done \in Nat /\ Done + 1 <= Len(Args)
           /\ arg = Args[Done + 1] /\ arg \in Argument /\ arg \in Range(commandLine.args)
           /\ provided = {Args[i].socket : i \in 1 .. Done}
           /\ UsageError(arg) <=> Usage(Done + 1)
<1>1. todo # <<>> /\ arg = todo[1] /\ pc = "adapters"
  BY DEF Processes, BuildInv, Processed
<1>2. /\ todo \in Seq(Range(commandLine.args)) /\ commandLine \in CommandLines
      /\ Len(todo) <= Len(Args) /\ \A j \in 1 .. Len(todo) : todo[j] = Args[Done + j]
  BY DEF BuildInv, Processed
<1>3. Len(Args) \in Nat /\ Range(commandLine.args) \subseteq Argument
  BY <1>2, ArgsFacts
<1>4. Len(todo) \in Nat /\ Len(todo) > 0 /\ 1 \in 1 .. Len(todo)
  BY <1>1, <1>2
<1>5. Done \in Nat /\ Done + 1 <= Len(Args)
  BY <1>2, <1>3, <1>4 DEF Done
<1>6. arg = Args[Done + 1]
  BY <1>1, <1>2, <1>4
<1>7. arg \in Range(commandLine.args) /\ arg \in Argument
  BY <1>1, <1>2, <1>3, <1>4
<1>8. provided = {Args[i].socket : i \in 1 .. Done}
  BY <1>1 DEF BuildInv, Collected, Building
<1>9. AlreadyProvided(arg.socket) <=> \E j \in 1 .. (Done + 1) - 1 : Args[j].socket = Args[Done + 1].socket
  <2>1. (Done + 1) - 1 = Done
    BY <1>5
  <2> QED
    BY <1>6, <1>8, <2>1 DEF AlreadyProvided
<1>10. UsageError(arg) <=> Usage(Done + 1)
  <2>1. WellFormed(arg) <=> WellFormed(Args[Done + 1])
    BY <1>6, Zenon
  <2> QED
    <3>1. UsageError(arg) <=> AlreadyProvided(arg.socket) \/ ~WellFormed(arg)
      BY Zenon DEF UsageError
    <3>2. Usage(Done + 1) <=>
              ~WellFormed(Args[Done + 1])
              \/ \E j \in 1 .. (Done + 1) - 1 : Args[j].socket = Args[Done + 1].socket
      BY Zenon DEF Usage
    <3> QED
      BY <1>9, <2>1, <3>1, <3>2, Zenon
<1> QED
  BY <1>1, <1>5, <1>6, <1>7, <1>8, <1>10

\* An argument at which main gives up stays the next one.
LEMMA ThrowBuild ==
    ASSUME BuildInv, NEW arg, Processes(arg), NEW code, Throw(code),
           UNCHANGED todo,
           \/ code = "CodeErrorCli" /\ UsageError(arg)
           \/ code = "CodeErrorOther" /\ ~UsageError(arg) /\ arg.socket \notin listening
           \/ code = "CodeErrorConfiguration"
    PROVE  BuildInv'
<1>1. todo # <<>> /\ arg = Args[Done + 1] /\ (UsageError(arg) <=> Usage(Done + 1))
  BY NextArgument
<1>2. UNCHANGED <<commandLine, listening>> /\ pc' = "destroyEths" /\ exit' = code
  BY DEF Processes, Throw, commandVars
<1>3. Args' = Args /\ Done' = Done
  BY <1>2 DEF Args, Done
<1>4. \A i : Usage(i)' = Usage(i) /\ Bad(i)' = Bad(i)
  BY <1>2, <1>3 DEF Usage, Bad, WellFormed
<1>5. Processed'
  BY <1>2, <1>3, <1>4 DEF BuildInv, Processed
<1>6. Left'
  BY <1>1, <1>2, <1>3, <1>4 DEF Left, Bad
<1> QED
  BY <1>2, <1>5, <1>6 DEF BuildInv, Collected, AllProcessed, Building, Started

\* An argument without a mistake whose socket QEMU listens at has its adapter.
LEMMA ConnectBuild ==
    ASSUME BuildInv, NEW arg, Processes(arg), ~UsageError(arg), Connect(arg)
    PROVE  BuildInv'
<1>1. CASE arg.socket \notin listening
  BY <1>1, ThrowBuild DEF Connect
<1>2. CASE arg.socket \in listening
  <2>1. /\ todo # <<>> /\ Done \in Nat /\ Done + 1 <= Len(Args)
        /\ arg = Args[Done + 1] /\ provided = {Args[i].socket : i \in 1 .. Done}
        /\ UsageError(arg) <=> Usage(Done + 1)
    BY NextArgument
  <2>2. /\ UNCHANGED <<commandLine, listening, pc, exit>> /\ pc = "adapters"
        /\ todo' = Tail(todo) /\ provided' = provided \cup {arg.socket}
        /\ Adapters' = Adapters \cup {arg.socket}
    BY <1>2 DEF Processes, Connect, commandVars, Remember, Adapters
  <2>3. /\ todo \in Seq(Range(commandLine.args)) /\ commandLine \in CommandLines
        /\ Len(todo) <= Len(Args) /\ \A j \in 1 .. Len(todo) : todo[j] = Args[Done + j]
        /\ \A i \in 1 .. Done : ~Bad(i)
    BY DEF BuildInv, Processed
  <2>4. Len(Args) \in Nat
    BY <2>3, ArgsFacts
  <2>5. /\ todo' \in Seq(Range(commandLine.args)) /\ Len(todo) \in Nat
        /\ Len(todo') = Len(todo) - 1 /\ \A j \in 1 .. Len(todo) - 1 : todo'[j] = todo[j + 1]
    BY <2>1, <2>2, <2>3
  <2>6. Args' = Args
    BY <2>2 DEF Args
  <2>7. Done' = Done + 1
    BY <2>4, <2>5, <2>6 DEF Done
  <2>8. \A i : Usage(i)' = Usage(i) /\ Bad(i)' = Bad(i)
    BY <2>2, <2>6 DEF Usage, Bad, WellFormed
  <2>9. \A j \in 1 .. Len(todo') : todo'[j] = Args'[Done' + j]
    <3> SUFFICES ASSUME NEW j \in 1 .. Len(todo) - 1
                 PROVE  todo'[j] = Args[Done + 1 + j]
      BY <2>5, <2>6, <2>7
    <3> DEFINE d == Done  l == Len(todo)
    <3>0. d \in Nat /\ l \in Nat /\ j \in 1 .. l - 1
      BY <2>1, <2>5
    <3>1. j + 1 \in 1 .. Len(todo) /\ Done + (j + 1) = Done + 1 + j
      <4> HIDE DEF d, l
      <4>1. j + 1 \in 1 .. l /\ d + (j + 1) = d + 1 + j
        BY <3>0
      <4> QED
        BY <4>1 DEF d, l
    <3>2. todo[j + 1] = Args[Done + (j + 1)]
      BY <2>3, <3>1
    <3> QED
      BY <2>5, <3>1, <3>2
  <2>10. ~Bad(Done + 1)
    BY <1>2, <2>1 DEF Bad
  <2>11. \A i \in 1 .. Done' : ~Bad(i)'
    <3>1. \A i \in 1 .. Done + 1 : i \in 1 .. Done \/ i = Done + 1
      BY <2>1
    <3> QED
      BY <2>3, <2>7, <2>8, <2>10, <3>1
  <2>12. Processed'
    <3>1. Len(todo') <= Len(Args')
      BY <2>3, <2>4, <2>5, <2>6
    <3> QED
      BY <2>2, <2>3, <2>5, <2>9, <2>11, <3>1 DEF Processed
  <2>13. Collected'
    <3>1. /\ Adapters = provided /\ IsFiniteSet(provided) /\ Cardinality(provided) = Done
      BY <2>2 DEF BuildInv, Collected, Building
    <3>2. arg.socket \notin provided
      BY DEF UsageError, AlreadyProvided
    <3>3. IsFiniteSet(provided') /\ Cardinality(provided') = Done + 1
      BY <2>2, <3>1, <3>2, FS_AddElement
    <3>4. provided' = {Args[i].socket : i \in 1 .. Done + 1}
      <4>1. 1 .. Done + 1 = (1 .. Done) \cup {Done + 1}
        BY <2>1
      <4> QED
        BY <2>1, <2>2, <4>1
    <3>5. Adapters' = provided'
      BY <2>2, <3>1
    <3> QED
      BY <2>6, <2>7, <3>3, <3>4, <3>5 DEF Collected
  <2> QED
    BY <2>2, <2>12, <2>13 DEF BuildInv, AllProcessed, Left, Started
<1> QED
  BY <1>1, <1>2

\* No step of main, of a handler or of the user breaks it.
LEMMA StepBuild ==
    ASSUME BuildInv, [Next]_vars
    PROVE  BuildInv'
<1> USE DEF Building, Started, Running, commandVars, namingVars, adapterVars, signalVars, ioVars
<1>1. CASE CheckOptions
  BY <1>1, ElsewhereBuild DEF CheckOptions, Return
<1>2. CASE CreateParticipant
  BY <1>2, ElsewhereBuild DEF CreateParticipant, Return
<1>3. CASE BuildAdapter
  <2>1. ASSUME NEW arg \in Range(todo), RejectArgument(arg)
        PROVE  BuildInv'
    BY <2>1, ThrowBuild DEF RejectArgument
  <2>2. ASSUME NEW arg \in Range(todo), BuildChardev(arg)
        PROVE  BuildInv'
    BY <2>2, ConnectBuild DEF BuildChardev
  <2>3. ASSUME NEW arg \in Range(todo), BuildEth(arg)
        PROVE  BuildInv'
    <3>1. CASE Connect(arg)
      BY <2>3, <3>1, ConnectBuild DEF BuildEth
    <3>2. CASE Throw("CodeErrorConfiguration") /\ UNCHANGED todo
      BY <2>3, <3>2, ThrowBuild DEF BuildEth
    <3> QED
      BY <2>3, <3>1, <3>2 DEF BuildEth
  <2> QED
    BY <1>3, <2>1, <2>2, <2>3 DEF BuildAdapter
<1>4. CASE StartLifecycle
  BY <1>4, ElsewhereBuild DEF StartLifecycle, Throw, RequestsAdapter
<1>5. CASE SpawnIoThread
  BY <1>5, ElsewhereBuild DEF SpawnIoThread, Throw, BuildInv, AllProcessed
<1>6. CASE PromptForExit
  BY <1>6, ElsewhereBuild DEF PromptForExit, Goto
<1>7. CASE StopIoContext
  BY <1>7, ElsewhereBuild DEF StopIoContext, Goto
<1>8. CASE JoinIoThread
  BY <1>8, ElsewhereBuild DEF JoinIoThread, Goto
<1>9. CASE StopLifecycle
  BY <1>9, ElsewhereBuild DEF StopLifecycle, Goto, BuildInv, AllProcessed
<1>10. CASE DestroyEths
  BY <1>10, ElsewhereBuild DEF DestroyEths, Goto
<1>11. CASE DestroyChardevs
  BY <1>11, ElsewhereBuild DEF DestroyChardevs, Goto
<1>12. CASE DestroyParticipant
  BY <1>12, ElsewhereBuild DEF DestroyParticipant, Goto
<1>13. CASE UserInterrupts
  BY <1>13, ElsewhereBuild DEF UserInterrupts, Interrupt
<1>14. ASSUME NEW s \in eths, SocketBreaks(s)
      PROVE  BuildInv'
  BY <1>14, ElsewhereBuild DEF SocketBreaks
<1>15. ASSUME NEW s \in registered, IoBegin(s)
      PROVE  BuildInv'
  BY <1>15, ElsewhereBuild DEF IoBegin
<1>16. CASE IoShutdown
  BY <1>16, ElsewhereBuild DEF IoShutdown, StopAndRaise, Interrupt
<1>17. CASE IoEnd
  BY <1>17, ElsewhereBuild DEF IoEnd
<1>18. CASE IoThreadFinishes
  BY <1>18, ElsewhereBuild DEF IoThreadFinishes
<1>19. ASSUME NEW s \in registered, SkBegin(s)
      PROVE  BuildInv'
  BY <1>19, ElsewhereBuild DEF SkBegin
<1>20. CASE SkEnd
  BY <1>20, ElsewhereBuild DEF SkEnd
<1>21. CASE UNCHANGED vars
  BY <1>21, ElsewhereBuild DEF vars
<1>22. CASE ServingThrows
  BY <1>22, ElsewhereBuild DEF ServingThrows, DestroyJoinableThread, Return
<1>23. CASE StopGivesUp
  BY <1>23, ElsewhereBuild DEF StopGivesUp, Goto, BuildInv, AllProcessed
<1>24. CASE SkCrashes
  BY <1>24, ElsewhereBuild DEF SkCrashes, Return
<1> QED
  BY <1>1, <1>2, <1>3, <1>4, <1>5, <1>6, <1>7, <1>8, <1>9, <1>10, <1>11, <1>12, <1>13, <1>14, <1>15, <1>16, <1>17, <1>18, <1>19, <1>20, <1>21, <1>22, <1>23, <1>24 DEF Next, Main

(***************************************************************************)
(* StartedOnlyComplete: the participant joins the simulation only with     *)
(* everything the command line asks for, however many arguments there are  *)
(* and however their options follow one another.                           *)
(***************************************************************************)
THEOREM StartsComplete == Spec => []StartedOnlyComplete
<1>1. BuildInv => StartedOnlyComplete
  <2> SUFFICES ASSUME BuildInv, pc \in Started
               PROVE  /\ Adapters # {} /\ Cardinality(Adapters) = Len(commandLine.args)
                      /\ Adapters \subseteq listening
    BY DEF StartedOnlyComplete, Started
  <2>1. /\ todo = <<>> /\ commandLine.args # <<>> /\ commandLine \in CommandLines
        /\ Adapters = {Args[i].socket : i \in 1 .. Done} /\ Cardinality(Adapters) = Done
        /\ \A i \in 1 .. Done : Args[i].socket \in listening
    BY DEF BuildInv, AllProcessed, Processed, Collected, Bad
  <2>2. /\ commandLine.args \in Seq(Argument) /\ Len(Args) = Len(commandLine.args)
        /\ Len(Args) \in Nat
    BY <2>1, ArgsFacts
  <2>3. Done = Len(commandLine.args)
    BY <2>1, <2>2 DEF Done
  <2>4. 1 \in 1 .. Done
    BY <2>1, <2>2, <2>3
  <2> QED
    BY <2>1, <2>3, <2>4
<1> QED
  BY <1>1, InitBuild, StepBuild, PTL DEF Spec

(***************************************************************************)
(* ExitCodeOfFirstMistake: the exit code tells which mistake of the        *)
(* command line comes first in the order of the options.                   *)
(***************************************************************************)
THEOREM FirstMistakeCounts == Spec => []ExitCodeOfFirstMistake
<1>1. BuildInv => ExitCodeOfFirstMistake
  <2> DEFINE first == CHOOSE i \in DOMAIN Args : Bad(i) /\ \A j \in 1 .. i - 1 : ~Bad(j)
             mistaken == \E i \in DOMAIN Args : Bad(i)
  <2> SUFFICES ASSUME BuildInv, pc = "destroyEths", Args # <<>>
               PROVE  /\ exit = "CodeSuccess" => ~mistaken
                      /\ exit = "CodeErrorCli" => mistaken /\ Usage(first)
                      /\ exit = "CodeErrorOther" /\ mistaken => ~Usage(first)
    BY DEF ExitCodeOfFirstMistake, Args, Usage, Bad
  <2>1. /\ commandLine \in CommandLines /\ todo \in Seq(Range(commandLine.args))
        /\ Len(todo) <= Len(Args) /\ \A i \in 1 .. Done : ~Bad(i)
    BY DEF BuildInv, Processed
  <2>2. /\ commandLine.args \in Seq(Argument) /\ Len(Args) = Len(commandLine.args)
        /\ Args \in Seq(Argument) /\ Len(Args) \in Nat
    BY <2>1, ArgsFacts
  <2>3. DOMAIN Args = 1 .. Len(Args) /\ Len(Args) > 0 /\ commandLine.args # <<>> /\ Len(todo) \in Nat
    BY <2>1, <2>2
  <2>4. Done \in Nat
    BY <2>1, <2>2, <2>3 DEF Done
  <2>5. todo = <<>> => ~mistaken
    <3>1. todo = <<>> => Done = Len(Args)
      BY <2>2 DEF Done
    <3> QED
      BY <2>1, <2>3, <3>1
  <2>6. ASSUME todo # <<>>, Bad(Done + 1) PROVE mistaken /\ first = Done + 1
    <3>1. Done + 1 \in DOMAIN Args /\ (Done + 1) - 1 = Done
      <4>1. Len(todo) > 0
        BY <2>1, <2>6
      <4> QED
        BY <2>1, <2>2, <2>3, <2>4, <4>1 DEF Done
    <3>2. Bad(Done + 1) /\ \A j \in 1 .. (Done + 1) - 1 : ~Bad(j)
      BY <2>1, <2>6, <3>1
    <3>3. ASSUME NEW i \in DOMAIN Args, Bad(i), \A j \in 1 .. i - 1 : ~Bad(j)
          PROVE  i = Done + 1
      <4>1. i \in Nat /\ i > 0 /\ ~(i <= Done)
        BY <2>1, <2>3, <2>4, <3>3
      <4>2. ~(Done + 1 <= i - 1)
        BY <2>4, <2>6, <3>3, <4>1
      <4> QED
        BY <2>4, <4>1, <4>2
    <3>4. mistaken
      BY <3>1, <3>2
    <3>5. first = Done + 1
      <4>1. first \in DOMAIN Args /\ Bad(first) /\ \A j \in 1 .. first - 1 : ~Bad(j)
        BY <3>1, <3>2, Zenon
      <4> HIDE DEF first
      <4> QED
        BY <3>3, <4>1
    <3> QED
      BY <3>4, <3>5
  <2> HIDE DEF first, mistaken
  <2> QED
    BY <2>3, <2>5, <2>6 DEF BuildInv, Left, Bad
<1> QED
  BY <1>1, InitBuild, StepBuild, PTL DEF Spec

----------------------------------------------------------------------------
(* The names of the Ethernet controllers. *)

\* The names of the controllers, given or generated, as long as the counter is below n.
Names(n) == {GeneratedName(m) : m \in 1 .. n - 1} \cup GivenNames

(***************************************************************************)
(* There are not more controllers and generated names than arguments, and  *)
(* each controller has a generated name from below the counter or one that *)
(* the user has given.                                                     *)
(***************************************************************************)
NameInv ==
    /\ count \in Nat /\ count > 0 /\ count <= Len(Args) + 1
    /\ controllers \in Seq(Names(count)) /\ Len(controllers) <= Len(Args)
    /\ pc \in Building => Len(controllers) <= Done /\ count <= Done + 1

\* At its start main has no controllers.
LEMMA InitNames == Init => NameInv
<1> SUFFICES ASSUME Init PROVE NameInv
  OBVIOUS
<1>1. commandLine \in CommandLines /\ todo = Args /\ controllers = <<>> /\ count = 1
  BY DEF Init, Args
<1>2. Len(Args) \in Nat
  BY <1>1, ArgsFacts
<1>3. Done = 0
  BY <1>1, <1>2 DEF Done
<1>4. controllers \in Seq(Names(count))
  <2>1. <<>> \in Seq(Names(count))
    BY EmptySeq
  <2> QED
    BY <1>1, <2>1
<1>5. Len(controllers) = 0
  BY <1>1
<1> QED
  BY <1>1, <1>2, <1>3, <1>4, <1>5 DEF NameInv

\* A step that creates no controller keeps the names.
LEMMA ElsewhereNames ==
    ASSUME NameInv, UNCHANGED <<commandLine, controllers, count>>,
           pc' \in Building => pc \in Building /\ Done' \in {Done, Done + 1} /\ Done \in Nat
    PROVE  NameInv'
<1>1. Args' = Args /\ GivenNames' = GivenNames
  BY DEF Args, GivenNames, WellFormed
<1>2. Names(count)' = Names(count)
  BY <1>1 DEF Names
<1>3. Len(controllers) \in Nat
  BY DEF NameInv
<1> QED
  BY <1>1, <1>2, <1>3 DEF NameInv

\* Connecting completes one argument or ends building.
LEMMA ConnectDone ==
    ASSUME BuildInv, NEW arg, Processes(arg), Connect(arg)
    PROVE  pc' \in Building => Done' = Done + 1
<1> SUFFICES ASSUME pc' \in Building PROVE Done' = Done + 1
  OBVIOUS
<1>1. todo' = Tail(todo) /\ commandLine' = commandLine
  BY DEF Connect, Throw, Building, Processes, commandVars
<1>2. todo # <<>> /\ todo \in Seq(Range(commandLine.args)) /\ commandLine \in CommandLines
  BY NextArgument DEF BuildInv, Processed
<1>3. Len(Args) \in Nat /\ Args' = Args
  BY <1>1, <1>2, ArgsFacts DEF Args
<1>4. Len(todo') = Len(todo) - 1 /\ Len(todo) \in Nat
  BY <1>1, <1>2
<1> QED
  BY <1>3, <1>4 DEF Done

\* The controller of an Ethernet adapter has the next generated name or the one that is given.
LEMMA NewName ==
    ASSUME BuildInv, NameInv, NEW arg, BuildEth(arg)
    PROVE  /\ count' \in {count, count + 1}
           /\ ControllerOf(arg) = "" => count' = count + 1 /\ NameFor(arg) = GeneratedName(count)
           /\ ControllerOf(arg) # "" => NameFor(arg) \in GivenNames
           /\ NameFor(arg) \in Names(count')
<1>1. Processes(arg) /\ WellFormed(arg) /\ arg.option \in EthOptions
  BY DEF BuildEth, UsageError
<1>2. arg \in Range(commandLine.args)
  BY <1>1, NextArgument
<1>3. count \in Nat /\ count > 0
  BY DEF NameInv
<1>4. CASE ControllerOf(arg) = ""
  <2>1. count' = count + 1 /\ NameFor(arg) = GeneratedName(count)
    BY <1>4 DEF BuildEth, GenerateName, NameFor
  <2>2. count \in 1 .. count' - 1
    BY <1>3, <2>1
  <2> QED
    BY <1>4, <2>1, <2>2 DEF Names
<1>5. CASE ControllerOf(arg) # ""
  <2>1. count' = count /\ NameFor(arg) = ControllerOf(arg)
    BY <1>5 DEF BuildEth, NameFor
  <2>2. ControllerOf(arg) \in GivenNames
    BY <1>1, <1>2, <1>5 DEF GivenNames
  <2> QED
    BY <1>5, <2>1, <2>2 DEF Names
<1> QED
  BY <1>4, <1>5

\* It is one more, and the other names stay names.
LEMMA BuildEthNames ==
    ASSUME BuildInv, NameInv, NEW arg, BuildEth(arg)
    PROVE  NameInv'
<1>1. Processes(arg) /\ commandLine' = commandLine /\ pc = "adapters"
  BY DEF BuildEth, Processes, commandVars
<1>2. Done \in Nat /\ Done + 1 <= Len(Args) /\ commandLine \in CommandLines
  BY <1>1, NextArgument DEF BuildInv, Processed
<1>3. Len(Args) \in Nat /\ Args' = Args
  BY <1>1, <1>2, ArgsFacts DEF Args
<1>4. /\ count \in Nat /\ count > 0 /\ count <= Done + 1
      /\ controllers \in Seq(Names(count)) /\ Len(controllers) <= Done
  BY <1>1 DEF NameInv, Building
<1>5. count' \in {count, count + 1} /\ NameFor(arg) \in Names(count')
  BY NewName
<1>6. Names(count) \subseteq Names(count') /\ Names(count)' = Names(count')
  <2>0. ASSUME NEW a \in Nat, NEW b \in Nat, a <= b
        PROVE  \A m \in 1 .. a - 1 : m \in 1 .. b - 1
    BY <2>0
  <2>1. \A m \in 1 .. count - 1 : m \in 1 .. count' - 1
    <3>1. count \in Nat /\ count > 0
      BY <1>4
    <3>2. count' \in Nat /\ count <= count'
      BY <1>5, <3>1
    <3> QED
      BY <2>0, <3>1, <3>2, Zenon
  <2>2. GivenNames' = GivenNames
    BY <1>1 DEF GivenNames, WellFormed
  <2> QED
    BY <2>1, <2>2 DEF Names
<1>7. controllers \in Seq(Names(count'))
  BY <1>4, <1>6
<1>8. CASE controllers' = Append(controllers, NameFor(arg)) /\ Connect(arg)
  <2>1. controllers' \in Seq(Names(count')) /\ Len(controllers') = Len(controllers) + 1
    BY <1>5, <1>7, <1>8
  <2>2. Len(controllers) \in Nat
    BY <1>4
  <2>3. pc' \in Building => Done' = Done + 1
    BY <1>1, <1>8, ConnectDone
  <2> QED
    BY <1>2, <1>3, <1>4, <1>5, <1>6, <2>1, <2>2, <2>3 DEF NameInv
<1>9. CASE Throw("CodeErrorConfiguration") /\ UNCHANGED controllers
  <2>1. Len(controllers) \in Nat /\ pc' \notin Building
    BY <1>4, <1>9 DEF Throw, Building
  <2> QED
    BY <1>2, <1>3, <1>4, <1>5, <1>6, <1>7, <1>9, <2>1 DEF NameInv
<1> QED
  BY <1>8, <1>9 DEF BuildEth

\* No step of main, of a handler or of the user breaks it.
LEMMA StepNames ==
    ASSUME BuildInv, NameInv, [Next]_vars
    PROVE  NameInv'
<1>1. CASE BuildAdapter
  <2>1. ASSUME NEW arg \in Range(todo), RejectArgument(arg)
        PROVE  NameInv'
    BY <2>1, ElsewhereNames DEF RejectArgument, Processes, Throw, Building, commandVars, namingVars
  <2>2. ASSUME NEW arg \in Range(todo), BuildChardev(arg)
        PROVE  NameInv'
    <3>1. Processes(arg) /\ Connect(arg) /\ UNCHANGED <<commandLine, controllers, count>>
      BY <2>2 DEF BuildChardev, Processes, commandVars, namingVars
    <3>2. pc \in Building /\ Done \in Nat
      BY <3>1, NextArgument DEF Processes, Building
    <3> QED
      BY <3>1, <3>2, ConnectDone, ElsewhereNames
  <2>3. ASSUME NEW arg \in Range(todo), BuildEth(arg)
        PROVE  NameInv'
    BY <2>3, BuildEthNames
  <2> QED
    BY <1>1, <2>1, <2>2, <2>3 DEF BuildAdapter
<1>2. CASE ~BuildAdapter
  <2>1. /\ UNCHANGED <<commandLine, controllers, count, todo>>
        /\ pc' \in Building => pc \in Building
    <3> USE DEF Building, commandVars, namingVars, adapterVars, signalVars, ioVars
    <3>1. CASE UNCHANGED vars
      BY <3>1 DEF vars
    <3>2. CASE CheckOptions \/ CreateParticipant \/ StartLifecycle \/ SpawnIoThread
            \/ ServingThrows \/ SkCrashes
      BY <3>2 DEF CheckOptions, Return, CreateParticipant, StartLifecycle, SpawnIoThread, Throw,
                  ServingThrows, DestroyJoinableThread, SkCrashes
    <3>3. CASE PromptForExit \/ StopIoContext \/ JoinIoThread \/ StopLifecycle \/ StopGivesUp
      BY <3>3 DEF PromptForExit, StopIoContext, JoinIoThread, StopLifecycle, StopGivesUp, Goto
    <3>4. CASE DestroyEths \/ DestroyChardevs \/ DestroyParticipant
      BY <3>4 DEF DestroyEths, DestroyChardevs, DestroyParticipant, Goto
    <3>5. CASE UserInterrupts \/ IoShutdown
      BY <3>5 DEF UserInterrupts, IoShutdown, StopAndRaise, Interrupt
    <3>6. CASE IoEnd \/ IoThreadFinishes \/ SkEnd
      BY <3>6 DEF IoEnd, IoThreadFinishes, SkEnd
    <3>7. CASE \E s \in eths : SocketBreaks(s)
      BY <3>7 DEF SocketBreaks
    <3>8. CASE \E s \in registered : IoBegin(s)
      BY <3>8 DEF IoBegin
    <3>9. CASE \E s \in registered : SkBegin(s)
      BY <3>9 DEF SkBegin
    <3> QED
      BY <1>2, <3>1, <3>2, <3>3, <3>4, <3>5, <3>6, <3>7, <3>8, <3>9 DEF Next, Main
  <2>2. Done' = Done
    BY <2>1 DEF Done, Args
  <2>3. Done \in Nat
    <3>1. /\ commandLine \in CommandLines /\ todo \in Seq(Range(commandLine.args))
          /\ Len(todo) <= Len(Args)
      BY DEF BuildInv, Processed
    <3>2. Len(Args) \in Nat /\ Len(todo) \in Nat
      BY <3>1, ArgsFacts
    <3> QED
      BY <3>1, <3>2 DEF Done
  <2> QED
    BY <2>1, <2>2, <2>3, ElsewhereNames
<1> QED
  BY <1>1, <1>2

\* Two controllers have one name only if the user has given it.
Distinct ==
    \A i, j \in DOMAIN controllers :
        i # j /\ controllers[i] = controllers[j] => controllers[i] \in GivenNames

\* A controller is refused only if the user has given its name.
RefusedForGiven ==
    pc = "destroyEths" /\ exit = "CodeErrorConfiguration" => Range(controllers) \cap GivenNames # {}

\* Numbers that differ are written differently.
NamesDiffer == \A m, n \in Nat : GeneratedName(m) = GeneratedName(n) => m = n

\* A generated name is new, unless the user has given it.
LEMMA NewNameClash ==
    ASSUME NamesDiffer, BuildInv, NameInv, NEW arg, BuildEth(arg),
           NEW i \in DOMAIN controllers, controllers[i] = NameFor(arg)
    PROVE  controllers[i] \in GivenNames
<1>1. CASE ControllerOf(arg) = ""
  <2>1. controllers[i] = GeneratedName(count)
    BY <1>1, NewName
  <2>2. count \in Nat /\ controllers[i] \in Names(count)
    BY DEF NameInv
  <2>3. ASSUME NEW m \in 1 .. count - 1, controllers[i] = GeneratedName(m)
        PROVE  FALSE
    <3>1. m \in Nat /\ m # count
      BY <2>2
    <3> QED
      BY <2>1, <2>2, <2>3, <3>1 DEF NamesDiffer
  <2> QED
    BY <2>2, <2>3 DEF Names
<1>2. CASE ControllerOf(arg) # ""
  BY <1>2, NewName
<1> QED
  BY <1>1, <1>2

\* Creating a controller keeps both.
LEMMA BuildEthClash ==
    ASSUME NamesDiffer, BuildInv, NameInv, Distinct, NEW arg, BuildEth(arg)
    PROVE  Distinct' /\ RefusedForGiven'
<1>1. /\ GivenNames' = GivenNames
  BY DEF BuildEth, Processes, commandVars, GivenNames, WellFormed
<1>2. controllers \in Seq(Names(count))
  BY DEF NameInv
<1>3. CASE controllers' = Append(controllers, NameFor(arg)) /\ Connect(arg)
  <2>1. /\ Len(controllers) \in Nat /\ DOMAIN controllers = 1 .. Len(controllers)
        /\ DOMAIN controllers' = 1 .. Len(controllers) + 1
        /\ \A i \in 1 .. Len(controllers) : controllers'[i] = controllers[i]
        /\ controllers'[Len(controllers) + 1] = NameFor(arg)
    BY <1>2, <1>3
  <2>2. Distinct'
    <3> SUFFICES ASSUME NEW i \in DOMAIN controllers', NEW j \in DOMAIN controllers',
                        i # j, controllers'[i] = controllers'[j]
                 PROVE  controllers'[i] \in GivenNames
      BY <1>1 DEF Distinct
    <3>1. CASE i \in DOMAIN controllers /\ j \in DOMAIN controllers
      BY <2>1, <3>1 DEF Distinct
    <3>2. CASE i \in DOMAIN controllers /\ j = Len(controllers) + 1
      BY <2>1, <3>2, NewNameClash
    <3>3. CASE j \in DOMAIN controllers /\ i = Len(controllers) + 1
      BY <2>1, <3>3, NewNameClash
    <3> QED
      BY <2>1, <3>1, <3>2, <3>3
  <2>3. RefusedForGiven'
    <3>1. pc' = "destroyEths" => exit' = "CodeErrorOther"
      BY <1>3 DEF Connect, Throw, BuildEth, Processes
    <3> QED
      BY <3>1 DEF RefusedForGiven
  <2> QED
    BY <2>2, <2>3
<1>4. CASE NameFor(arg) \in Range(controllers) /\ UNCHANGED controllers
  <2>1. PICK i \in DOMAIN controllers : controllers[i] = NameFor(arg)
    BY <1>4 DEF Range
  <2>2. controllers[i] \in GivenNames /\ controllers[i] \in Range(controllers)
    BY <2>1, NewNameClash DEF Range
  <2> QED
    BY <1>1, <1>4, <2>2 DEF Distinct, RefusedForGiven
<1> QED
  BY <1>3, <1>4 DEF BuildEth

\* Nor does any other step break it.
LEMMA StepClash ==
    ASSUME NamesDiffer, BuildInv, NameInv, Distinct, RefusedForGiven, [Next]_vars
    PROVE  Distinct' /\ RefusedForGiven'
<1>1. ASSUME NEW arg \in Range(todo), BuildEth(arg)
      PROVE  Distinct' /\ RefusedForGiven'
  BY <1>1, BuildEthClash
<1>2. CASE \A arg \in Range(todo) : ~BuildEth(arg)
  <2>1. /\ UNCHANGED <<commandLine, controllers>>
        /\ pc' = "destroyEths" => UNCHANGED <<pc, exit>> \/ exit' # "CodeErrorConfiguration"
    <3> USE DEF commandVars, namingVars, adapterVars, signalVars, ioVars
    <3>1. CASE UNCHANGED vars
      BY <3>1 DEF vars
    <3>2. CASE CheckOptions \/ CreateParticipant \/ StartLifecycle \/ SpawnIoThread
            \/ ServingThrows \/ SkCrashes
      BY <3>2 DEF CheckOptions, Return, CreateParticipant, StartLifecycle, SpawnIoThread, Throw,
                  ServingThrows, DestroyJoinableThread, SkCrashes
    <3>3. CASE PromptForExit \/ StopIoContext \/ JoinIoThread \/ StopLifecycle \/ StopGivesUp
      BY <3>3 DEF PromptForExit, StopIoContext, JoinIoThread, StopLifecycle, StopGivesUp, Goto
    <3>4. CASE DestroyEths \/ DestroyChardevs \/ DestroyParticipant
      BY <3>4 DEF DestroyEths, DestroyChardevs, DestroyParticipant, Goto
    <3>5. CASE UserInterrupts \/ IoShutdown
      BY <3>5 DEF UserInterrupts, IoShutdown, StopAndRaise, Interrupt
    <3>6. CASE IoEnd \/ IoThreadFinishes \/ SkEnd
      BY <3>6 DEF IoEnd, IoThreadFinishes, SkEnd
    <3>7. CASE \E s \in eths : SocketBreaks(s)
      BY <3>7 DEF SocketBreaks
    <3>8. CASE \E s \in registered : IoBegin(s)
      BY <3>8 DEF IoBegin
    <3>9. CASE \E s \in registered : SkBegin(s)
      BY <3>9 DEF SkBegin
    <3>10. CASE BuildAdapter
      BY <1>2, <3>10 DEF BuildAdapter, RejectArgument, BuildChardev, Processes, Connect, Throw
    <3> QED
      BY <3>1, <3>2, <3>3, <3>4, <3>5, <3>6, <3>7, <3>8, <3>9, <3>10 DEF Next, Main
  <2>2. GivenNames' = GivenNames
    BY <2>1 DEF GivenNames, WellFormed
  <2> QED
    BY <2>1, <2>2 DEF Distinct, RefusedForGiven
<1> QED
  BY <1>1, <1>2

(***************************************************************************)
(* ClashingNameIsGiven: generated names never clash with each other, for   *)
(* every command line.  ToString is an operator without a definition; what *)
(* is needed of it is that numbers that differ are written differently.    *)
(***************************************************************************)
THEOREM OnlyGivenNamesClash ==
    ASSUME NamesDiffer
    PROVE  Spec => []ClashingNameIsGiven
<1>1. Init => Distinct /\ RefusedForGiven
  BY DEF Init, Distinct, RefusedForGiven
<1>2. BuildInv /\ NameInv /\ Distinct /\ RefusedForGiven /\ [Next]_vars => Distinct' /\ RefusedForGiven'
  BY StepClash
<1>3. Distinct /\ RefusedForGiven => ClashingNameIsGiven
  BY DEF Distinct, RefusedForGiven, ClashingNameIsGiven
<1>4. BuildInv /\ [Next]_vars => BuildInv'
  BY StepBuild
<1>5. BuildInv /\ NameInv /\ [Next]_vars => NameInv'
  BY StepNames
<1> QED
  BY <1>1, <1>2, <1>3, <1>4, <1>5, InitBuild, InitNames, PTL DEF Spec

----------------------------------------------------------------------------
\* The types of what main and the threads keep, apart from the arguments and the names.
StateOK ==
    /\ listening \subseteq Sockets
    /\ pc \in Building \cup Started
                \cup {"destroyEths", "destroyChardevs", "destroyParticipant", "ended"}
    /\ provided \subseteq Sockets
    /\ chardevs \subseteq provided
    /\ eths \subseteq provided
    /\ registered \subseteq provided
    /\ exit \in {"none", "CodeSuccess", "CodeErrorCli", "CodeErrorConfiguration",
                 "CodeErrorOther", "killed", "terminated", "crashed"}
    /\ lifecycle \in {"created", "running", "stopped"}
    /\ sigint \in {"kills", "handled"}
    /\ released \in BOOLEAN
    /\ ioThread \in {"none", "running", "finished", "joined"}
    /\ ioStopped \in BOOLEAN
    /\ ioHandler \in Sockets \cup {NoSocket}
    /\ ioFailing \in BOOLEAN
    /\ broken \subseteq Sockets
    /\ skHandler \in Sockets \cup {NoSocket}

\* No step of main, of a handler or of the user breaks them.
LEMMA StepState ==
    ASSUME BuildInv, StateOK, [Next]_vars
    PROVE  StateOK'
<1> USE DEF StateOK, Building, Started, Adapters, Running, commandVars, namingVars, adapterVars, signalVars, ioVars
<1>1. CASE CheckOptions
  BY <1>1 DEF CheckOptions, Return
<1>2. CASE CreateParticipant
  BY <1>2 DEF CreateParticipant, Return
<1>3. CASE BuildAdapter
  <2>1. ASSUME NEW arg \in Range(todo), Processes(arg)
        PROVE  arg.socket \in Sockets
    <3>1. arg \in Argument
      BY <2>1, NextArgument
    <3> QED
      BY <3>1 DEF Argument
  <2>2. ASSUME NEW arg \in Range(todo), RejectArgument(arg)
        PROVE  StateOK'
    BY <2>1, <2>2 DEF RejectArgument, Processes, Throw, Remember
  <2>3. ASSUME NEW arg \in Range(todo), BuildChardev(arg)
        PROVE  StateOK'
    BY <2>1, <2>3 DEF BuildChardev, Processes, Connect, Throw, Remember
  <2>4. ASSUME NEW arg \in Range(todo), BuildEth(arg)
        PROVE  StateOK'
    <3>1. CASE Connect(arg)
      <4>1. Processes(arg) /\ arg.socket \in Sockets
        BY <2>1, <2>4 DEF BuildEth
      <4> QED
        BY <3>1, <4>1 DEF Processes, Connect, Throw, Remember
    <3>2. CASE Throw("CodeErrorConfiguration") /\ UNCHANGED <<chardevs, eths, registered>>
      BY <2>1, <2>4, <3>2 DEF BuildEth, Processes, Throw, Remember
    <3> QED
      BY <2>4, <3>1, <3>2 DEF BuildEth
  <2> QED
    BY <1>3, <2>2, <2>3, <2>4 DEF BuildAdapter
<1>4. CASE StartLifecycle
  BY <1>4 DEF StartLifecycle, Throw
<1>5. CASE SpawnIoThread
  BY <1>5 DEF SpawnIoThread, Throw
<1>6. CASE PromptForExit
  BY <1>6 DEF PromptForExit, Goto
<1>7. CASE StopIoContext
  BY <1>7 DEF StopIoContext, Goto
<1>8. CASE JoinIoThread
  BY <1>8 DEF JoinIoThread, Goto
<1>9. CASE StopLifecycle
  BY <1>9 DEF StopLifecycle, Goto
<1>10. CASE DestroyEths
  BY <1>10 DEF DestroyEths, Goto
<1>11. CASE DestroyChardevs
  BY <1>11 DEF DestroyChardevs, Goto
<1>12. CASE DestroyParticipant
  BY <1>12 DEF DestroyParticipant, Goto
<1>13. CASE UserInterrupts
  BY <1>13 DEF UserInterrupts, Interrupt
<1>14. ASSUME NEW s \in eths, SocketBreaks(s)
      PROVE  StateOK'
  BY <1>14 DEF SocketBreaks
<1>15. ASSUME NEW s \in registered, IoBegin(s)
      PROVE  StateOK'
  BY <1>15 DEF IoBegin
<1>16. CASE IoShutdown
  BY <1>16 DEF IoShutdown, StopAndRaise, Interrupt
<1>17. CASE IoEnd
  BY <1>17 DEF IoEnd
<1>18. CASE IoThreadFinishes
  BY <1>18 DEF IoThreadFinishes
<1>19. ASSUME NEW s \in registered, SkBegin(s)
      PROVE  StateOK'
  BY <1>19 DEF SkBegin
<1>20. CASE SkEnd
  BY <1>20 DEF SkEnd
<1>21. CASE UNCHANGED vars
  BY <1>21 DEF vars
<1>22. CASE ServingThrows
  BY <1>22 DEF ServingThrows, DestroyJoinableThread, Return
<1>23. CASE StopGivesUp
  BY <1>23 DEF StopGivesUp, Goto
<1>24. CASE SkCrashes
  BY <1>24 DEF SkCrashes, Return
<1> QED
  BY <1>1, <1>2, <1>3, <1>4, <1>5, <1>6, <1>7, <1>8, <1>9, <1>10, <1>11, <1>12, <1>13, <1>14, <1>15, <1>16, <1>17, <1>18, <1>19, <1>20, <1>21, <1>22, <1>23, <1>24 DEF Next, Main

\* Everything main and the threads keep has its type.
THEOREM TypeCorrect == Spec => []TypeOK
<1>1. Init => StateOK
  BY DEF Init, StateOK, Building
<1>2. BuildInv /\ StateOK /\ [Next]_vars => StateOK'
  BY StepState
<1>3. BuildInv /\ NameInv /\ StateOK => TypeOK
  <2> SUFFICES ASSUME BuildInv, NameInv, StateOK PROVE TypeOK
    OBVIOUS
  <2>1. commandLine \in CommandLines /\ todo \in Seq(Range(commandLine.args))
    BY DEF BuildInv, Processed
  <2>2. Len(Args) = Len(commandLine.args) /\ Range(commandLine.args) \subseteq Argument
    BY <2>1, ArgsFacts
  <2>3. todo \in Seq(Argument)
    BY <2>1, <2>2
  <2>4. Len(controllers) <= Len(commandLine.args)
    BY <2>2 DEF NameInv
  <2>5. count \in 1 .. Len(commandLine.args) + 1
    <3>1. commandLine.args \in Seq(Argument)
      BY <2>1, ArgsFacts
    <3>2. Len(commandLine.args) \in Nat
      BY <3>1
    <3> QED
      BY <2>2, <3>2 DEF NameInv
  <2> QED
    BY <2>1, <2>3, <2>4, <2>5 DEF TypeOK, StateOK, Building, Started
<1>4. BuildInv /\ [Next]_vars => BuildInv'
  BY StepBuild
<1>5. BuildInv /\ NameInv /\ [Next]_vars => NameInv'
  BY StepNames
<1> QED
  BY <1>1, <1>2, <1>3, <1>4, <1>5, InitBuild, InitNames, PTL DEF Spec
=============================================================================
