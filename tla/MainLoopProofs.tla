---------------------------- MODULE MainLoopProofs ----------------------------
(***************************************************************************)
(* For any loops and contexts, and runs nested to any depth: the SIGINT    *)
(* handler is given back to whom it was taken from, the flag does not      *)
(* outlive the runs, and no ^C is reported twice.                          *)
(*                                                                         *)
(* The saved handlers make a chain: only the outermost run has saved       *)
(* Guile's, since every further run starts from a callback of one that has *)
(* installed that of the bindings (SavedInv).                              *)
(***************************************************************************)
EXTENDS MainLoop, SequenceTheorems, TLAPS

\* Every run but the last is in a callback; all have saved the handler that
\* they found.
SavedInv ==
    /\ \A n \in 1..Len(stack) : n # Len(stack) => stack[n].at = "dispatch"
    /\ \A n \in 1..Len(stack) :
         stack[n].prev = IF n = 1 \/ stack[n].at = "new" THEN "guile" ELSE "bindings"

Outside == {"new", "returning", "raising"}

\* The handler is that of the bindings, but for a run that has not installed
\* it or has given it back.
HandlerInv ==
    handler = IF stack = <<>> THEN "guile"
              ELSE IF Top.at \notin Outside THEN "bindings"
              ELSE IF Len(stack) = 1 THEN "guile" ELSE "bindings"

Reported == TopAt("return") \/ TopAt("raise") \/ TopAt("returning") \/ TopAt("raising")

\* A flag that is up and has not been looked at stands for a SIGINT that no
\* run has reported.
FlagInv ==
    /\ stack = <<>> => ~caught
    /\ NoDoubleReport
    /\ caught /\ ~Reported => errors < interrupts

IInv == TypeOK /\ SavedInv /\ HandlerInv /\ FlagInv

-----------------------------------------------------------------------------
\* The stack, if there is one
LEMMA StackType ==
    ASSUME TypeOK
    PROVE  /\ stack \in Seq(Frames) /\ Len(stack) \in Nat /\ DOMAIN stack = 1..Len(stack)
           /\ \A n \in 1..Len(stack) : stack[n] \in Frames
           /\ stack # <<>> => Len(stack) \in 1..Len(stack) /\ Len(stack) > 0
           /\ stack = <<>> => Len(stack) = 0
  BY LenProperties, EmptySeq, ElementOfSeq DEF TypeOK

\* The innermost run goes to another place in the function.
LEMMA GotoType ==
    ASSUME TypeOK, stack # <<>>, NEW place \in Places, Goto(place)
    PROVE  /\ stack' \in Seq(Frames) /\ Len(stack') = Len(stack) /\ stack' # <<>>
           /\ \A n \in 1..Len(stack) : n # Len(stack) => stack'[n] = stack[n]
           /\ stack'[Len(stack)].at = place
           /\ stack'[Len(stack)].prev = Top.prev
<1> DEFINE frame == [Top EXCEPT !.at = place]
<1>1. /\ stack \in Seq(Frames) /\ Len(stack) \in Nat /\ Len(stack) \in 1..Len(stack)
      /\ Top \in Frames
  BY StackType DEF Top
<1>2. frame \in Frames /\ frame.at = place /\ frame.prev = Top.prev
  BY <1>1 DEF Frames
<1>3. stack' = [stack EXCEPT ![Len(stack)] = frame]
  BY DEF Goto, Top
<1> HIDE DEF frame
<1>4. /\ stack' \in Seq(Frames) /\ Len(stack') = Len(stack)
      /\ \A n \in 1..Len(stack) : stack'[n] = IF n = Len(stack) THEN frame ELSE stack[n]
  BY <1>1, <1>2, <1>3, ExceptSeq
<1>5. stack' # <<>>
  BY <1>1, <1>4
<1> QED
  BY <1>1, <1>2, <1>4, <1>5

\* A step of a run between its installation of the handler and its return
LEMMA InnerStep ==
    ASSUME IInv, stack # <<>>, Top.at \notin Outside,
           NEW place \in Places \ Outside, Goto(place), UNCHANGED handler
    PROVE  /\ stack' \in Seq(Frames) /\ Len(stack') <= MaxDepth
           /\ SavedInv' /\ HandlerInv' /\ stack' # <<>>
<1>1. /\ stack' \in Seq(Frames) /\ Len(stack') = Len(stack) /\ stack' # <<>>
      /\ \A n \in 1..Len(stack) : n # Len(stack) => stack'[n] = stack[n]
      /\ stack'[Len(stack)].at = place
      /\ stack'[Len(stack)].prev = Top.prev
  BY GotoType DEF IInv
<1>2. SavedInv'
  BY <1>1, StackType DEF IInv, SavedInv, Top, Outside
<1>3. HandlerInv'
  BY <1>1 DEF IInv, HandlerInv, Top
<1> QED
  BY <1>1, <1>2, <1>3 DEF IInv, TypeOK

\* The steps of a run that do not report anything
LEMMA QuietSafe ==
    ASSUME IInv, SetWakeup \/ Attach \/ HeadOfLoop \/ PollWoken \/ PollReady \/ Dispatched
    PROVE  IInv'
<1>1. PICK place \in {"waking", "head", "poll", "dispatch", "ended"} :
        /\ stack # <<>> /\ Top.at \in {"installed", "waking", "head", "poll", "dispatch"}
        /\ Goto(place)
        /\ UNCHANGED <<caught, handler, interrupts, errors>>
  BY DEF SetWakeup, Attach, HeadOfLoop, PollWoken, PollReady, Poll, Dispatched, TopAt
<1>2. Top.at \notin Outside /\ place \in Places \ Outside
  BY <1>1 DEF Outside, Places
<1>3. /\ stack' \in Seq(Frames) /\ Len(stack') <= MaxDepth
      /\ SavedInv' /\ HandlerInv' /\ stack' # <<>>
  BY <1>1, <1>2, InnerStep
<1>4. wakeup' \in Contexts /\ awake' \subseteq Contexts /\ running' \subseteq Loops
  <2>1. Top.loop \in Loops /\ Context \in Contexts
    BY <1>1, StackType, ContextAssumption DEF IInv, Top, Frames, Context
  <2> QED
    BY <2>1 DEF SetWakeup, PointWakeup, Attach, HeadOfLoop, PollWoken, PollReady, Poll, Check,
                Dispatched, IInv, TypeOK
<1>5. TypeOK'
  BY <1>1, <1>3, <1>4 DEF IInv, TypeOK
<1>6. ~Reported
  BY <1>1 DEF Reported, TopAt
<1>7. FlagInv'
  BY <1>1, <1>3, <1>6 DEF IInv, FlagInv, NoDoubleReport
<1> QED
  BY <1>3, <1>5, <1>7 DEF IInv

\* One error for the flag, which LookAtCaught leaves up
LEMMA LookAtCaughtSafe ==
    ASSUME IInv, LookAtCaught
    PROVE  IInv'
<1> DEFINE place == IF caught THEN "raise" ELSE "return"
<1>1. /\ stack # <<>> /\ Top.at = "ended" /\ Goto(place)
      /\ errors' = IF caught THEN errors + 1 ELSE errors
      /\ UNCHANGED <<caught, wakeup, handler, awake, running, interrupts>>
  BY DEF LookAtCaught, TopAt
<1>2. Top.at \notin Outside /\ place \in Places \ Outside /\ place \in {"return", "raise"}
  BY <1>1 DEF Outside, Places
<1> HIDE DEF place
<1>3. /\ stack' \in Seq(Frames) /\ Len(stack') <= MaxDepth
      /\ SavedInv' /\ HandlerInv' /\ stack' # <<>>
  BY <1>1, <1>2, InnerStep
<1>4. TypeOK'
  BY <1>1, <1>3 DEF IInv, TypeOK
<1>5. Reported' /\ ~Reported
  <2>1. stack'[Len(stack)].at = place /\ Len(stack') = Len(stack)
    BY <1>1, <1>2, GotoType DEF IInv
  <2> QED
    BY <1>1, <1>2, <1>3, <2>1 DEF Reported, TopAt, Top
<1>6. FlagInv'
  BY <1>1, <1>3, <1>5 DEF IInv, FlagInv, NoDoubleReport, TypeOK
<1> QED
  BY <1>3, <1>4, <1>6 DEF IInv

\* signal_source_finalize, up to sigaction
LEMMA RestoreHandlerSafe ==
    ASSUME IInv, RestoreHandler
    PROVE  IInv'
<1>1. PICK place \in {"returning", "raising"} :
        /\ stack # <<>> /\ Top.at \in {"return", "raise"} /\ Goto(place)
        /\ handler' = Top.prev
        /\ UNCHANGED <<caught, wakeup, awake, running, interrupts, errors>>
  BY DEF RestoreHandler, TopAt
<1>2. place \in Places /\ place \in Outside
  BY <1>1 DEF Places, Outside
<1>3. /\ stack' \in Seq(Frames) /\ Len(stack') = Len(stack) /\ stack' # <<>>
      /\ \A n \in 1..Len(stack) : n # Len(stack) => stack'[n] = stack[n]
      /\ stack'[Len(stack)].at = place
      /\ stack'[Len(stack)].prev = Top.prev
  BY <1>1, <1>2, GotoType DEF IInv
<1>4. Top.prev = IF Len(stack) = 1 THEN "guile" ELSE "bindings"
  BY <1>1, StackType DEF IInv, SavedInv, Top
<1>5. SavedInv'
  BY <1>1, <1>3, <1>4, StackType DEF IInv, SavedInv
<1>6. HandlerInv'
  BY <1>1, <1>2, <1>3, <1>4 DEF HandlerInv, Top
<1>7. TypeOK'
  BY <1>1, <1>3, <1>4 DEF IInv, TypeOK, Handlers
<1>8. Reported /\ Reported'
  BY <1>1, <1>3 DEF Reported, TopAt, Top
<1>9. FlagInv'
  BY <1>1, <1>3, <1>8 DEF IInv, FlagInv, NoDoubleReport
<1> QED
  BY <1>5, <1>6, <1>7, <1>9 DEF IInv

\* A run begins, at top level or in a callback.
LEMMA RunSafe ==
    ASSUME IInv, NEW l \in Loops, Run(l)
    PROVE  IInv'
<1> DEFINE frame == [loop |-> l, prev |-> "guile", at |-> "new", asked |-> FALSE]
<1>1. /\ stack = <<>> \/ (stack # <<>> /\ Top.at = "dispatch")
      /\ Len(stack) < MaxDepth /\ stack' = Append(stack, frame) /\ caught' = FALSE
      /\ UNCHANGED <<wakeup, handler, awake, running, interrupts, errors>>
  BY DEF Run, TopAt
<1>2. frame \in Frames /\ frame.at = "new" /\ frame.prev = "guile"
  BY DEF Frames, Handlers, Places
<1> HIDE DEF frame
<1>3. /\ stack' \in Seq(Frames) /\ Len(stack') = Len(stack) + 1 /\ stack' # <<>>
      /\ \A n \in 1..Len(stack) : stack'[n] = stack[n]
      /\ stack'[Len(stack) + 1] = frame
  BY <1>1, <1>2, StackType, AppendProperties DEF IInv
<1>4. SavedInv'
  <2>1. \A n \in 1..Len(stack) : stack[n].at = "dispatch"
    <3>1. stack = <<>> => 1..Len(stack) = {}
      BY StackType DEF IInv
    <3>2. \A n \in 1..Len(stack) : n # Len(stack) => stack[n].at = "dispatch"
      BY DEF IInv, SavedInv
    <3>3. stack # <<>> => stack[Len(stack)].at = "dispatch"
      BY <1>1 DEF Top
    <3> QED
      BY <3>1, <3>2, <3>3
  <2>2. \A n \in 1..Len(stack') : n \in 1..Len(stack) \/ n = Len(stack')
    BY <1>3, StackType DEF IInv
  <2> QED
    BY <1>2, <1>3, <2>1, <2>2, StackType DEF IInv, SavedInv
<1>5. HandlerInv'
  BY <1>1, <1>2, <1>3, StackType DEF IInv, HandlerInv, Top, Outside
<1>6. TypeOK'
  <2>1. Len(stack') <= MaxDepth
    BY <1>1, <1>3, BoundsAssumption, StackType DEF IInv
  <2> QED
    BY <1>1, <1>3, <2>1 DEF IInv, TypeOK
<1>7. FlagInv'
  BY <1>1 DEF IInv, FlagInv, NoDoubleReport
<1> QED
  BY <1>4, <1>5, <1>6, <1>7 DEF IInv

\* sigaction, which gives the run the handler that was there
LEMMA InstallHandlerSafe ==
    ASSUME IInv, InstallHandler
    PROVE  IInv'
<1> DEFINE frame == [Top EXCEPT !.prev = handler, !.at = "installed"]
<1>1. /\ stack # <<>> /\ Top.at = "new" /\ handler' = "bindings"
      /\ stack' = [stack EXCEPT ![Len(stack)] = frame]
      /\ UNCHANGED <<caught, wakeup, awake, running, interrupts, errors>>
  BY DEF InstallHandler, TopAt, SaveHandler, Top
<1>2. Top \in Frames /\ Len(stack) \in 1..Len(stack)
  BY <1>1, StackType DEF IInv, Top
<1>3. frame \in Frames /\ frame.at = "installed" /\ frame.prev = handler
  BY <1>2 DEF Frames, Places, IInv, TypeOK
<1> HIDE DEF frame
<1>4. /\ stack' \in Seq(Frames) /\ Len(stack') = Len(stack)
      /\ \A n \in 1..Len(stack) : stack'[n] = IF n = Len(stack) THEN frame ELSE stack[n]
  BY <1>1, <1>2, <1>3, StackType, ExceptSeq DEF IInv
<1>5. stack' # <<>>
  BY <1>1, <1>4, StackType DEF IInv
<1>6. handler = IF Len(stack) = 1 THEN "guile" ELSE "bindings"
  BY <1>1 DEF IInv, HandlerInv, Outside
<1>7. SavedInv'
  BY <1>1, <1>3, <1>4, <1>6, StackType DEF IInv, SavedInv
<1>8. HandlerInv'
  BY <1>1, <1>2, <1>3, <1>4, <1>5 DEF HandlerInv, Top, Outside
<1>9. TypeOK'
  BY <1>1, <1>4 DEF IInv, TypeOK, Handlers
<1>10. ~Reported
  BY <1>1 DEF Reported, TopAt
<1>11. FlagInv'
  BY <1>1, <1>5, <1>10 DEF IInv, FlagInv, NoDoubleReport
<1> QED
  BY <1>7, <1>8, <1>9, <1>11 DEF IInv

\* A run is over; the one further out, if any, goes on in its callback.
LEMMA FinalizeSafe ==
    ASSUME IInv, Finalize
    PROVE  IInv'
<1> DEFINE n == Len(stack)
<1>1. /\ stack # <<>> /\ Top.at \in {"returning", "raising"} /\ caught' = FALSE
      /\ stack' = SubSeq(stack, 1, n - 1)
      /\ UNCHANGED <<wakeup, handler, awake, running, interrupts, errors>>
  BY DEF Finalize, TopAt, ResetCaught
<1>2. n \in Nat /\ n > 0 /\ \A k \in 1..n : stack[k] \in Frames
  BY <1>1, StackType DEF IInv
<1>3. /\ stack' \in Seq(Frames) /\ Len(stack') = n - 1
      /\ \A k \in 1..(n - 1) : stack'[k] = stack[k]
  <2>1. \A k \in 1..(n - 1) : stack[k] \in Frames
    BY <1>2
  <2>2. n - 1 \in Int /\ 1 \in Int
    BY <1>2
  <2>3. /\ SubSeq(stack, 1, n - 1) \in Seq(Frames)
        /\ Len(SubSeq(stack, 1, n - 1)) = IF 1 <= n - 1 THEN (n - 1) - 1 + 1 ELSE 0
        /\ \A k \in 1..((n - 1) - 1 + 1) : SubSeq(stack, 1, n - 1)[k] = stack[1 + k - 1]
    BY <2>1, <2>2, SubSeqProperties
  <2> HIDE DEF n
  <2> QED
    BY <1>1, <1>2, <2>3
<1>4. Top.prev = IF n = 1 THEN "guile" ELSE "bindings"
  <2>1. n \in 1..n /\ stack[n].at # "new" /\ Top = stack[n]
    BY <1>1, <1>2 DEF Top
  <2> QED
    BY <2>1 DEF IInv, SavedInv
<1>5. handler = IF n = 1 THEN "guile" ELSE "bindings"
  BY <1>1 DEF IInv, HandlerInv, Outside
<1>6. SavedInv'
  BY <1>2, <1>3 DEF IInv, SavedInv
<1>7. stack' = <<>> <=> n = 1
  BY <1>2, <1>3, EmptySeq
<1>8. n # 1 => stack[n - 1].at = "dispatch"
  <2>1. n # 1 => n - 1 \in 1..n /\ n - 1 # n
    BY <1>2
  <2> QED
    BY <2>1 DEF IInv, SavedInv
<1>9. HandlerInv'
  <2> HIDE DEF n
  <2> QED
    BY <1>1, <1>2, <1>3, <1>5, <1>7, <1>8 DEF HandlerInv, Top, Outside
<1>10. TypeOK'
  <2>1. Len(stack') <= MaxDepth
    BY <1>2, <1>3, BoundsAssumption DEF IInv, TypeOK
  <2> QED
    BY <1>1, <1>3, <2>1 DEF IInv, TypeOK
<1>11. FlagInv'
  BY <1>1 DEF IInv, FlagInv, NoDoubleReport
<1> QED
  BY <1>6, <1>9, <1>10, <1>11 DEF IInv

\* g-main-loop-quit leaves the runs where they are.
LEMMA QuitSafe ==
    ASSUME IInv, NEW l \in Loops, Quit(l)
    PROVE  IInv'
<1> DEFINE asked(n) == IF stack[n].loop = l THEN [stack[n] EXCEPT !.asked = TRUE] ELSE stack[n]
<1>1. /\ stack # <<>> /\ Top.at = "dispatch"
      /\ running' = running \ {l} /\ stack' = [n \in 1..Len(stack) |-> asked(n)]
      /\ UNCHANGED <<caught, wakeup, handler, awake, interrupts, errors>>
  BY DEF Quit, TopAt
<1>2. /\ Len(stack) \in Nat /\ Len(stack) \in 1..Len(stack)
      /\ \A n \in 1..Len(stack) : stack[n] \in Frames
  BY <1>1, StackType DEF IInv
<1>3. \A n \in 1..Len(stack) :
        asked(n) \in Frames /\ asked(n).at = stack[n].at /\ asked(n).prev = stack[n].prev
  BY <1>2 DEF Frames
<1> HIDE DEF asked
<1>4. stack' \in Seq(Frames) /\ Len(stack') = Len(stack) /\ stack' # <<>>
  BY <1>1, <1>2, <1>3
<1>5. \A n \in 1..Len(stack) : stack'[n].at = stack[n].at /\ stack'[n].prev = stack[n].prev
  BY <1>1, <1>3
<1>6. SavedInv'
  BY <1>4, <1>5 DEF IInv, SavedInv
<1>7. HandlerInv'
  BY <1>1, <1>2, <1>4, <1>5 DEF IInv, HandlerInv, Top
<1>8. TypeOK'
  BY <1>1, <1>4 DEF IInv, TypeOK
<1>9. ~Reported
  BY <1>1 DEF Reported, TopAt
<1>10. FlagInv'
  BY <1>1, <1>4, <1>9 DEF IInv, FlagInv, NoDoubleReport
<1> QED
  BY <1>6, <1>7, <1>8, <1>10 DEF IInv

\* sigint_handler runs only while a run has it installed.
LEMMA InterruptSafe ==
    ASSUME IInv, Interrupt
    PROVE  IInv'
<1>1. /\ handler = "bindings" /\ interrupts < MaxInterrupts /\ caught' = TRUE
      /\ awake' = awake \cup {wakeup} /\ interrupts' = interrupts + 1
      /\ UNCHANGED <<wakeup, handler, running, stack, errors>>
  BY DEF Interrupt, WakeUp
<1>2. stack # <<>>
  BY <1>1 DEF IInv, HandlerInv
<1>3. TypeOK'
  BY <1>1, BoundsAssumption DEF IInv, TypeOK
<1>4. SavedInv' /\ HandlerInv'
  BY <1>1 DEF IInv, SavedInv, HandlerInv, Top
<1>5. errors <= interrupts /\ errors \in Nat /\ interrupts \in Nat
  BY DEF IInv, TypeOK, FlagInv, NoDoubleReport
<1>6. FlagInv'
  BY <1>1, <1>2, <1>5 DEF FlagInv, NoDoubleReport
<1> QED
  BY <1>3, <1>4, <1>6 DEF IInv

\* At the start nothing runs.
LEMMA InitSafe == Init => IInv
<1> SUFFICES ASSUME Init PROVE IInv
  OBVIOUS
<1>1. /\ stack = <<>> /\ Len(stack) = 0 /\ stack \in Seq(Frames)
      /\ caught = FALSE /\ handler = "guile" /\ errors = 0 /\ interrupts = 0
  BY DEF Init
<1>2. TypeOK
  <2>1. /\ Len(stack) <= MaxDepth /\ interrupts \in 0..MaxInterrupts /\ errors \in Nat
    BY <1>1, BoundsAssumption
  <2>2. wakeup \in Contexts /\ awake \subseteq Contexts /\ running \subseteq Loops
    BY ContextAssumption DEF Init
  <2> QED
    BY <1>1, <2>1, <2>2 DEF TypeOK, Handlers
<1> QED
  BY <1>1, <1>2 DEF IInv, SavedInv, HandlerInv, FlagInv, NoDoubleReport

\* Every step keeps it.
LEMMA StepSafe == IInv /\ [Next]_vars => IInv'
<1> SUFFICES ASSUME IInv, [Next]_vars PROVE IInv'
  OBVIOUS
<1>1. CASE Step
  BY <1>1, InstallHandlerSafe, QuietSafe, LookAtCaughtSafe, RestoreHandlerSafe, FinalizeSafe DEF Step
<1>2. CASE PollReady
  BY <1>2, QuietSafe
<1>3. CASE Interrupt
  BY <1>3, InterruptSafe
<1>4. CASE \E l \in Loops : Run(l) \/ Quit(l)
  BY <1>4, RunSafe, QuitSafe
<1>5. CASE UNCHANGED vars
  BY <1>5 DEF vars, IInv, TypeOK, SavedInv, HandlerInv, FlagInv, NoDoubleReport, Reported, TopAt, Top
<1> QED
  BY <1>1, <1>2, <1>3, <1>4, <1>5 DEF Next

\* The invariant holds throughout.
LEMMA Invariant == Spec => []IInv
  BY InitSafe, StepSafe, PTL DEF Spec

-----------------------------------------------------------------------------
\* When the last run is over, by a return or by an error and from whatever
\* depth, Guile has its handler back and the flag is down.
THEOREM HandlerGivenBack == Spec => []NothingLeftBehind
<1>1. IInv => NothingLeftBehind
  BY DEF IInv, HandlerInv, FlagInv, NothingLeftBehind
<1> QED
  BY <1>1, Invariant, PTL

\* While a run polls or runs callbacks, SIGINT reaches the bindings, or will
\* again when the run inside it is over.
THEOREM InterruptsArrive == Spec => []HandlerInstalled
<1>1. IInv => HandlerInstalled
  <2> SUFFICES ASSUME IInv, NEW n \in 1..Len(stack),
                      stack[n].at \in {"head", "poll", "dispatch", "ended"}
               PROVE  handler = "bindings" \/ (n < Len(stack) /\ stack[n + 1].prev = "bindings")
    BY DEF HandlerInstalled
  <2>1. Len(stack) \in Nat /\ stack # <<>>
    BY StackType DEF IInv
  <2>2. CASE n = Len(stack)
    BY <2>1, <2>2 DEF IInv, HandlerInv, Top, Outside
  <2>3. CASE n < Len(stack)
    <3>1. n + 1 \in 1..Len(stack) /\ n + 1 # 1
      BY <2>1, <2>3
    <3>2. CASE stack[n + 1].at # "new"
      BY <2>3, <3>1, <3>2 DEF IInv, SavedInv
    <3>3. CASE stack[n + 1].at = "new"
      <4>1. n + 1 = Len(stack)
        BY <3>1, <3>3 DEF IInv, SavedInv
      <4> QED
        BY <2>1, <3>1, <3>3, <4>1 DEF IInv, HandlerInv, Top
    <3> QED
      BY <3>2, <3>3
  <2> QED
    BY <2>1, <2>2, <2>3
<1> QED
  BY <1>1, Invariant, PTL

\* However many runs look at the one flag, they raise no more errors than
\* there were SIGINTs.
THEOREM OneErrorPerInterrupt == Spec => []NoDoubleReport
<1>1. IInv => NoDoubleReport
  BY DEF IInv, FlagInv
<1> QED
  BY <1>1, Invariant, PTL
===============================================================================
