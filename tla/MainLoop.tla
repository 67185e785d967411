------------------------------ MODULE MainLoop ------------------------------
(***************************************************************************)
(* g-main-loop-run and SIGINT (glib/gnome/gw/glib-support.c:126-258).      *)
(*                                                                         *)
(* While a main loop runs, the bindings put a handler of their own in the  *)
(* place of Guile's SIGINT handler.  It sets the global caught_intr and    *)
(* wakes wakeup_context; the check function of a source that every run     *)
(* attaches to its context then quits the loop, and the run raises an      *)
(* error.  A callback that a loop dispatches may run another loop, so runs *)
(* nest.                                                                   *)
(*                                                                         *)
(* The stack of runs is the C stack of the one thread that runs loops;     *)
(* SIGINT comes between any two of its steps.                              *)
(***************************************************************************)
EXTENDS Naturals, Sequences

CONSTANTS
    Loops,             \* GMainLoops
    Contexts,          \* GMainContexts
    Default,           \* the default context
    ContextOf,         \* ContextOf[l]: the context of loop l
    MaxDepth,          \* bound: nested runs
    MaxInterrupts      \* bound: SIGINTs that loops take

ASSUME ContextAssumption ==
    Default \in Contexts /\ ContextOf \in [Loops -> Contexts]
ASSUME BoundsAssumption == MaxDepth \in Nat /\ MaxInterrupts \in Nat

VARIABLES
    caught,        \* caught_intr
    wakeup,        \* wakeup_context; NULL stands for the default context
    handler,       \* whose SIGINT handler is installed
    awake,         \* contexts whose next poll returns at once
    running,       \* loops whose is_running is set
    stack,         \* runs of _wrap_g_main_loop_run, innermost last
    interrupts,    \* how many SIGINTs sigint_handler has taken
    errors         \* how many runs have raised the error

vars == <<caught, wakeup, handler, awake, running, stack, interrupts, errors>>

Handlers == {"guile", "bindings"}

\* Where a run is: before sigaction, before wakeup_context is set, before the
\* source is attached, at the head of the loop, in poll, dispatching callbacks,
\* after g_main_loop_run, and in g_source_destroy, on its way to a return or to
\* an error, before and after sigaction.
Places == {"new", "installed", "waking", "head", "poll", "dispatch", "ended"}
          \cup {"return", "raise"} \cup {"returning", "raising"}

\* prev is prev_sigaction; asked: somebody called g-main-loop-quit on the loop.
Frames == [loop : Loops, prev : Handlers, at : Places, asked : BOOLEAN]

TypeOK ==
    /\ caught \in BOOLEAN
    /\ wakeup \in Contexts
    /\ handler \in Handlers
    /\ awake \subseteq Contexts
    /\ running \subseteq Loops
    /\ stack \in Seq(Frames) /\ Len(stack) <= MaxDepth
    /\ interrupts \in 0..MaxInterrupts
    /\ errors \in Nat

Init ==
    /\ caught = FALSE
    /\ wakeup = Default
    /\ handler = "guile"
    /\ awake = {}
    /\ running = {}
    /\ stack = <<>>
    /\ interrupts = 0
    /\ errors = 0

-----------------------------------------------------------------------------
Top == stack[Len(stack)]
TopAt(place) == stack # <<>> /\ Top.at = place
Goto(place) == stack' = [stack EXCEPT ![Len(stack)].at = place]
Context == ContextOf[Top.loop]

\* The sources that are attached to context c, by the runs that own them.
Attached(c) ==
    {n \in 1..Len(stack) :
        /\ ContextOf[stack[n].loop] = c
        /\ stack[n].at \notin {"new", "installed", "waking"}}

-----------------------------------------------------------------------------
(* _wrap_g_main_loop_run and signal_source_new *)

\* Called by the program, or by a callback.
Run(l) ==
    /\ stack = <<>> \/ TopAt("dispatch")
    /\ Len(stack) < MaxDepth
    /\ caught' = FALSE
    /\ stack' = Append(stack,
                    [loop |-> l, prev |-> "guile", at |-> "new", asked |-> FALSE])
    /\ UNCHANGED <<wakeup, handler, awake, running, interrupts, errors>>

\* Mutant: prev_sigaction stays all zero, SIG_DFL or whatever Guile had.
ForgetHandler == [stack EXCEPT ![Len(stack)].at = "installed"]

SaveHandler == [stack EXCEPT ![Len(stack)] =
                   [@ EXCEPT !.prev = handler, !.at = "installed"]]

InstallHandler ==
    /\ TopAt("new")
    /\ handler' = "bindings"
    /\ stack' = SaveHandler
    /\ UNCHANGED <<caught, wakeup, awake, running, interrupts, errors>>

PointWakeup == wakeup' = Context

SetWakeup ==
    /\ TopAt("installed")
    /\ PointWakeup
    /\ Goto("waking")
    /\ UNCHANGED <<caught, handler, awake, running, interrupts, errors>>

\* g_source_attach, and the start of g_main_loop_run.
Attach ==
    /\ TopAt("waking")
    /\ running' = running \cup {Top.loop}
    /\ Goto("head")
    /\ UNCHANGED <<caught, wakeup, handler, awake, interrupts, errors>>

-----------------------------------------------------------------------------
(* g_main_loop_run *)

HeadOfLoop ==
    /\ TopAt("head")
    /\ Goto(IF Top.loop \in running THEN "poll" ELSE "ended")
    /\ UNCHANGED <<caught, wakeup, handler, awake, running, interrupts, errors>>

\* signal_source_check, for each source that is attached to the context.
Check ==
    running' = IF caught
               THEN running \ {stack[n].loop : n \in Attached(Context)}
               ELSE running

\* poll returns because the context was woken, or because a file or a timer is
\* ready; the sources are checked, and the callbacks of the ready ones called.
Poll(place) ==
    /\ TopAt("poll")
    /\ awake' = awake \ {Context}
    /\ Check
    /\ Goto(place)
    /\ UNCHANGED <<caught, wakeup, handler, interrupts, errors>>

PollWoken == Poll("head") /\ Context \in awake
PollReady == Poll("dispatch")

Dispatched ==
    /\ TopAt("dispatch")
    /\ Goto("head")
    /\ UNCHANGED <<caught, wakeup, handler, awake, running, interrupts, errors>>

\* g-main-loop-quit, called by a callback.
Quit(l) ==
    /\ TopAt("dispatch")
    /\ running' = running \ {l}
    /\ stack' = [n \in 1..Len(stack) |->
                    IF stack[n].loop = l THEN [stack[n] EXCEPT !.asked = TRUE]
                    ELSE stack[n]]
    /\ UNCHANGED <<caught, wakeup, handler, awake, interrupts, errors>>

-----------------------------------------------------------------------------
(* The end of _wrap_g_main_loop_run *)

\* The error goes as far as the callback that ran the loop: scm_with_guile
\* around a callback lets no error out.
LookAtCaught ==
    /\ TopAt("ended")
    /\ Goto(IF caught THEN "raise" ELSE "return")
    /\ errors' = IF caught THEN errors + 1 ELSE errors
    /\ UNCHANGED <<caught, wakeup, handler, awake, running, interrupts>>

\* signal_source_finalize
RestoreHandler ==
    /\ TopAt("return") \/ TopAt("raise")
    /\ handler' = Top.prev
    /\ Goto(IF TopAt("return") THEN "returning" ELSE "raising")
    /\ UNCHANGED <<caught, wakeup, awake, running, interrupts, errors>>

\* Mutant: the flag stays up for the runs further out.
KeepCaught == UNCHANGED caught

ResetCaught == caught' = FALSE

Finalize ==
    /\ TopAt("returning") \/ TopAt("raising")
    /\ ResetCaught
    /\ stack' = SubSeq(stack, 1, Len(stack) - 1)
    /\ UNCHANGED <<wakeup, handler, awake, running, interrupts, errors>>

-----------------------------------------------------------------------------
\* Mutant: set the flag and let the poll sleep.
WakeNothing == UNCHANGED awake

WakeUp == awake' = awake \cup {wakeup}

\* sigint_handler; Guile's own handler is not our concern.
Interrupt ==
    /\ handler = "bindings"
    /\ interrupts < MaxInterrupts
    /\ caught' = TRUE
    /\ WakeUp
    /\ interrupts' = interrupts + 1
    /\ UNCHANGED <<wakeup, handler, running, stack, errors>>

\* The steps that the thread takes without anybody doing something first.
Step ==
    \/ InstallHandler \/ SetWakeup \/ Attach
    \/ HeadOfLoop \/ PollWoken \/ Dispatched
    \/ LookAtCaught \/ RestoreHandler \/ Finalize

Next ==
    \/ Step
    \/ PollReady
    \/ Interrupt
    \/ \E l \in Loops : Run(l) \/ Quit(l)

Spec == Init /\ [][Next]_vars

\* The thread goes on, and so do its callbacks; nobody has to press ^C, call
\* g-main-loop-quit or write to a file.
FairSpec == Spec /\ WF_vars(Step)
-----------------------------------------------------------------------------
(* Correctness *)

\* Runs that end, in whatever way and however nested, give each other and
\* finally Guile the SIGINT handler back, and leave no flag up for the next.
NothingLeftBehind ==
    stack = <<>> => handler = "guile" /\ ~caught

\* While a run is past its installation, SIGINT reaches the bindings; the run
\* further out has it back when a nested one is done.
HandlerInstalled ==
    \A n \in 1..Len(stack) :
        stack[n].at \in {"head", "poll", "dispatch", "ended"}
           => \/ handler = "bindings"
              \/ n < Len(stack) /\ stack[n + 1].prev = "bindings"

\* One ^C raises at most one error, although every nested run looks at the
\* same flag.
NoDoubleReport == errors <= interrupts

\* glib/ChangeLog.pre-2.16:1065: a loop that is polling when SIGINT comes is
\* woken and stops.
Polls(l) == TopAt("poll") /\ Top.loop = l
InterruptStopsLoop == \A l \in Loops : caught /\ Polls(l) ~> l \notin running

\* A ^C that the bindings got is reported by some run before the last is over.
\* (_wrap_g_main_loop_run resets the flag, and so does signal_source_finalize)
NoInterruptLost == stack = <<>> /\ interrupts > 0 => errors > 0

\* glib/doc/glib/defuns-main.xml.texi:46: g-main-loop-run runs until
\* g-main-loop-quit is called on the loop; otherwise it raises an error.
ReturnsOnlyWhenAsked ==
    \A n \in 1..Len(stack) : stack[n].at = "return" => stack[n].asked
=============================================================================
