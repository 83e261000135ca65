----------------------------- MODULE Exceptions -----------------------------
(***************************************************************************)
(* The log of src/log.c under the signal handler of src/except.c, with the   *)
(* stack trace of src/debug.c that the handler prints (the POSIX versions).  *)
(*                                                                          *)
(* Each thread has a stack of frames: the logging call or the call of malloc *)
(* or free that it is in, the handler of a signal that has interrupted it,   *)
(* the call that the handler makes, and so on.  Only the topmost frame of a  *)
(* thread takes steps.  A signal is blocked in a thread that is in its       *)
(* handler, and the handler does not return, so that the stacks are bounded. *)
(***************************************************************************)
EXTENDS Naturals, Sequences, FiniteSets, SequencesExt

CONSTANTS
  Threads,
  Caller,    \* the thread that calls cc_except_init and cc_except_fini
  Signals,   \* the signals in the order in which their actions are set
  Asserts,   \* TRUE in a debug build, FALSE under NDEBUG
  MaxCalls,  \* bound: calls of cc_log, malloc and free by each thread outside of handlers
  MaxSignals,  \* bound: signals that arrive
  Nobody     \* no owner of a lock, no frame, no message

SignalSet == {Signals[i] : i \in DOMAIN Signals}

ASSUME ExceptionsAssumption ==
  /\ Caller \in Threads
  /\ Nobody \notin Threads \cup SignalSet \cup Threads \X Nat
  /\ Signals \in Seq({"SIGSEGV", "SIGABRT", "SIGFPE", "SIGINT", "SIGILL", "SIGTERM"}) \ {<<>>}
  /\ IsInjective(Signals)
  /\ Asserts \in BOOLEAN

VARIABLES
  program,       \* the actions of the signals that the program has set
  action,        \* the actions that are in force; "ours" is handle_posix_sig
  old,           \* old_sigsegv and so on
  phase,         \* of the caller: "off", "stack", "installing", "on" or "restoring"
  position,      \* how many signals it has dealt with in an installation or restoration
  altstack,      \* the threads whose handlers have a stack of their own
  stack,         \* the frames of each thread
  stream_mutex,  \* its owner
  line,          \* the frame that has printed a part of its line, or Nobody
  calls,         \* calls of cc_log, malloc and free so far
  msg,           \* the static pointer of cc_print_stack, a frame or Nobody
  heap,          \* the messages that are allocated, each named by its frame
  heap_lock,     \* the owner of the lock that malloc and free take
  ended          \* "no", "exited", "crashed" in a handler or "killed" outside of one

install == <<program, action, old, phase, position, altstack>>
output == <<stream_mutex, line, calls>>
memory == <<msg, heap, heap_lock>>
vars == <<install, output, memory, stack, ended>>

\* The state of a frame: where it is; the signal of a handler; of a logging call the
\* pieces that it has still to print; the message that a call prints or frees.
Frame(at, sig, left, str) == [at |-> at, sig |-> sig, left |-> left, str |-> str]

Call(left, str) == Frame("lock", Nobody, left, str)

\* free(str), or malloc if str is Nobody.
HeapCall(str) == Frame("heap", Nobody, 0, str)

Depth(t) == Len(stack[t])

Top(t) == IF stack[t] = <<>> THEN Frame("none", Nobody, 0, Nobody) ELSE Last(stack[t])

This(t) == <<t, Depth(t)>>

\* The frames of handlers.
Handlers == UNION {{<<t, i>> : i \in {j \in DOMAIN stack[t] : stack[t][j].sig # Nobody}} :
                   t \in Threads}

\* The topmost frame goes on at l.
Goto(t, l) == stack' = [stack EXCEPT ![t][Depth(t)].at = l]

\* The same, and it makes a call.
GotoAfter(t, l, call) ==
  stack' = [stack EXCEPT ![t] = Append([@ EXCEPT ![Depth(t)].at = l], call)]

Crash == ended' = "crashed" /\ UNCHANGED <<install, output, memory, stack>>

-----------------------------------------------------------------------------
(* cc_except_init and cc_except_fini.  Each sigaction is an argument of      *)
(* CCASSERT, so that under NDEBUG none is called.                            *)

\* The caller does not initialise twice: CCASSERT(!inited).
CallInit == /\ phase = "off"
            /\ stack[Caller] = <<>>
            /\ phase' = IF Asserts THEN "stack" ELSE "on"
            /\ UNCHANGED <<program, action, old, position, altstack, output, memory, stack, ended>>

\* Fault: there is no alternate stack.
WithoutStack == altstack

WithStack == altstack \cup {Caller}

\* sigaltstack, an argument of CCASSERT too, is about the thread that calls it alone,
\* and lasts beyond cc_except_fini.
SetStack == /\ phase = "stack"
            /\ stack[Caller] = <<>>
            /\ altstack' = WithStack
            /\ phase' = "installing"
            /\ UNCHANGED <<program, action, old, position, output, memory, stack, ended>>

Install == /\ phase = "installing"
           /\ stack[Caller] = <<>>
           /\ LET s == Signals[position + 1]
              IN  /\ old' = [old EXCEPT ![s] = action[s]]
                  /\ action' = [action EXCEPT ![s] = "ours"]
           /\ position' = (position + 1) % Len(Signals)
           /\ phase' = IF position' = 0 THEN "on" ELSE "installing"
           /\ UNCHANGED <<program, altstack, output, memory, stack, ended>>

CallFini == /\ phase = "on"
            /\ stack[Caller] = <<>>
            /\ phase' = IF Asserts THEN "restoring" ELSE "off"
            /\ UNCHANGED <<program, action, old, position, altstack, output, memory, stack, ended>>

\* Fault: the last signal is forgotten.
RestoredShort(s) == IF s = Last(Signals) THEN action ELSE [action EXCEPT ![s] = old[s]]

Restored(s) == [action EXCEPT ![s] = old[s]]

Restore == /\ phase = "restoring"
           /\ stack[Caller] = <<>>
           /\ action' = Restored(Signals[position + 1])
           /\ position' = (position + 1) % Len(Signals)
           /\ phase' = IF position' = 0 THEN "off" ELSE "restoring"
           /\ UNCHANGED <<program, old, altstack, output, memory, stack, ended>>

-----------------------------------------------------------------------------
(* cc_log, cc_printf and cc_print *)

\* A thread of the program, outside of handlers, makes a call.
Begin(t, call) == /\ stack[t] = <<>>
                  /\ t = Caller => phase \in {"off", "on"}
                  /\ calls[t] < MaxCalls
                  /\ calls' = [calls EXCEPT ![t] = @ + 1]
                  /\ stack' = [stack EXCEPT ![t] = <<call>>]
                  /\ UNCHANGED <<install, stream_mutex, line, memory, ended>>

\* cc_log prints the prefix, the text and the end of the line, the others one piece.
Log(t) == Begin(t, Call(3, Nobody))

\* Fault: a mutex that its owner may lock again.
MayLockAgain(t) == stream_mutex \in {Nobody, t}

MayLock(t) == stream_mutex = Nobody

Lock(t) == /\ Top(t).at = "lock"
           /\ MayLock(t)
           /\ stream_mutex' = t
           /\ Goto(t, "print")
           /\ UNCHANGED <<install, line, calls, memory, ended>>

PrintPiece(t) ==
  /\ Top(t).at = "print"
  /\ Top(t).left > 1
  /\ stack' = [stack EXCEPT ![t][Depth(t)].left = @ - 1]
  /\ line' = This(t)
  /\ UNCHANGED <<install, stream_mutex, calls, memory, ended>>

\* Fault: the mutex stays locked.
Keep == UNCHANGED stream_mutex

Unlock == stream_mutex' = Nobody

\* Prints the last piece, unlocks the mutex and returns.
PrintLast(t) ==
  /\ Top(t).at = "print"
  /\ Top(t).left = 1
  /\ Top(t).str \in heap \cup {Nobody}
  /\ stack' = [stack EXCEPT ![t] = Front(@)]
  /\ line' = Nobody
  /\ Unlock
  /\ UNCHANGED <<install, calls, memory, ended>>

\* The message is no longer allocated.
PrintFreed(t) == /\ Top(t).at = "print"
                 /\ Top(t).str \notin heap \cup {Nobody}
                 /\ Crash

-----------------------------------------------------------------------------
(* malloc and free of libc, with the lock of the heap, which no thread may    *)
(* take twice.  backtrace_symbols allocates too.                              *)

\* A call of malloc or free anywhere in the program, on a block that is no message.
UseHeap(t) == Begin(t, HeapCall(Nobody))

HeapLock(t) == /\ Top(t).at = "heap"
               /\ heap_lock = Nobody
               /\ heap_lock' = t
               /\ Goto(t, "held")
               /\ UNCHANGED <<install, output, msg, heap, ended>>

HeapReturn(t) == /\ Top(t).at = "held"
                 /\ Top(t).str \in heap \cup {Nobody}
                 /\ heap' = heap \ {Top(t).str}
                 /\ heap_lock' = Nobody
                 /\ stack' = [stack EXCEPT ![t] = Front(@)]
                 /\ UNCHANGED <<install, output, msg, ended>>

\* The message is freed for the second time.
FreeAgain(t) == /\ Top(t).at = "held"
                /\ Top(t).str \notin heap \cup {Nobody}
                /\ Crash

-----------------------------------------------------------------------------
(* handle_posix_sig *)

\* A signal interrupts whatever the thread is doing.
Deliver(t, s) ==
  /\ action[s] = "ours"
  /\ Cardinality(Handlers) < MaxSignals
  /\ \A i \in DOMAIN stack[t] : stack[t][i].sig # s
  /\ stack' = [stack EXCEPT ![t] = Append(@, Frame("report", s, 0, Nobody))]
  /\ UNCHANGED <<install, output, memory, ended>>

\* cc_printf of what was caught.
Report(t) == /\ Top(t).at = "report"
             /\ GotoAfter(t, "allocate", Call(1, Nobody))
             /\ UNCHANGED <<install, output, memory, ended>>

\* cc_print_stack keeps all of its variables in static memory; msg stands for
\* the rest, and one call for those of backtrace_symbols and malloc.
Allocate(t) == /\ Top(t).at = "allocate"
               /\ GotoAfter(t, "store", HeapCall(Nobody))
               /\ UNCHANGED <<install, output, memory, ended>>

Store(t) == /\ Top(t).at = "store"
            /\ msg' = This(t)
            /\ heap' = heap \cup {This(t)}
            /\ Goto(t, "show")
            /\ UNCHANGED <<install, output, heap_lock, ended>>

\* Fault: the message is freed and then printed.
ShowFreed(t) == /\ Top(t).at = "show"
                /\ heap' = heap \ {msg}
                /\ GotoAfter(t, "forward", Call(1, msg))
                /\ UNCHANGED <<install, output, msg, heap_lock, ended>>

Show(t) == /\ Top(t).at = "show"
           /\ GotoAfter(t, "free", Call(1, msg))
           /\ UNCHANGED <<install, output, memory, ended>>

Free(t) == /\ Top(t).at = "free"
           /\ GotoAfter(t, "forward", HeapCall(msg))
           /\ UNCHANGED <<install, output, memory, ended>>

\* Two frames in cc_print_stack fill one buffer by the counters of both.
TraceRace(t) == /\ Top(t).at = "show"
                /\ msg # This(t)
                /\ Crash

\* The old action of the signal, but for SIGINT; the program's handler
\* returns.  The default action is a null pointer and is not called.
Forward(t) == /\ Top(t).at = "forward"
              /\ Top(t).sig # "SIGINT" => old[Top(t).sig] # "ignore"
              /\ Goto(t, "exit")
              /\ UNCHANGED <<install, output, memory, ended>>

\* SIG_IGN is no null pointer, and is called.
ForwardIgnored(t) == /\ Top(t).at = "forward"
                     /\ Top(t).sig # "SIGINT"
                     /\ old[Top(t).sig] = "ignore"
                     /\ Crash

\* A thread uses up its own stack and has no other for the handler: it is not called.
\* With an alternate stack this is a Deliver of SIGSEGV.
Overflow(t) == /\ "SIGSEGV" \in SignalSet
               /\ action["SIGSEGV"] = "ours"
               /\ t \notin altstack
               /\ \A i \in DOMAIN stack[t] : stack[t][i].sig = Nobody
               /\ ended' = "killed"
               /\ UNCHANGED <<install, output, memory, stack>>

Exit(t) == /\ Top(t).at = "exit"
           /\ ended' = "exited"
           /\ UNCHANGED <<install, output, memory, stack>>

-----------------------------------------------------------------------------
Init == /\ program \in [SignalSet -> {"default", "ignore", "handler"}]
        /\ action = program
        /\ old = [s \in SignalSet |-> "default"]
        /\ phase = "off"
        /\ position = 0
        /\ altstack = {}
        /\ stack = [t \in Threads |-> <<>>]
        /\ stream_mutex = Nobody
        /\ line = Nobody
        /\ calls = [t \in Threads |-> 0]
        /\ msg = Nobody
        /\ heap = {}
        /\ heap_lock = Nobody
        /\ ended = "no"

Step(t) == /\ ended = "no"
           /\ \/ Lock(t) \/ PrintPiece(t) \/ PrintLast(t) \/ PrintFreed(t)
              \/ HeapLock(t) \/ HeapReturn(t) \/ FreeAgain(t)
              \/ Report(t) \/ Allocate(t) \/ Store(t) \/ Show(t) \/ Free(t)
              \/ TraceRace(t) \/ Forward(t) \/ ForwardIgnored(t) \/ Exit(t)

Setup == ended = "no" /\ (CallInit \/ SetStack \/ Install \/ CallFini \/ Restore)

Environment == /\ ended = "no"
               /\ \E t \in Threads : \/ Log(t) \/ UseHeap(t) \/ Overflow(t)
                                   \/ \E s \in SignalSet : Deliver(t, s)

Next == Setup \/ Environment \/ \E t \in Threads : Step(t)

Spec == Init /\ [][Next]_vars

\* The threads are scheduled.  Nobody has to make a call and no signal has to arrive.
FairSpec == Spec /\ \A t \in Threads : WF_vars(Step(t))

-----------------------------------------------------------------------------
(* Properties *)

\* Nothing is printed between the pieces of a line that cc_log prints, by another
\* thread or by a handler that has interrupted it: this is what stream_mutex is for.
LinesWhole ==
  [][\A t \in Threads : PrintPiece(t) \/ PrintLast(t) => line \in {Nobody, This(t)}]_vars

\* The actions that cc_except_init saves and cc_except_fini restores are those of the
\* program, through any number of rounds and with signals in between: no
\* signal is forwarded to the handler itself, and none stays ours at the end.
ActionsKept ==
  \A s \in SignalSet : IF action[s] = "ours" THEN phase # "off" /\ old[s] = program[s]
                                             ELSE action[s] = program[s]

\* The program crashes in a handler only if another handler is there too, in this
\* thread or in another, or if the signal was ignored before: a handler on its own frees its
\* message once and after printing it.
LoneHandlerSafe ==
  ended = "crashed" => \/ Cardinality(Handlers) > 1
                       \/ \E p \in Handlers : old[stack[p[1]][p[2]].sig] = "ignore"

\* A thread is in a handler that has interrupted a call of its own, or of another of
\* its handlers, while it holds stream_mutex or the lock of the heap.
Interrupted ==
  \E t \in Threads : \E i \in DOMAIN stack[t] :
    stack[t][i].at \in {"print", "held"} /\ i < Depth(t)

\* A handler ends the program, or crashes, whichever of the two locks other threads hold,
\* unless it or another has interrupted a call that holds one of them: such a thread may
\* wait for itself, in cc_printf, in cc_print or in the malloc and free of
\* cc_print_stack.
HandlerEnds == Handlers # {} ~> ended # "no" \/ Interrupted

\* An overflow of the stack that is not reported is one of another thread than that of
\* cc_except_init, whose alternate stack is there before the first handler
\* and remains through all rounds.
OverflowReported == [][\A t \in Threads : Overflow(t) => t # Caller]_vars

\* Each signal has our handler once cc_except_init is done: what its assertions on
\* sigaction say.
InitInstalls == phase = "on" => \A s \in SignalSet : action[s] = "ours"
=============================================================================
