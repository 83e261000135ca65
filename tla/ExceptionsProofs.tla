-------------------------- MODULE ExceptionsProofs --------------------------
(***************************************************************************)
(* Proofs about Exceptions, for any number of threads and any signals: what *)
(* the installation and the restoration of the handlers do to the actions,  *)
(* whose line the log prints, and what a handler can crash on.              *)
(***************************************************************************)
EXTENDS Exceptions, FiniteSetTheorems, TLAPS

USE ExceptionsAssumption DEF ExceptionsAssumption

-----------------------------------------------------------------------------
(* The inductive invariant.                                                  *)

\* The signals that are dealt with so far are those up to position: the i-th has
\* our handler.
Installed(i) == /\ Asserts
                /\ \/ phase = "on"
                   \/ phase = "installing" /\ i <= position
                   \/ phase = "restoring" /\ i > position

InstallOK ==
  /\ program \in [SignalSet -> {"default", "ignore", "handler"}]
  /\ action \in [SignalSet -> {"default", "ignore", "handler", "ours"}]
  /\ old \in [SignalSet -> {"default", "ignore", "handler", "ours"}]
  /\ phase \in {"off", "stack", "installing", "on", "restoring"}
  /\ position \in 0 .. Len(Signals) - 1
  /\ phase \in {"off", "stack", "on"} => position = 0
  /\ phase \in {"stack", "installing", "restoring"} => Asserts
  /\ Asserts /\ phase \in {"installing", "on", "restoring"} => Caller \in altstack

\* A signal with our handler has the program's action saved, and one without it
\* has the program's action.  The alternate stack is there before the handlers.
InstallInv ==
  /\ InstallOK
  /\ \A i \in DOMAIN Signals :
       IF Installed(i) THEN action[Signals[i]] = "ours" /\ old[Signals[i]] = program[Signals[i]]
                       ELSE action[Signals[i]] = program[Signals[i]]

\* The frames of a thread: calls of the log and of the heap, and handlers.
CallAt == {"lock", "print", "heap", "held"}

FrameAt == CallAt \cup {"report", "allocate", "store", "show", "free", "forward", "exit"}

Frames == [at : FrameAt, sig : SignalSet \cup {Nobody}, left : Nat,
           str : Threads \X Nat \cup {Nobody}]

\* The names of frames are the threads and the places in their stacks.
Live == {p \in Threads \X (Nat \ {0}) : p[2] <= Len(stack[p[1]])}

At(p) == stack[p[1]][p[2]]

StackOK ==
  /\ stack \in [Threads -> Seq(Frames)]
  /\ \A p \in Live : At(p).sig = Nobody <=> At(p).at \in CallAt
  /\ msg \in Threads \X Nat \cup {Nobody}

\* One frame prints at a time: its thread has the mutex, and it has begun the line
\* if anyone has.
Printing == {p \in Live : At(p).at = "print"}

PrintInv ==
  /\ \A p, q \in Printing : p = q
  /\ \A p \in Printing : stream_mutex = p[1]
  /\ line \in Printing \cup {Nobody}

\* A call prints or frees a message for the handler just beneath, which has still
\* to free it if it is printed, and is done with it if it is being freed.  While there is
\* one handler alone the message is its own, and allocated until then.
Below(p) == <<p[1], p[2] - 1>>

ShownInv ==
  \A p \in Live : At(p).str # Nobody =>
    /\ Below(p) \in Handlers
    /\ At(Below(p)).at = IF At(p).at \in {"lock", "print"} THEN "free" ELSE "forward"

AloneInv ==
  \A h \in Handlers : Handlers = {h} =>
    /\ At(h).at \in {"show", "free"} => msg = h /\ h \in heap
    /\ \A p \in Live : At(p).str = Nobody \/ (At(p).str = h /\ h \in heap)

HandlerInv ==
  /\ IsFiniteSet(Handlers)
  /\ ShownInv
  /\ AloneInv
  /\ LoneHandlerSafe

IInv == InstallInv /\ StackOK /\ PrintInv /\ HandlerInv

-----------------------------------------------------------------------------
(* The actions of the signals.                                               *)

\* The signals are listed, each once.
LEMMA SignalsSpelled ==
  /\ Len(Signals) \in Nat \ {0}
  /\ DOMAIN Signals = 1 .. Len(Signals)
  /\ \A i \in 1 .. Len(Signals) : Signals[i] \in SignalSet
  /\ \A i, j \in 1 .. Len(Signals) : Signals[i] = Signals[j] => i = j
  /\ \A s \in SignalSet : \E i \in 1 .. Len(Signals) : s = Signals[i]
BY DEF SignalSet, IsInjective

\* The next position is the first after the last.
LEMMA NextPosition ==
  ASSUME NEW n \in Nat \ {0}, NEW k \in 0 .. n - 1
  PROVE  (k + 1) % n = IF k + 1 = n THEN 0 ELSE k + 1
<1>1. CASE k + 1 = n
  <2>1. n % n = 0
    OBVIOUS
  <2> QED
    BY <1>1, <2>1
<1>2. CASE k + 1 # n
  <2>1. k + 1 \in 0 .. n - 1
    BY <1>2
  <2>2. (k + 1) % n = k + 1
    BY <2>1
  <2> QED
    BY <1>2, <2>2
<1> QED
  BY <1>1, <1>2

\* cc_except_init and cc_except_fini deal with one signal at a time, and save
\* an action before it is ours.
LEMMA InstallStep == ASSUME InstallInv, Setup PROVE InstallInv'
<1> DEFINE n == Len(Signals)
<1> USE DEF InstallInv, InstallOK
<1>1. CASE CallInit
  <2>1. /\ phase = "off" /\ phase' = IF Asserts THEN "stack" ELSE "on"
        /\ position = 0 /\ UNCHANGED <<program, action, old, position, altstack>>
    BY <1>1 DEF CallInit
  <2>2. \A i \in DOMAIN Signals : ~Installed(i) /\ ~Installed(i)'
    BY <2>1, SignalsSpelled DEF Installed
  <2> QED
    BY <2>1, <2>2
<1>2. CASE CallFini
  <2>1. /\ phase = "on" /\ phase' = IF Asserts THEN "restoring" ELSE "off"
        /\ position = 0 /\ UNCHANGED <<program, action, old, position, altstack>>
    BY <1>2 DEF CallFini
  <2>2. \A i \in DOMAIN Signals : Installed(i)' = Installed(i)
    BY <2>1, SignalsSpelled DEF Installed
  <2> QED
    BY <2>1, <2>2
<1>4. CASE SetStack
  <2>1. /\ phase = "stack" /\ phase' = "installing" /\ Caller \in altstack'
        /\ position = 0 /\ UNCHANGED <<program, action, old, position>>
    BY <1>4 DEF SetStack, WithStack
  <2>2. \A i \in DOMAIN Signals : ~Installed(i) /\ ~Installed(i)'
    BY <2>1, SignalsSpelled DEF Installed
  <2> QED
    BY <2>1, <2>2
<1>3. CASE Install \/ Restore
  <2> DEFINE k == position + 1
             s == Signals[k]
  <2>1. k \in 1 .. n /\ s \in SignalSet /\ DOMAIN Signals = 1 .. n /\ Asserts
    BY <1>3, SignalsSpelled DEF Install, Restore
  <2>2. position' = IF k = n THEN 0 ELSE k
    <3>1. position' = (position + 1) % Len(Signals)
      BY <1>3 DEF Install, Restore
    <3> QED
      BY <3>1, SignalsSpelled, NextPosition
  <2>3. \A i \in 1 .. n : i # k => Signals[i] # s
    BY <2>1, SignalsSpelled
  <2>4. position' = 0 <=> k = n
    BY <2>1, <2>2
  <2>5. position' \in 0 .. n - 1
    BY <2>1, <2>2, SignalsSpelled
  <2>6. \A i \in 1 .. n : i <= k <=> i <= position \/ i = k
    BY <2>1
  <2>7. CASE Install
    <3>1. /\ phase = "installing"
          /\ old' = [old EXCEPT ![s] = action[s]]
          /\ action' = [action EXCEPT ![s] = "ours"]
          /\ phase' = IF k = n THEN "on" ELSE "installing"
          /\ UNCHANGED <<program, altstack>>
      BY <2>4, <2>7 DEF Install
    <3>2. ~Installed(k)
      BY <2>1, <3>1 DEF Installed
    <3>3. \A i \in 1 .. n : Installed(i)' <=> Installed(i) \/ i = k
      BY <2>1, <2>2, <2>6, <3>1 DEF Installed
    <3>4. action[s] = program[s]
      BY <2>1, <3>2
    <3> HIDE DEF k, s
    <3>5. \A i \in 1 .. n : i # k => action'[Signals[i]] = action[Signals[i]] /\ old'[Signals[i]] = old[Signals[i]]
      BY <2>3, <3>1, SignalsSpelled
    <3>6. action'[s] = "ours" /\ old'[s] = program'[s]
      BY <2>1, <3>1, <3>4
    <3>7. action' \in [SignalSet -> {"default", "ignore", "handler", "ours"}]
      BY <3>1
    <3>8. old' \in [SignalSet -> {"default", "ignore", "handler", "ours"}]
      BY <2>1, <3>1
    <3>9. \A i \in 1 .. n :
            IF Installed(i)' THEN action'[Signals[i]] = "ours" /\ old'[Signals[i]] = program'[Signals[i]]
                             ELSE action'[Signals[i]] = program'[Signals[i]]
      BY <2>1, <3>1, <3>3, <3>5, <3>6 DEF s
    <3> QED
      BY <2>1, <2>4, <2>5, <3>1, <3>7, <3>8, <3>9
  <2>8. CASE Restore
    <3>1. /\ phase = "restoring"
          /\ action' = [action EXCEPT ![s] = old[s]]
          /\ phase' = IF k = n THEN "off" ELSE "restoring"
          /\ UNCHANGED <<program, old, altstack>>
      BY <2>4, <2>8 DEF Restore, Restored
    <3>2. Installed(k)
      BY <2>1, <3>1 DEF Installed
    <3>3. \A i \in 1 .. n : Installed(i)' <=> Installed(i) /\ i # k
      BY <2>1, <2>2, <2>6, <3>1 DEF Installed
    <3>4. old[s] = program[s] /\ program[s] \in {"default", "ignore", "handler"}
      BY <2>1, <3>2
    <3> HIDE DEF k, s
    <3>5. \A i \in 1 .. n : i # k => action'[Signals[i]] = action[Signals[i]]
      BY <2>3, <3>1, SignalsSpelled
    <3>6. action'[s] = program'[s]
      BY <2>1, <3>1, <3>4
    <3>7. action' \in [SignalSet -> {"default", "ignore", "handler", "ours"}]
      BY <3>1, <3>4
    <3>8. \A i \in 1 .. n :
            IF Installed(i)' THEN action'[Signals[i]] = "ours" /\ old'[Signals[i]] = program'[Signals[i]]
                             ELSE action'[Signals[i]] = program'[Signals[i]]
      BY <2>1, <3>1, <3>3, <3>5, <3>6 DEF s
    <3> QED
      BY <2>1, <2>4, <2>5, <3>1, <3>7, <3>8
  <2> QED
    BY <1>3, <2>7, <2>8
<1> QED
  BY <1>1, <1>2, <1>3, <1>4 DEF Setup

\* Between the rounds each signal has the action that the program gave it, and
\* during them its old action is saved.
LEMMA InstallGivesKept == InstallInv => ActionsKept
<1> SUFFICES ASSUME InstallInv, NEW s \in SignalSet
             PROVE  IF action[s] = "ours" THEN phase # "off" /\ old[s] = program[s]
                                          ELSE action[s] = program[s]
  BY DEF ActionsKept
<1>1. PICK i \in DOMAIN Signals : s = Signals[i]
  BY SignalsSpelled
<1>2. program[s] # "ours"
  BY DEF InstallInv, InstallOK
<1>3. IF Installed(i) THEN action[s] = "ours" /\ old[s] = program[s] ELSE action[s] = program[s]
  BY <1>1 DEF InstallInv
<1> QED
  BY <1>2, <1>3 DEF Installed

-----------------------------------------------------------------------------
(* The stacks.  A step changes the stack of one thread, at its top.          *)

\* The frames of the other threads stay where they are.
LEMMA OneStack ==
  ASSUME StackOK, NEW t \in Threads, NEW q \in Seq(Frames), stack' = [stack EXCEPT ![t] = q]
  PROVE  /\ stack' \in [Threads -> Seq(Frames)]
         /\ Live' = {p \in Live : p[1] # t} \cup {<<t, i>> : i \in 1 .. Len(q)}
         /\ \A p \in Live : p[1] # t => At(p)' = At(p)
         /\ \A i \in 1 .. Len(q) : At(<<t, i>>)' = q[i]
<1>1. /\ stack \in [Threads -> Seq(Frames)]
      /\ stack' \in [Threads -> Seq(Frames)]
      /\ stack'[t] = q
      /\ \A u \in Threads : u # t => stack'[u] = stack[u]
  BY DEF StackOK
<1>2. /\ \A p \in Live : p[1] # t => At(p)' = At(p)
      /\ \A i \in 1 .. Len(q) : At(<<t, i>>)' = q[i]
  BY <1>1 DEF Live, At
<1>3. ASSUME NEW p \in Threads \X (Nat \ {0})
      PROVE  p \in Live' <=> (p \in Live /\ p[1] # t) \/ (p[1] = t /\ p[2] \in 1 .. Len(q))
  <2>1. p[1] \in Threads /\ p[2] \in Nat \ {0} /\ Len(q) \in Nat
    OBVIOUS
  <2> QED
    BY <1>1, <2>1 DEF Live
<1>4. \A i \in 1 .. Len(q) : <<t, i>> \in Threads \X (Nat \ {0})
  OBVIOUS
<1>5. \A p \in Threads \X (Nat \ {0}) : p = <<p[1], p[2]>>
  OBVIOUS
<1>6. Live' \subseteq {p \in Live : p[1] # t} \cup {<<t, i>> : i \in 1 .. Len(q)}
  BY <1>3, <1>5 DEF Live
<1>7. {p \in Live : p[1] # t} \cup {<<t, i>> : i \in 1 .. Len(q)} \subseteq Live'
  BY <1>3, <1>4 DEF Live
<1> QED
  BY <1>1, <1>2, <1>6, <1>7

\* The frames of a thread are numbered from the bottom.
LEMMA FramesOf ==
  ASSUME StackOK, NEW t \in Threads
  PROVE  /\ Depth(t) \in Nat /\ stack[t] \in Seq(Frames)
         /\ {p \in Live : p[1] = t} = {<<t, i>> : i \in 1 .. Depth(t)}
         /\ \A i \in 1 .. Depth(t) : At(<<t, i>>) = stack[t][i] /\ stack[t][i] \in Frames
<1>1. stack[t] \in Seq(Frames) /\ Depth(t) \in Nat
  BY DEF StackOK, Depth
<1>2. \A p \in Threads \X (Nat \ {0}) : p = <<p[1], p[2]>>
  OBVIOUS
<1>3. {p \in Live : p[1] = t} \subseteq {<<t, i>> : i \in 1 .. Depth(t)}
  BY <1>1, <1>2 DEF Live, Depth
<1>4. \A i \in 1 .. Depth(t) : <<t, i>> \in Live /\ <<t, i>>[1] = t
  BY <1>1 DEF Live, Depth
<1>5. \A i \in 1 .. Depth(t) : At(<<t, i>>) = stack[t][i] /\ stack[t][i] \in Frames
  BY <1>1 DEF At, Depth
<1> QED
  BY <1>1, <1>3, <1>4, <1>5

\* Every live frame is a frame.
LEMMA LiveFrames ==
  ASSUME StackOK, NEW p \in Live
  PROVE  /\ At(p) \in Frames
         /\ p[1] \in Threads /\ p[2] \in 1 .. Depth(p[1]) /\ p = <<p[1], p[2]>>
<1>1. p[1] \in Threads /\ p = <<p[1], p[2]>> /\ p[2] \in Nat \ {0} /\ p[2] <= Len(stack[p[1]])
  BY DEF Live
<1>2. p[2] \in 1 .. Depth(p[1])
  BY <1>1, FramesOf DEF Depth
<1> QED
  BY <1>1, <1>2, FramesOf

\* A thread that takes a step has a frame on top.
LEMMA TopFrame ==
  ASSUME StackOK, NEW t \in Threads, Top(t).at \in FrameAt
  PROVE  /\ Depth(t) \in Nat \ {0} /\ This(t) = <<t, Depth(t)>>
         /\ This(t) \in Live /\ This(t)[1] = t /\ This(t)[2] = Depth(t)
         /\ Top(t) = At(This(t)) /\ Top(t) = stack[t][Depth(t)] /\ Top(t) \in Frames
<1>1. stack[t] # <<>>
  BY DEF Top, Frame, FrameAt, CallAt
<1>2. Depth(t) \in Nat \ {0}
  BY <1>1, FramesOf DEF Depth
<1>3. Top(t) = stack[t][Depth(t)]
  BY <1>1 DEF Top, Depth, Last
<1> QED
  BY <1>2, <1>3, FramesOf DEF This

\* The topmost frame changes to f.
LEMMA Change ==
  ASSUME StackOK, NEW t \in Threads, This(t) \in Live, NEW f \in Frames,
         stack' = [stack EXCEPT ![t] = [stack[t] EXCEPT ![Depth(t)] = f]]
  PROVE  /\ stack' \in [Threads -> Seq(Frames)]
         /\ Live' = Live
         /\ \A p \in Live : At(p)' = IF p = This(t) THEN f ELSE At(p)
<1> DEFINE q == [stack[t] EXCEPT ![Depth(t)] = f]
<1>1. stack[t] \in Seq(Frames) /\ Depth(t) \in 1 .. Len(stack[t])
  <2>1. This(t)[1] = t /\ This(t)[2] = Depth(t)
    BY DEF This
  <2>2. Depth(t) \in 1 .. Depth(t)
    BY <2>1, LiveFrames
  <2> QED
    BY <2>2, FramesOf DEF Depth
<1>2. q \in Seq(Frames) /\ Len(q) = Depth(t)
  BY <1>1 DEF Depth
<1>3. \A i \in 1 .. Depth(t) : q[i] = IF i = Depth(t) THEN f ELSE stack[t][i]
  BY <1>1 DEF Depth
<1> HIDE DEF q
<1>4. /\ stack' \in [Threads -> Seq(Frames)]
      /\ Live' = {p \in Live : p[1] # t} \cup {<<t, i>> : i \in 1 .. Depth(t)}
      /\ \A p \in Live : p[1] # t => At(p)' = At(p)
      /\ \A i \in 1 .. Depth(t) : At(<<t, i>>)' = q[i]
  <2>1. stack' = [stack EXCEPT ![t] = q]
    BY DEF q
  <2>2. /\ stack' \in [Threads -> Seq(Frames)]
        /\ Live' = {p \in Live : p[1] # t} \cup {<<t, i>> : i \in 1 .. Len(q)}
        /\ \A p \in Live : p[1] # t => At(p)' = At(p)
        /\ \A i \in 1 .. Len(q) : At(<<t, i>>)' = q[i]
    BY <1>2, <2>1, OneStack
  <2> QED
    BY <1>2, <2>2
<1>5. Live' = Live
  BY <1>4, FramesOf
<1>6. ASSUME NEW p \in Live PROVE At(p)' = IF p = This(t) THEN f ELSE At(p)
  <2>1. CASE p[1] = t
    <3>1. PICK i \in 1 .. Depth(t) : p = <<t, i>>
      BY <2>1, FramesOf
    <3>2. p = This(t) <=> i = Depth(t)
      BY <3>1 DEF This
    <3> QED
      BY <1>3, <1>4, <3>1, <3>2, FramesOf
  <2>2. CASE p[1] # t
    BY <1>4, <2>2 DEF This
  <2> QED
    BY <2>1, <2>2
<1> QED
  BY <1>4, <1>5, <1>6

\* A frame is put on top.
LEMMA Push ==
  ASSUME StackOK, NEW t \in Threads, NEW f \in Frames,
         stack' = [stack EXCEPT ![t] = Append(stack[t], f)]
  PROVE  /\ stack' \in [Threads -> Seq(Frames)]
         /\ <<t, Depth(t) + 1>> \notin Live
         /\ Live' = Live \cup {<<t, Depth(t) + 1>>}
         /\ \A p \in Live' : At(p)' = IF p \in Live THEN At(p) ELSE f
<1> DEFINE q == Append(stack[t], f)
<1>1. stack[t] \in Seq(Frames) /\ Depth(t) \in Nat /\ Depth(t) = Len(stack[t])
  BY FramesOf DEF Depth
<1>2. q \in Seq(Frames) /\ Len(q) = Depth(t) + 1
  BY <1>1
<1>3. q[Depth(t) + 1] = f /\ \A i \in 1 .. Depth(t) : q[i] = stack[t][i]
  BY <1>1
<1> HIDE DEF q
<1>4. /\ stack' \in [Threads -> Seq(Frames)]
      /\ Live' = {p \in Live : p[1] # t} \cup {<<t, i>> : i \in 1 .. Depth(t) + 1}
      /\ \A p \in Live : p[1] # t => At(p)' = At(p)
      /\ \A i \in 1 .. Depth(t) + 1 : At(<<t, i>>)' = q[i]
  <2>1. stack' = [stack EXCEPT ![t] = q]
    BY DEF q
  <2>2. /\ stack' \in [Threads -> Seq(Frames)]
        /\ Live' = {p \in Live : p[1] # t} \cup {<<t, i>> : i \in 1 .. Len(q)}
        /\ \A p \in Live : p[1] # t => At(p)' = At(p)
        /\ \A i \in 1 .. Len(q) : At(<<t, i>>)' = q[i]
    BY <1>2, <2>1, OneStack
  <2> QED
    BY <1>2, <2>2
<1>5. \A i \in 1 .. Depth(t) + 1 : i \in 1 .. Depth(t) \/ i = Depth(t) + 1
  BY <1>1
<1>6. 1 .. Depth(t) \subseteq 1 .. Depth(t) + 1 /\ Depth(t) + 1 \in 1 .. Depth(t) + 1
      /\ Depth(t) + 1 \notin 1 .. Depth(t)
  BY <1>1
<1>7. <<t, Depth(t) + 1>> \notin Live
  BY <1>6, FramesOf
<1>8. {<<t, i>> : i \in 1 .. Depth(t) + 1} = {p \in Live : p[1] = t} \cup {<<t, Depth(t) + 1>>}
  <2>1. {<<t, i>> : i \in 1 .. Depth(t) + 1} = {<<t, i>> : i \in 1 .. Depth(t)} \cup {<<t, Depth(t) + 1>>}
    BY <1>5, <1>6
  <2> QED
    BY <2>1, FramesOf
<1>9. Live' = Live \cup {<<t, Depth(t) + 1>>}
  BY <1>4, <1>8
<1>10. \A i \in 1 .. Depth(t) : At(<<t, i>>)' = At(<<t, i>>)
  <2>1. \A i \in 1 .. Depth(t) : At(<<t, i>>) = stack[t][i]
    BY FramesOf
  <2> QED
    BY <1>3, <1>4, <1>6, <2>1
<1>11. ASSUME NEW p \in Live PROVE At(p)' = At(p)
  <2>1. CASE p[1] = t
    <3>1. PICK i \in 1 .. Depth(t) : p = <<t, i>>
      BY <2>1, FramesOf
    <3> QED
      BY <1>10, <3>1
  <2> QED
    BY <1>4, <2>1
<1>12. \A i \in 1 .. Depth(t) + 1 : i = Depth(t) + 1 => At(<<t, i>>)' = f
  BY <1>3, <1>4
<1>13. \A p \in Live' : At(p)' = IF p \in Live THEN At(p) ELSE f
  BY <1>6, <1>9, <1>11, <1>12
<1> QED
  BY <1>4, <1>7, <1>9, <1>13

\* The topmost frame returns.
LEMMA Pop ==
  ASSUME StackOK, NEW t \in Threads, This(t) \in Live, stack' = [stack EXCEPT ![t] = Front(stack[t])]
  PROVE  /\ stack' \in [Threads -> Seq(Frames)]
         /\ Live' = Live \ {This(t)}
         /\ \A p \in Live' : At(p)' = At(p)
<1> DEFINE q == Front(stack[t])
           m == Depth(t) - 1
<1>1. stack[t] \in Seq(Frames) /\ Depth(t) \in Nat \ {0} /\ Depth(t) = Len(stack[t])
  <2>1. This(t)[1] = t /\ This(t)[2] = Depth(t)
    BY DEF This
  <2>2. Depth(t) \in 1 .. Depth(t)
    BY <2>1, LiveFrames
  <2> QED
    BY <2>2, FramesOf DEF Depth
<1>2. /\ q \in Seq(Frames) /\ Len(q) = m /\ m \in Nat
      /\ \A i \in 1 .. m : q[i] = stack[t][i]
  BY <1>1 DEF Front
<1> HIDE DEF q
<1>3. /\ stack' \in [Threads -> Seq(Frames)]
      /\ Live' = {p \in Live : p[1] # t} \cup {<<t, i>> : i \in 1 .. m}
      /\ \A p \in Live : p[1] # t => At(p)' = At(p)
      /\ \A i \in 1 .. m : At(<<t, i>>)' = q[i]
  <2>1. stack' = [stack EXCEPT ![t] = q]
    BY DEF q
  <2>2. /\ stack' \in [Threads -> Seq(Frames)]
        /\ Live' = {p \in Live : p[1] # t} \cup {<<t, i>> : i \in 1 .. Len(q)}
        /\ \A p \in Live : p[1] # t => At(p)' = At(p)
        /\ \A i \in 1 .. Len(q) : At(<<t, i>>)' = q[i]
    BY <1>2, <2>1, OneStack
  <2> QED
    BY <1>2, <2>2
<1>4. /\ \A i \in 1 .. Depth(t) : i \in 1 .. m \/ i = Depth(t)
      /\ 1 .. m \subseteq 1 .. Depth(t) /\ Depth(t) \notin 1 .. m
  BY <1>1
<1>5. {<<t, i>> : i \in 1 .. m} = {p \in Live : p[1] = t} \ {This(t)}
  <2>1. \A i \in 1 .. Depth(t) : <<t, i>> = This(t) <=> i = Depth(t)
    BY DEF This
  <2>2. {<<t, i>> : i \in 1 .. m} = {<<t, i>> : i \in 1 .. Depth(t)} \ {This(t)}
    BY <1>4, <2>1
  <2> QED
    BY <2>2, FramesOf
<1>6. This(t)[1] = t
  BY DEF This
<1>7. Live' = Live \ {This(t)}
  BY <1>3, <1>5, <1>6
<1>8. \A i \in 1 .. m : At(<<t, i>>)' = At(<<t, i>>)
  <2>1. \A i \in 1 .. Depth(t) : At(<<t, i>>) = stack[t][i]
    BY FramesOf
  <2> QED
    BY <1>2, <1>3, <1>4, <2>1
<1>9. ASSUME NEW p \in Live' PROVE At(p)' = At(p)
  <2>1. (p \in Live /\ p[1] # t) \/ \E i \in 1 .. m : p = <<t, i>>
    BY <1>3
  <2> QED
    BY <1>3, <1>8, <2>1
<1> QED
  BY <1>3, <1>7, <1>9

\* The topmost frame changes to f and calls a function.
LEMMA ChangeAndPush ==
  ASSUME StackOK, NEW t \in Threads, This(t) \in Live, NEW f \in Frames, NEW call \in Frames,
         stack' = [stack EXCEPT ![t] = Append([stack[t] EXCEPT ![Depth(t)] = f], call)]
  PROVE  /\ stack' \in [Threads -> Seq(Frames)]
         /\ <<t, Depth(t) + 1>> \notin Live
         /\ Live' = Live \cup {<<t, Depth(t) + 1>>}
         /\ \A p \in Live' : At(p)' = IF p \notin Live THEN call
                                      ELSE IF p = This(t) THEN f ELSE At(p)
<1> DEFINE r == [stack[t] EXCEPT ![Depth(t)] = f]
           q == Append(r, call)
<1>1. stack[t] \in Seq(Frames) /\ Depth(t) = Len(stack[t]) /\ Depth(t) \in 1 .. Len(stack[t])
  <2>1. This(t)[1] = t /\ This(t)[2] = Depth(t)
    BY DEF This
  <2>2. Depth(t) \in 1 .. Depth(t)
    BY <2>1, LiveFrames
  <2> QED
    BY <2>2, FramesOf DEF Depth
<1>2. r \in Seq(Frames) /\ Len(r) = Depth(t)
  BY <1>1
<1>3. \A i \in 1 .. Depth(t) : r[i] = IF i = Depth(t) THEN f ELSE stack[t][i]
  BY <1>1
<1> HIDE DEF r
<1>4. /\ q \in Seq(Frames) /\ Len(q) = Depth(t) + 1 /\ q[Depth(t) + 1] = call
      /\ \A i \in 1 .. Depth(t) : q[i] = r[i]
  BY <1>2
<1> HIDE DEF q
<1>5. /\ stack' \in [Threads -> Seq(Frames)]
      /\ Live' = {p \in Live : p[1] # t} \cup {<<t, i>> : i \in 1 .. Depth(t) + 1}
      /\ \A p \in Live : p[1] # t => At(p)' = At(p)
      /\ \A i \in 1 .. Depth(t) + 1 : At(<<t, i>>)' = q[i]
  <2>1. stack' = [stack EXCEPT ![t] = q]
    BY DEF q, r
  <2>2. /\ stack' \in [Threads -> Seq(Frames)]
        /\ Live' = {p \in Live : p[1] # t} \cup {<<t, i>> : i \in 1 .. Len(q)}
        /\ \A p \in Live : p[1] # t => At(p)' = At(p)
        /\ \A i \in 1 .. Len(q) : At(<<t, i>>)' = q[i]
    BY <1>4, <2>1, OneStack
  <2> QED
    BY <1>4, <2>2
<1>6. /\ \A i \in 1 .. Depth(t) + 1 : i \in 1 .. Depth(t) \/ i = Depth(t) + 1
      /\ 1 .. Depth(t) \subseteq 1 .. Depth(t) + 1 /\ Depth(t) + 1 \in 1 .. Depth(t) + 1
      /\ Depth(t) + 1 \notin 1 .. Depth(t)
  BY <1>1
<1>7. <<t, Depth(t) + 1>> \notin Live
  BY <1>6, FramesOf
<1>8. {<<t, i>> : i \in 1 .. Depth(t) + 1} = {p \in Live : p[1] = t} \cup {<<t, Depth(t) + 1>>}
  <2>1. {<<t, i>> : i \in 1 .. Depth(t) + 1} = {<<t, i>> : i \in 1 .. Depth(t)} \cup {<<t, Depth(t) + 1>>}
    BY <1>6
  <2> QED
    BY <2>1, FramesOf
<1>9. Live' = Live \cup {<<t, Depth(t) + 1>>}
  BY <1>5, <1>8
<1>10. \A i \in 1 .. Depth(t) : At(<<t, i>>)' = IF i = Depth(t) THEN f ELSE At(<<t, i>>)
  <2>1. \A i \in 1 .. Depth(t) : At(<<t, i>>) = stack[t][i]
    BY FramesOf
  <2> QED
    BY <1>3, <1>4, <1>5, <1>6, <2>1
<1>11. ASSUME NEW p \in Live PROVE At(p)' = IF p = This(t) THEN f ELSE At(p)
  <2>1. CASE p[1] = t
    <3>1. PICK i \in 1 .. Depth(t) : p = <<t, i>>
      BY <2>1, FramesOf
    <3>2. p = This(t) <=> i = Depth(t)
      BY <3>1 DEF This
    <3> QED
      BY <1>10, <3>1, <3>2
  <2>2. CASE p[1] # t
    BY <1>5, <2>2 DEF This
  <2> QED
    BY <2>1, <2>2
<1>12. \A i \in 1 .. Depth(t) + 1 : i = Depth(t) + 1 => At(<<t, i>>)' = call
  BY <1>4, <1>5
<1>13. \A p \in Live' : p \notin Live => At(p)' = call
  BY <1>6, <1>9, <1>12
<1> QED
  BY <1>5, <1>7, <1>9, <1>11, <1>13

-----------------------------------------------------------------------------
(* What the steps do to the frames.                                          *)

\* The frames of handlers, by their names.
LEMMA HandlersLive ==
  ASSUME NEW st \in [Threads -> Seq(Frames)]
  PROVE  UNION {{<<t, i>> : i \in {j \in DOMAIN st[t] : st[t][j].sig # Nobody}} : t \in Threads}
           = {p \in Threads \X (Nat \ {0}) : p[2] <= Len(st[p[1]]) /\ st[p[1]][p[2]].sig # Nobody}
<1> DEFINE H == UNION {{<<t, i>> : i \in {j \in DOMAIN st[t] : st[t][j].sig # Nobody}} : t \in Threads}
           L == {p \in Threads \X (Nat \ {0}) : p[2] <= Len(st[p[1]]) /\ st[p[1]][p[2]].sig # Nobody}
<1>1. \A t \in Threads : st[t] \in Seq(Frames)
  OBVIOUS
<1>2. \A t \in Threads : \A i \in DOMAIN st[t] : i \in Nat \ {0} /\ i <= Len(st[t])
  BY <1>1
<1>3. \A t \in Threads : \A i \in Nat \ {0} : i <= Len(st[t]) => i \in DOMAIN st[t]
  BY <1>1
<1>4. ASSUME NEW p \in H PROVE p \in L
  <2>1. PICK t \in Threads : p \in {<<t, i>> : i \in {j \in DOMAIN st[t] : st[t][j].sig # Nobody}}
    BY <1>4
  <2>2. PICK i \in DOMAIN st[t] : p = <<t, i>> /\ st[t][i].sig # Nobody
    BY <2>1
  <2> QED
    BY <1>2, <2>2
<1>5. ASSUME NEW p \in L PROVE p \in H
  <2>1. p[1] \in Threads /\ p[2] \in DOMAIN st[p[1]] /\ p = <<p[1], p[2]>>
    BY <1>3
  <2> QED
    BY <2>1
<1> QED
  BY <1>4, <1>5

\* A handler is a live frame with a signal, and that is one which is not in the log.
LEMMA HandlersAre ==
  ASSUME StackOK
  PROVE  /\ Handlers = {p \in Live : At(p).sig # Nobody}
         /\ Handlers = {p \in Live : At(p).at \notin CallAt}
<1>1. Handlers = {p \in Live : At(p).sig # Nobody}
  BY HandlersLive DEF Handlers, Live, At, StackOK
<1> QED
  BY <1>1 DEF StackOK

\* The topmost frame goes on, and nothing else changes.
LEMMA GoesOn ==
  ASSUME StackOK, NEW t \in Threads, Top(t).at \in FrameAt, NEW l \in FrameAt, Goto(t, l)
  PROVE  /\ stack' \in [Threads -> Seq(Frames)]
         /\ This(t) \in Live
         /\ Live' = Live
         /\ \A p \in Live : At(p)' = IF p = This(t) THEN [Top(t) EXCEPT !.at = l] ELSE At(p)
<1> DEFINE f == [Top(t) EXCEPT !.at = l]
<1>1. This(t) \in Live /\ Top(t) = stack[t][Depth(t)] /\ Top(t) \in Frames
  BY TopFrame
<1>2. f \in Frames
  BY <1>1 DEF Frames
<1>3. stack' = [stack EXCEPT ![t] = [stack[t] EXCEPT ![Depth(t)] = f]]
  BY <1>1 DEF Goto
<1> HIDE DEF f
<1>4. /\ stack' \in [Threads -> Seq(Frames)]
      /\ Live' = Live
      /\ \A p \in Live : At(p)' = IF p = This(t) THEN f ELSE At(p)
  BY <1>1, <1>2, <1>3, Change
<1> QED
  BY <1>1, <1>4 DEF f

\* The topmost frame goes on and makes a logging call.
LEMMA CallsOn ==
  ASSUME StackOK, NEW t \in Threads, Top(t).at \in FrameAt, NEW l \in FrameAt,
         NEW call \in Frames, GotoAfter(t, l, call)
  PROVE  /\ stack' \in [Threads -> Seq(Frames)]
         /\ This(t) \in Live
         /\ <<t, Depth(t) + 1>> \notin Live
         /\ Live' = Live \cup {<<t, Depth(t) + 1>>}
         /\ \A p \in Live' : At(p)' = IF p \notin Live THEN call
                                      ELSE IF p = This(t) THEN [Top(t) EXCEPT !.at = l] ELSE At(p)
<1> DEFINE f == [Top(t) EXCEPT !.at = l]
<1>1. This(t) \in Live /\ Top(t) = stack[t][Depth(t)] /\ Top(t) \in Frames
  BY TopFrame
<1>2. f \in Frames
  BY <1>1 DEF Frames
<1>3. stack' = [stack EXCEPT ![t] = Append([stack[t] EXCEPT ![Depth(t)] = f], call)]
  BY <1>1 DEF GotoAfter
<1> HIDE DEF f
<1>4. /\ stack' \in [Threads -> Seq(Frames)]
      /\ <<t, Depth(t) + 1>> \notin Live
      /\ Live' = Live \cup {<<t, Depth(t) + 1>>}
      /\ \A p \in Live' : At(p)' = IF p \notin Live THEN call
                                   ELSE IF p = This(t) THEN f ELSE At(p)
  BY <1>1, <1>2, <1>3, ChangeAndPush
<1> QED
  BY <1>1, <1>4 DEF f

\* Where the frames are after each step, what signals they handle and which messages
\* they show; and that they are frames.
LEMMA LogFrames ==
  ASSUME StackOK, NEW t \in Threads, Log(t) \/ UseHeap(t)
  PROVE  /\ StackOK'
         /\ Live \subseteq Live' /\ Handlers' = Handlers
         /\ \A p \in Live : At(p)' = At(p)
         /\ \A p \in Live' \ Live : At(p)'.at # "print" /\ At(p)'.str = Nobody
<1>1. PICK call \in {Call(3, Nobody), HeapCall(Nobody)} : Begin(t, call)
  BY DEF Log, UseHeap
<1>2. /\ call \in Frames
      /\ call.sig = Nobody /\ call.at \in CallAt \ {"print"} /\ call.str = Nobody
  BY DEF Call, HeapCall, Frame, Frames, FrameAt, CallAt
<1>3. stack' = [stack EXCEPT ![t] = Append(stack[t], call)] /\ UNCHANGED msg
  BY <1>1 DEF Begin, memory
<1>4. /\ stack' \in [Threads -> Seq(Frames)]
      /\ Live' = Live \cup {<<t, Depth(t) + 1>>}
      /\ \A p \in Live' : At(p)' = IF p \in Live THEN At(p) ELSE call
  BY <1>2, <1>3, Push
<1>5. StackOK'
  BY <1>2, <1>3, <1>4 DEF StackOK
<1>6. Handlers' = {p \in Live' : At(p)'.sig # Nobody}
  BY <1>4, HandlersLive DEF Handlers, Live, At
<1>7. Handlers' = Handlers
  BY <1>2, <1>4, <1>6, HandlersAre
<1> QED
  BY <1>2, <1>4, <1>5, <1>7

\* A signal adds one handler, which is at its start.
LEMMA DeliverFrames ==
  ASSUME StackOK, NEW t \in Threads, NEW s \in SignalSet, Deliver(t, s)
  PROVE  /\ StackOK'
         /\ Live \subseteq Live'
         /\ \E h \in Live' \ Live : Live' = Live \cup {h} /\ Handlers' = Handlers \cup {h}
         /\ \A p \in Live' : IF p \in Live THEN At(p)' = At(p)
                                           ELSE At(p)' = Frame("report", s, 0, Nobody)
<1> DEFINE f == Frame("report", s, 0, Nobody)
<1>1. f \in Frames /\ f.sig # Nobody
  BY DEF Frame, Frames, FrameAt
<1>2. stack' = [stack EXCEPT ![t] = Append(stack[t], f)] /\ UNCHANGED msg
  BY DEF Deliver, memory
<1>3. /\ stack' \in [Threads -> Seq(Frames)]
      /\ <<t, Depth(t) + 1>> \notin Live
      /\ Live' = Live \cup {<<t, Depth(t) + 1>>}
      /\ \A p \in Live' : At(p)' = IF p \in Live THEN At(p) ELSE f
  BY <1>1, <1>2, Push
<1>4. StackOK'
  BY <1>1, <1>2, <1>3 DEF StackOK, Frame, CallAt
<1>5. Handlers' = {p \in Live' : At(p)'.sig # Nobody}
  BY <1>3, HandlersLive DEF Handlers, Live, At
<1>6. Handlers' = Handlers \cup {<<t, Depth(t) + 1>>}
  BY <1>1, <1>3, <1>5, HandlersAre
<1> QED
  BY <1>3, <1>4, <1>6

\* A step of a handler or of a logging call: the topmost frame goes on at l.
LEMMA GoesOnFrames ==
  ASSUME StackOK, NEW t \in Threads, Top(t).at \in FrameAt, NEW l \in FrameAt, Goto(t, l),
         l \in CallAt <=> Top(t).at \in CallAt,
         msg' \in Threads \X Nat \cup {Nobody}
  PROVE  /\ StackOK'
         /\ This(t) \in Live /\ Top(t) = At(This(t))
         /\ Live' = Live /\ Handlers' = Handlers
         /\ \A p \in Live : /\ At(p)'.at = IF p = This(t) THEN l ELSE At(p).at
                            /\ At(p)'.sig = At(p).sig
                            /\ At(p)'.str = At(p).str
<1>1. This(t) \in Live /\ Top(t) = At(This(t)) /\ Top(t) \in Frames
  BY TopFrame
<1>2. /\ stack' \in [Threads -> Seq(Frames)]
      /\ Live' = Live
      /\ \A p \in Live : At(p)' = IF p = This(t) THEN [Top(t) EXCEPT !.at = l] ELSE At(p)
  BY GoesOn
<1> DEFINE f == [Top(t) EXCEPT !.at = l]
<1>3. f.at = l /\ f.sig = Top(t).sig /\ f.str = Top(t).str
  BY <1>1 DEF Frames
<1>4. \A p \in Live : /\ At(p)'.at = IF p = This(t) THEN l ELSE At(p).at
                      /\ At(p)'.sig = At(p).sig
                      /\ At(p)'.str = At(p).str
  <2>1. \A p \in Live : At(p)' = IF p = This(t) THEN f ELSE At(p)
    BY <1>2
  <2> HIDE DEF f
  <2> QED
    BY <1>1, <1>3, <2>1
<1>5. StackOK'
  <2>1. \A p \in Live : At(p)'.sig = Nobody <=> At(p)'.at \in CallAt
    BY <1>1, <1>4 DEF StackOK
  <2> QED
    BY <1>2, <2>1 DEF StackOK
<1>6. Handlers' = {p \in Live' : At(p)'.sig # Nobody}
  BY <1>2, HandlersLive DEF Handlers, Live, At
<1>7. Handlers' = Handlers
  BY <1>2, <1>4, <1>6, HandlersAre
<1> QED
  BY <1>1, <1>2, <1>4, <1>5, <1>7

\* A step of a handler that makes a call.
LEMMA CallsOnFrames ==
  ASSUME StackOK, NEW t \in Threads, Top(t).at \in FrameAt \ CallAt,
         NEW l \in FrameAt \ CallAt, NEW call \in Frames,
         call.sig = Nobody, call.at \in CallAt, GotoAfter(t, l, call), UNCHANGED msg
  PROVE  /\ StackOK'
         /\ This(t) \in Handlers /\ Top(t) = At(This(t))
         /\ Live \subseteq Live' /\ Handlers' = Handlers
         /\ \A p \in Live' \ Live : At(p)' = call /\ p[1] = t /\ p[2] = Depth(t) + 1
         /\ \A p \in Live : /\ At(p)'.at = IF p = This(t) THEN l ELSE At(p).at
                            /\ At(p)'.sig = At(p).sig
                            /\ At(p)'.str = At(p).str
<1>1. This(t) \in Live /\ Top(t) = At(This(t)) /\ Top(t) \in Frames
  BY TopFrame
<1>2. /\ stack' \in [Threads -> Seq(Frames)]
      /\ Live' = Live \cup {<<t, Depth(t) + 1>>}
      /\ \A p \in Live' : At(p)' = IF p \notin Live THEN call
                                   ELSE IF p = This(t) THEN [Top(t) EXCEPT !.at = l] ELSE At(p)
  BY CallsOn
<1>3. [Top(t) EXCEPT !.at = l] = [at |-> l, sig |-> Top(t).sig, left |-> Top(t).left, str |-> Top(t).str]
  BY <1>1 DEF Frames
<1>4. \A p \in Live : /\ At(p)'.at = IF p = This(t) THEN l ELSE At(p).at
                      /\ At(p)'.sig = At(p).sig
                      /\ At(p)'.str = At(p).str
  BY <1>1, <1>2, <1>3
<1>5. StackOK'
  BY <1>1, <1>2, <1>4 DEF StackOK
<1>6. Handlers' = {p \in Live' : At(p)'.sig # Nobody}
  BY <1>2, HandlersLive DEF Handlers, Live, At
<1>7. Handlers' = Handlers
  BY <1>2, <1>4, <1>6, HandlersAre
<1>8. This(t) \in Handlers
  BY <1>1, HandlersAre
<1> QED
  BY <1>1, <1>2, <1>4, <1>5, <1>7, <1>8

\* A piece of a line.
LEMMA PieceFrames ==
  ASSUME StackOK, NEW t \in Threads, PrintPiece(t)
  PROVE  /\ StackOK'
         /\ This(t) \in Printing
         /\ Live' = Live /\ Handlers' = Handlers
         /\ \A p \in Live : /\ At(p)'.at = At(p).at
                            /\ At(p)'.sig = At(p).sig
                            /\ At(p)'.str = At(p).str
<1> DEFINE f == [Top(t) EXCEPT !.left = Top(t).left - 1]
<1>1. /\ This(t) \in Live /\ Top(t) = At(This(t)) /\ Top(t) = stack[t][Depth(t)] /\ Top(t) \in Frames
      /\ Top(t).at = "print" /\ Top(t).left > 1
  BY TopFrame DEF PrintPiece, FrameAt, CallAt
<1>2. f \in Frames /\ f.at = Top(t).at /\ f.sig = Top(t).sig /\ f.str = Top(t).str
  <2>1. Top(t).left \in Nat /\ Top(t).left - 1 \in Nat
    BY <1>1 DEF Frames
  <2> QED
    BY <1>1, <2>1 DEF Frames
<1>3. stack' = [stack EXCEPT ![t] = [stack[t] EXCEPT ![Depth(t)] = f]] /\ UNCHANGED msg
  BY <1>1 DEF PrintPiece, memory
<1> HIDE DEF f
<1>4. /\ stack' \in [Threads -> Seq(Frames)]
      /\ Live' = Live
      /\ \A p \in Live : At(p)' = IF p = This(t) THEN f ELSE At(p)
  BY <1>1, <1>2, <1>3, Change
<1>5. \A p \in Live : /\ At(p)'.at = At(p).at
                      /\ At(p)'.sig = At(p).sig
                      /\ At(p)'.str = At(p).str
  BY <1>1, <1>2, <1>4
<1>6. StackOK'
  BY <1>3, <1>4, <1>5 DEF StackOK
<1>7. Handlers' = {p \in Live' : At(p)'.sig # Nobody}
  BY <1>4, HandlersLive DEF Handlers, Live, At
<1>8. Handlers' = Handlers
  BY <1>4, <1>5, <1>7, HandlersAre
<1> QED
  BY <1>1, <1>4, <1>5, <1>6, <1>8 DEF Printing

\* The end of a call.
LEMMA LastFrames ==
  ASSUME StackOK, NEW t \in Threads, PrintLast(t) \/ HeapReturn(t)
  PROVE  /\ StackOK'
         /\ This(t) \in Live /\ This(t) \notin Handlers /\ Top(t) = At(This(t))
         /\ Live' = Live \ {This(t)} /\ Handlers' = Handlers
         /\ \A p \in Live' : At(p)' = At(p)
<1>1. This(t) \in Live /\ Top(t) = At(This(t)) /\ Top(t).at \in CallAt
  BY TopFrame DEF PrintLast, HeapReturn, FrameAt, CallAt
<1>2. stack' = [stack EXCEPT ![t] = Front(stack[t])] /\ UNCHANGED msg
  BY DEF PrintLast, HeapReturn, memory
<1>3. /\ stack' \in [Threads -> Seq(Frames)]
      /\ Live' = Live \ {This(t)}
      /\ \A p \in Live' : At(p)' = At(p)
  BY <1>1, <1>2, Pop
<1>4. StackOK'
  BY <1>2, <1>3 DEF StackOK
<1>5. Handlers' = {p \in Live' : At(p)'.sig # Nobody}
  BY <1>3, HandlersLive DEF Handlers, Live, At
<1>6. At(This(t)).sig = Nobody
  BY <1>1 DEF StackOK
<1>7. Handlers' = Handlers
  BY <1>3, <1>5, <1>6, HandlersAre
<1> QED
  BY <1>1, <1>3, <1>4, <1>6, <1>7, HandlersAre

-----------------------------------------------------------------------------
(* One frame prints at a time.                                               *)

\* The steps outside the log's mutex: no frame starts or stops to print.
LEMMA SamePrinting ==
  ASSUME PrintInv, UNCHANGED <<stream_mutex, line>>, Live \subseteq Live',
         \A p \in Live' : IF p \in Live THEN At(p)'.at = "print" <=> At(p).at = "print"
                                        ELSE At(p)'.at # "print"
  PROVE  PrintInv'
<1>1. Printing' = Printing
  BY DEF Printing
<1> QED
  BY <1>1 DEF PrintInv

\* A frame prints from the lock to the unlock: no other has the mutex in between.
LEMMA PrintStep ==
  ASSUME StackOK, PrintInv, NEW t \in Threads,
         Lock(t) \/ PrintPiece(t) \/ PrintLast(t)
  PROVE  PrintInv'
<1>1. CASE Lock(t)
  <2>1. stream_mutex = Nobody /\ stream_mutex' = t /\ UNCHANGED <<line, msg>>
    BY <1>1 DEF Lock, MayLock, memory
  <2>2. Printing = {}
    BY <2>1, LiveFrames DEF PrintInv, Printing
  <2>3. /\ This(t) \in Live /\ Live' = Live
        /\ \A p \in Live : At(p)'.at = IF p = This(t) THEN "print" ELSE At(p).at
    <3>1. Top(t).at = "lock" /\ Goto(t, "print")
      BY <1>1 DEF Lock
    <3>2. msg' \in Threads \X Nat \cup {Nobody}
      BY <2>1 DEF StackOK
    <3> QED
      BY <3>1, <3>2, GoesOnFrames DEF FrameAt, CallAt
  <2>4. Printing' = {This(t)}
    BY <2>2, <2>3 DEF Printing
  <2>5. This(t)[1] = t
    BY DEF This
  <2> QED
    BY <2>1, <2>2, <2>4, <2>5 DEF PrintInv
<1>2. CASE PrintPiece(t)
  <2>1. This(t) \in Printing /\ Printing' = Printing
    BY <1>2, PieceFrames DEF Printing
  <2>2. line' = This(t) /\ stream_mutex' = stream_mutex
    BY <1>2 DEF PrintPiece
  <2> QED
    BY <2>1, <2>2 DEF PrintInv
<1>3. CASE PrintLast(t)
  <2>1. This(t) \in Printing /\ Printing' = Printing \ {This(t)}
    BY <1>3, LastFrames DEF Printing, PrintLast
  <2>2. Printing' = {} /\ line' = Nobody
    BY <1>3, <2>1 DEF PrintInv, PrintLast
  <2> QED
    BY <2>2 DEF PrintInv
<1> QED
  BY <1>1, <1>2, <1>3

-----------------------------------------------------------------------------
(* The messages of handlers.                                                 *)

\* A handler that is not one of two is the only one.
LEMMA OnlyHandler ==
  ASSUME IsFiniteSet(Handlers), NEW h \in Handlers, ~(Cardinality(Handlers) > 1)
  PROVE  Handlers = {h}
<1>1. Cardinality(Handlers) \in Nat /\ IsFiniteSet({h}) /\ Cardinality({h}) = 1
  BY FS_CardinalityType, FS_Singleton
<1>2. Cardinality({h}) <= Cardinality(Handlers) /\ (Cardinality(Handlers) = Cardinality({h}) => Handlers = {h})
  BY FS_Subset
<1> QED
  BY <1>1, <1>2

\* Nothing stands on the topmost frame.
LEMMA NothingAbove ==
  ASSUME StackOK, NEW t \in Threads, NEW p \in Live
  PROVE  Below(p) # This(t)
<1>1. p[1] \in Threads /\ p[2] \in 1 .. Depth(p[1]) /\ Depth(p[1]) \in Nat
  BY LiveFrames, FramesOf
<1>2. Below(p)[1] = p[1] /\ Below(p)[2] = p[2] - 1 /\ This(t)[1] = t /\ This(t)[2] = Depth(t)
  BY DEF Below, This
<1> QED
  BY <1>1, <1>2

\* Two frames that stand on the same one are the same.
LEMMA BelowOnce ==
  ASSUME StackOK, NEW p \in Live, NEW q \in Live, Below(p) = Below(q)
  PROVE  p = q
<1>1. p[2] \in Nat /\ q[2] \in Nat /\ p = <<p[1], p[2]>> /\ q = <<q[1], q[2]>>
  BY LiveFrames DEF Live
<1>2. p[1] = q[1] /\ p[2] - 1 = q[2] - 1
  BY DEF Below
<1> QED
  BY <1>1, <1>2

\* The steps that add no handler and leave the messages alone: neither the frames that
\* have a message nor the handlers that they stand on move.
LEMMA SameHandlers ==
  ASSUME StackOK, HandlerInv, ended' # "crashed",
         Handlers' = Handlers, UNCHANGED <<msg, heap>>,
         \A h \in Handlers : At(h)'.at \in {"show", "free"} => At(h)'.at = At(h).at,
         \A p \in Live' : At(p)'.str # Nobody =>
           /\ p \in Live /\ At(p)'.str = At(p).str
           /\ At(p)'.at \in {"lock", "print"} <=> At(p).at \in {"lock", "print"}
           /\ Below(p) \in Handlers => At(Below(p))'.at = At(Below(p)).at
  PROVE  HandlerInv'
<1> USE DEF HandlerInv
<1>1. ShownInv'
  BY DEF ShownInv, Below
<1>2. AloneInv'
  BY DEF AloneInv
<1>3. LoneHandlerSafe'
  BY DEF LoneHandlerSafe
<1> QED
  BY <1>1, <1>2, <1>3

\* The steps of the calls, but for the end of one that frees a message.
LEMMA CallHandlers ==
  ASSUME StackOK, HandlerInv, ended = "no", NEW t \in Threads,
         \/ Log(t) \/ UseHeap(t) \/ Lock(t) \/ PrintPiece(t) \/ PrintLast(t) \/ HeapLock(t)
  PROVE  HandlerInv'
<1>1. UNCHANGED <<msg, heap, ended>>
  BY DEF Log, UseHeap, Begin, Lock, PrintPiece, PrintLast, HeapLock, memory
<1>2. Handlers \subseteq Live
  BY HandlersAre
<1>3. CASE Log(t) \/ UseHeap(t)
  <2>1. /\ Live \subseteq Live' /\ Handlers' = Handlers
        /\ \A p \in Live : At(p)' = At(p)
        /\ \A p \in Live' \ Live : At(p)'.str = Nobody
    BY <1>3, LogFrames
  <2> QED
    BY <1>1, <1>2, <2>1, SameHandlers
<1>4. CASE Lock(t) \/ HeapLock(t)
  <2>1. PICK l \in {"print", "held"} : Goto(t, l) /\ Top(t).at = IF l = "print" THEN "lock" ELSE "heap"
    BY <1>4 DEF Lock, HeapLock
  <2>2. /\ Handlers' = Handlers /\ Live' = Live /\ Top(t) = At(This(t)) /\ This(t) \in Live
        /\ \A p \in Live : /\ At(p)'.at = IF p = This(t) THEN l ELSE At(p).at
                           /\ At(p)'.str = At(p).str
    <3>1. Top(t).at \in FrameAt /\ l \in FrameAt /\ Top(t).at \in CallAt /\ l \in CallAt
      BY <2>1 DEF FrameAt, CallAt
    <3>2. msg' \in Threads \X Nat \cup {Nobody}
      BY <1>1 DEF StackOK
    <3> QED
      BY <2>1, <3>1, <3>2, GoesOnFrames
  <2>3. This(t) \notin Handlers
    BY <2>1, <2>2, HandlersAre DEF CallAt
  <2>4. l \in {"lock", "print"} <=> Top(t).at \in {"lock", "print"}
    BY <2>1
  <2>5. \A h \in Handlers : At(h)'.at = At(h).at
    BY <1>2, <2>2, <2>3
  <2>6. \A p \in Live : At(p)'.at \in {"lock", "print"} <=> At(p).at \in {"lock", "print"}
    BY <2>2, <2>4
  <2> QED
    BY <1>1, <1>2, <2>2, <2>5, <2>6, SameHandlers
<1>5. CASE PrintPiece(t)
  <2>1. /\ Handlers' = Handlers /\ Live' = Live
        /\ \A p \in Live : At(p)'.at = At(p).at /\ At(p)'.str = At(p).str
    BY <1>5, PieceFrames
  <2> QED
    BY <1>1, <1>2, <2>1, SameHandlers
<1>6. CASE PrintLast(t)
  <2>1. /\ Handlers' = Handlers /\ Live' \subseteq Live
        /\ \A p \in Live' : At(p)' = At(p)
    BY <1>6, LastFrames
  <2>2. Handlers \subseteq Live'
    BY <1>2, <1>6, LastFrames
  <2> QED
    BY <1>1, <2>1, <2>2, SameHandlers
<1> QED
  BY <1>3, <1>4, <1>5, <1>6

\* The end of a call of malloc or free: a message that it frees is in no other call,
\* and the handler beneath is done with it.
LEMMA ReturnHandlers ==
  ASSUME StackOK, HandlerInv, ended = "no", NEW t \in Threads, HeapReturn(t)
  PROVE  HandlerInv'
<1> USE DEF HandlerInv
<1>1. /\ UNCHANGED <<msg, ended>> /\ heap' = heap \ {Top(t).str} /\ Top(t).at = "held"
  BY DEF HeapReturn
<1>2. /\ This(t) \in Live /\ This(t) \notin Handlers /\ Top(t) = At(This(t))
      /\ Live' = Live \ {This(t)} /\ Handlers' = Handlers
      /\ \A p \in Live' : At(p)' = At(p)
  BY LastFrames
<1>3. Handlers \subseteq Live'
  BY <1>2, HandlersAre
<1>4. ShownInv'
  BY <1>2, <1>3 DEF ShownInv, Below
<1>5. AloneInv'
  <2> SUFFICES ASSUME NEW h \in Handlers, Handlers = {h}
               PROVE  /\ At(h).at \in {"show", "free"} => msg = h /\ h \in heap'
                      /\ \A p \in Live' : At(p).str = Nobody \/ (At(p).str = h /\ h \in heap')
    BY <1>1, <1>2, <1>3 DEF AloneInv
  <2>1. /\ At(h).at \in {"show", "free"} => msg = h /\ h \in heap
        /\ \A p \in Live : At(p).str = Nobody \/ (At(p).str = h /\ h \in heap)
    BY DEF AloneInv
  <2>2. CASE Top(t).str = Nobody
    <3>1. h # Nobody
      BY HandlersAre DEF Live
    <3> QED
      BY <1>1, <1>2, <2>1, <2>2, <3>1
  <2>3. CASE Top(t).str # Nobody
    <3>1. Below(This(t)) = h /\ At(h).at = "forward"
      BY <1>1, <1>2, <2>3 DEF ShownInv
    <3>2. ASSUME NEW p \in Live', At(p).str # Nobody PROVE FALSE
      <4>1. p \in Live /\ Below(p) = h
        BY <1>2, <3>2 DEF ShownInv
      <4> QED
        BY <1>2, <3>1, <4>1, BelowOnce
    <3> QED
      BY <3>1, <3>2
  <2> QED
    BY <2>2, <2>3
<1>6. LoneHandlerSafe'
  BY <1>1 DEF LoneHandlerSafe
<1> QED
  BY <1>2, <1>4, <1>5, <1>6

\* The first handler finds no message on its way; a second is not alone.
LEMMA DeliverHandlers ==
  ASSUME StackOK, HandlerInv, ended = "no", NEW t \in Threads, NEW s \in SignalSet, Deliver(t, s)
  PROVE  HandlerInv'
<1> USE DEF HandlerInv
<1>1. UNCHANGED <<msg, heap, ended>>
  BY DEF Deliver, memory
<1>2. /\ Live \subseteq Live'
      /\ \A p \in Live' : IF p \in Live THEN At(p)' = At(p) ELSE At(p)' = Frame("report", s, 0, Nobody)
  BY DeliverFrames
<1>3. PICK h \in Live' \ Live : Live' = Live \cup {h} /\ Handlers' = Handlers \cup {h}
  BY DeliverFrames
<1>4. At(h)'.at = "report" /\ At(h)'.str = Nobody
  BY <1>2, <1>3 DEF Frame
<1>5. Handlers \subseteq Live
  BY HandlersAre
<1>6. IsFiniteSet(Handlers')
  BY <1>3, FS_AddElement
<1>7. ShownInv'
  BY <1>2, <1>3, <1>4, <1>5 DEF ShownInv, Below
<1>8. AloneInv'
  <2> SUFFICES ASSUME NEW g \in Handlers', Handlers' = {g}
               PROVE  /\ At(g)'.at \notin {"show", "free"}
                      /\ \A p \in Live' : At(p)'.str = Nobody
    BY DEF AloneInv
  <2>1. g = h /\ Handlers = {}
    BY <1>3, <1>5
  <2>2. \A p \in Live : At(p).str = Nobody
    BY <2>1 DEF ShownInv
  <2> QED
    BY <1>2, <1>3, <1>4, <2>1, <2>2
<1>9. LoneHandlerSafe'
  BY <1>1 DEF LoneHandlerSafe
<1> QED
  BY <1>6, <1>7, <1>8, <1>9

\* The steps of a handler.
HandlerStep(t) == Report(t) \/ Allocate(t) \/ Store(t) \/ Show(t) \/ Free(t) \/ Forward(t)

\* The handler that takes a step is on top.
LEMMA StepOnTop ==
  ASSUME StackOK, NEW t \in Threads, HandlerStep(t)
  PROVE  /\ Top(t).at \in FrameAt \ CallAt
         /\ This(t) \in Handlers /\ This(t) \in Live /\ Top(t) = At(This(t))
         /\ This(t) \in Threads \X Nat /\ Handlers \subseteq Live
<1>1. Top(t).at \in FrameAt \ CallAt
  BY DEF HandlerStep, Report, Allocate, Store, Show, Free, Forward, FrameAt, CallAt
<1> QED
  BY <1>1, TopFrame, HandlersAre DEF Live

\* A handler names itself in msg; alone it finds its own message there, which it
\* prints and then frees.
LEMMA HandlerHandlers ==
  ASSUME StackOK, HandlerInv, ended = "no", NEW t \in Threads, HandlerStep(t)
  PROVE  HandlerInv'
<1> USE DEF HandlerInv
<1>1. ended' = "no"
  BY DEF HandlerStep, Report, Allocate, Store, Show, Free, Forward
<1>2. LoneHandlerSafe'
  BY <1>1 DEF LoneHandlerSafe
<1>3. /\ Top(t).at \in FrameAt \ CallAt
      /\ This(t) \in Handlers /\ This(t) \in Live /\ Top(t) = At(This(t))
      /\ This(t) \in Threads \X Nat /\ Handlers \subseteq Live
  BY StepOnTop
<1>4. \A p \in Live : Below(p) # This(t)
  BY NothingAbove
<1>5. CASE Report(t) \/ Allocate(t)
  <2>1. PICK l \in {"allocate", "store"}, call \in {Call(1, Nobody), HeapCall(Nobody)} :
          GotoAfter(t, l, call) /\ UNCHANGED <<msg, heap>>
    BY <1>5 DEF Report, Allocate, memory
  <2>2. call \in Frames /\ call.sig = Nobody /\ call.at \in CallAt /\ call.str = Nobody
    BY DEF Call, HeapCall, Frame, Frames, FrameAt, CallAt
  <2>3. /\ Handlers' = Handlers
        /\ \A p \in Live' \ Live : At(p)' = call
        /\ \A p \in Live : /\ At(p)'.at = IF p = This(t) THEN l ELSE At(p).at
                           /\ At(p)'.str = At(p).str
    <3>1. l \in FrameAt \ CallAt
      BY DEF FrameAt, CallAt
    <3> QED
      BY <1>3, <2>1, <2>2, <3>1, CallsOnFrames
  <2>4. \A h \in Handlers : At(h)'.at \in {"show", "free"} => At(h)'.at = At(h).at
    BY <1>3, <2>3
  <2>5. \A p \in Live : At(p)'.at \in {"lock", "print"} <=> At(p).at \in {"lock", "print"}
    BY <1>3, <2>3 DEF CallAt
  <2>6. \A p \in Live : Below(p) \in Handlers => At(Below(p))'.at = At(Below(p)).at
    BY <1>3, <1>4, <2>3
  <2>7. \A p \in Live' : At(p)'.str # Nobody => p \in Live /\ At(p)'.str = At(p).str
    BY <2>2, <2>3
  <2> QED
    BY <1>1, <2>1, <2>3, <2>4, <2>5, <2>6, <2>7, SameHandlers
<1>6. CASE Forward(t)
  <2>1. UNCHANGED <<msg, heap>> /\ Goto(t, "exit")
    BY <1>6 DEF Forward, memory
  <2>2. /\ Handlers' = Handlers /\ Live' = Live
        /\ \A p \in Live : /\ At(p)'.at = IF p = This(t) THEN "exit" ELSE At(p).at
                           /\ At(p)'.str = At(p).str
    <3>1. msg' \in Threads \X Nat \cup {Nobody} /\ "exit" \in FrameAt \ CallAt
      BY <2>1 DEF StackOK, FrameAt, CallAt
    <3> QED
      BY <1>3, <2>1, <3>1, GoesOnFrames
  <2>3. \A p \in Live : At(p)'.at \in {"lock", "print"} <=> At(p).at \in {"lock", "print"}
    BY <1>3, <2>2 DEF CallAt
  <2>4. \A p \in Live : Below(p) \in Handlers => At(Below(p))'.at = At(Below(p)).at
    BY <1>3, <1>4, <2>2
  <2>5. \A h \in Handlers : At(h)'.at \in {"show", "free"} => At(h)'.at = At(h).at
    BY <1>3, <2>2
  <2> QED
    BY <1>1, <2>1, <2>2, <2>3, <2>4, <2>5, SameHandlers
<1>7. CASE Store(t)
  <2>1. msg' = This(t) /\ heap' = heap \cup {This(t)} /\ Goto(t, "show") /\ Top(t).at = "store"
    BY <1>7 DEF Store
  <2>2. /\ Handlers' = Handlers /\ Live' = Live
        /\ \A p \in Live : /\ At(p)'.at = IF p = This(t) THEN "show" ELSE At(p).at
                           /\ At(p)'.str = At(p).str
    <3>1. msg' \in Threads \X Nat \cup {Nobody} /\ "show" \in FrameAt \ CallAt
      BY <1>3, <2>1 DEF FrameAt, CallAt
    <3> QED
      BY <1>3, <2>1, <3>1, GoesOnFrames
  <2>3. ShownInv'
    <3>1. \A p \in Live : At(p)'.at \in {"lock", "print"} <=> At(p).at \in {"lock", "print"}
      BY <2>1, <1>3, <2>2
    <3>2. \A p \in Live : Below(p) \in Handlers => At(Below(p))'.at = At(Below(p)).at
      BY <1>3, <1>4, <2>2
    <3> QED
      BY <2>2, <3>1, <3>2 DEF ShownInv, Below
  <2>4. ASSUME NEW h \in Handlers', Handlers' = {h}
        PROVE  /\ msg' = h /\ h \in heap'
               /\ \A p \in Live' : At(p)'.str \in {Nobody, h}
    <3>1. h = This(t) /\ Handlers = {h}
      BY <1>3, <2>2, <2>4
    <3> QED
      BY <2>1, <2>2, <3>1 DEF AloneInv
  <2> QED
    BY <1>2, <2>2, <2>3, <2>4 DEF AloneInv
<1>8. CASE Show(t) \/ Free(t)
  <2> DEFINE q == <<t, Depth(t) + 1>>
  <2>1. PICK l \in {"free", "forward"}, call \in {Call(1, msg), HeapCall(msg)} :
          /\ GotoAfter(t, l, call) /\ Top(t).at \in {"show", "free"} /\ UNCHANGED <<msg, heap>>
          /\ call.at \in {"lock", "print"} <=> l = "free"
          /\ l = "free" => Top(t).at = "show"
    BY <1>8 DEF Show, Free, memory, Call, HeapCall, Frame
  <2>2. call \in Frames /\ call.sig = Nobody /\ call.at \in CallAt /\ call.str = msg
    BY DEF Call, HeapCall, Frame, Frames, FrameAt, CallAt, StackOK
  <2>3. /\ Handlers' = Handlers /\ Live \subseteq Live'
        /\ \A p \in Live' \ Live : At(p)' = call /\ p[1] = t /\ p[2] = Depth(t) + 1
        /\ \A p \in Live : /\ At(p)'.at = IF p = This(t) THEN l ELSE At(p).at
                           /\ At(p)'.str = At(p).str
    <3>1. l \in FrameAt \ CallAt
      BY DEF FrameAt, CallAt
    <3> QED
      BY <1>3, <2>1, <2>2, <3>1, CallsOnFrames
  <2>4. \A p \in Live' \ Live : Below(p) = This(t)
    <3>1. (Depth(t) + 1) - 1 = Depth(t)
      BY FramesOf
    <3>2. ASSUME NEW p \in Live' \ Live PROVE Below(p) = This(t)
      <4>1. p[1] = t /\ p[2] = Depth(t) + 1
        BY <2>3
      <4> QED
        BY <3>1, <4>1 DEF Below, This
    <3> QED
      BY <3>2
  <2>5. ShownInv'
    <3> SUFFICES ASSUME NEW p \in Live', At(p)'.str # Nobody
                 PROVE  /\ Below(p) \in Handlers
                        /\ At(Below(p))'.at = IF At(p)'.at \in {"lock", "print"} THEN "free" ELSE "forward"
      BY <2>3 DEF ShownInv, Below
    <3>1. CASE p \in Live
      <4>1. /\ Below(p) \in Handlers
            /\ At(Below(p)).at = IF At(p).at \in {"lock", "print"} THEN "free" ELSE "forward"
        BY <2>3, <3>1 DEF ShownInv
      <4>2. At(Below(p))'.at = At(Below(p)).at
        BY <1>3, <1>4, <2>3, <3>1, <4>1
      <4>3. At(p)'.at \in {"lock", "print"} <=> At(p).at \in {"lock", "print"}
        BY <1>3, <2>3, <3>1 DEF CallAt
      <4> QED
        BY <4>1, <4>2, <4>3
    <3>2. CASE p \notin Live
      <4>1. Below(p) = This(t) /\ At(p)' = call
        BY <2>3, <2>4, <3>2
      <4>2. \A g \in Live : g = This(t) => At(g)'.at = l
        BY <2>3
      <4> QED
        BY <1>3, <2>1, <4>1, <4>2
    <3> QED
      BY <3>1, <3>2
  <2>6. ASSUME NEW h \in Handlers', Handlers' = {h}
        PROVE  /\ msg' = h /\ h \in heap'
               /\ \A p \in Live' : At(p)'.str \in {Nobody, h}
    <3>1. h = This(t) /\ Handlers = {h} /\ h \in Handlers /\ At(h).at \in {"show", "free"}
      BY <1>3, <2>1, <2>3, <2>6
    <3>2. msg = h /\ h \in heap /\ \A p \in Live : At(p).str \in {Nobody, h}
      BY <3>1 DEF AloneInv
    <3> QED
      BY <2>1, <2>2, <2>3, <3>2
  <2> QED
    BY <1>2, <2>3, <2>5, <2>6 DEF AloneInv
<1> QED
  BY <1>5, <1>6, <1>7, <1>8 DEF HandlerStep

\* The program ends: a crash comes from a message of another handler, or from
\* an action that was ignored.
LEMMA EndHandlers ==
  ASSUME StackOK, HandlerInv, ended = "no", NEW t \in Threads,
         \/ PrintFreed(t) \/ FreeAgain(t) \/ TraceRace(t) \/ ForwardIgnored(t)
         \/ Overflow(t) \/ Exit(t)
  PROVE  HandlerInv'
<1> USE DEF HandlerInv
<1>1. UNCHANGED <<old, stack, msg, heap>>
  BY DEF PrintFreed, FreeAgain, TraceRace, ForwardIgnored, Overflow, Exit, Crash, install, memory
<1>2. Live' = Live /\ Handlers' = Handlers
  BY <1>1 DEF Live, Handlers
<1>3. IsFiniteSet(Handlers') /\ ShownInv' /\ AloneInv'
  BY <1>1, <1>2 DEF ShownInv, AloneInv, At, Below
<1>4. CASE Exit(t) \/ Overflow(t)
  BY <1>3, <1>4 DEF LoneHandlerSafe, Exit, Overflow
<1>5. CASE ForwardIgnored(t)
  <2>1. This(t) \in Handlers /\ Top(t) = At(This(t)) /\ old[Top(t).sig] = "ignore"
    <3>1. Top(t).at = "forward" /\ old[Top(t).sig] = "ignore"
      BY <1>5 DEF ForwardIgnored
    <3> QED
      BY <3>1, TopFrame, HandlersAre DEF FrameAt, CallAt
  <2>2. \E p \in Handlers : old[stack[p[1]][p[2]].sig] = "ignore"
    BY <2>1 DEF At
  <2> QED
    BY <1>1, <1>2, <1>3, <2>2 DEF LoneHandlerSafe
<1>6. CASE TraceRace(t)
  <2>1. This(t) \in Handlers /\ At(This(t)).at = "show" /\ msg # This(t)
    <3>1. Top(t).at = "show" /\ msg # This(t)
      BY <1>6 DEF TraceRace
    <3> QED
      BY <3>1, TopFrame, HandlersAre DEF FrameAt, CallAt
  <2>2. Cardinality(Handlers) > 1
    BY <2>1, OnlyHandler DEF AloneInv
  <2> QED
    BY <1>2, <1>3, <2>2 DEF LoneHandlerSafe
<1>7. CASE PrintFreed(t) \/ FreeAgain(t)
  <2>1. This(t) \in Live /\ At(This(t)).str \notin heap \cup {Nobody}
    <3>1. Top(t).at \in {"print", "held"} /\ Top(t).str \notin heap \cup {Nobody}
      BY <1>7 DEF PrintFreed, FreeAgain
    <3> QED
      BY <3>1, TopFrame DEF FrameAt, CallAt
  <2>2. Below(This(t)) \in Handlers
    BY <2>1 DEF ShownInv
  <2>3. Cardinality(Handlers) > 1
    BY <2>1, <2>2, OnlyHandler DEF AloneInv
  <2> QED
    BY <1>2, <1>3, <2>3 DEF LoneHandlerSafe
<1> QED
  BY <1>4, <1>5, <1>6, <1>7

-----------------------------------------------------------------------------
(* The theorems.                                                             *)

\* The frames and the mutex through the steps that are not the log's own.
LEMMA FramesStep ==
  ASSUME StackOK, PrintInv, NEW t \in Threads,
         \/ Log(t) \/ UseHeap(t) \/ HeapLock(t) \/ HeapReturn(t)
         \/ (\E s \in SignalSet : Deliver(t, s))
         \/ HandlerStep(t)
  PROVE  StackOK' /\ PrintInv'
<1>1. UNCHANGED <<stream_mutex, line>>
  BY DEF Log, UseHeap, Begin, HeapLock, HeapReturn, Deliver, HandlerStep, Report, Allocate, Store,
         Show, Free, Forward, output
<1>2. CASE Log(t) \/ UseHeap(t)
  BY <1>1, <1>2, LogFrames, SamePrinting
<1>3. ASSUME NEW s \in SignalSet, Deliver(t, s) PROVE StackOK' /\ PrintInv'
  <2>1. Frame("report", s, 0, Nobody).at # "print"
    BY DEF Frame
  <2> QED
    BY <1>1, <1>3, <2>1, DeliverFrames, SamePrinting
<1>4. CASE HeapLock(t) \/ Store(t) \/ Forward(t)
  <2>1. PICK l \in {"held", "show", "exit"} :
          Goto(t, l) /\ Top(t).at \in (IF l = "held" THEN {"heap"} ELSE {"store", "forward"})
    BY <1>4 DEF HeapLock, Store, Forward
  <2>2. /\ Top(t).at \in FrameAt /\ l \in FrameAt /\ l # "print" /\ Top(t).at # "print"
        /\ l \in CallAt <=> Top(t).at \in CallAt
    BY <2>1 DEF FrameAt, CallAt
  <2>3. msg' \in Threads \X Nat \cup {Nobody}
    <3>1. CASE Store(t)
      <4>1. This(t) \in Live /\ msg' = This(t)
        BY <2>2, <3>1, TopFrame DEF Store
      <4> QED
        BY <4>1 DEF Live
    <3>2. CASE HeapLock(t) \/ Forward(t)
      BY <3>2 DEF HeapLock, Forward, memory, StackOK
    <3> QED
      BY <1>4, <3>1, <3>2
  <2>4. /\ StackOK' /\ Live' = Live /\ Top(t) = At(This(t))
        /\ \A p \in Live : At(p)'.at = IF p = This(t) THEN l ELSE At(p).at
    BY <2>1, <2>2, <2>3, GoesOnFrames
  <2> QED
    BY <1>1, <2>2, <2>4, SamePrinting
<1>5. CASE Report(t) \/ Allocate(t) \/ Show(t) \/ Free(t)
  <2>1. PICK l \in {"allocate", "store", "free", "forward"}, str \in {Nobody, msg} :
          \E call \in {Call(1, str), HeapCall(str)} : GotoAfter(t, l, call)
    BY <1>5 DEF Report, Allocate, Show, Free
  <2>2. PICK call \in {Call(1, str), HeapCall(str)} : GotoAfter(t, l, call)
    BY <2>1
  <2>3. call \in Frames /\ call.sig = Nobody /\ call.at \in CallAt \ {"print"}
    BY DEF Call, HeapCall, Frame, Frames, FrameAt, CallAt, StackOK
  <2>4. HandlerStep(t) /\ UNCHANGED msg /\ l \in FrameAt \ CallAt /\ l # "print"
    BY <1>5 DEF HandlerStep, Report, Allocate, Show, Free, memory, FrameAt, CallAt
  <2>5. Top(t).at \in FrameAt \ CallAt /\ Top(t).at # "print"
    BY <2>4, StepOnTop DEF CallAt
  <2>6. /\ StackOK' /\ Live \subseteq Live' /\ Top(t) = At(This(t))
        /\ \A p \in Live' \ Live : At(p)' = call
        /\ \A p \in Live : At(p)'.at = IF p = This(t) THEN l ELSE At(p).at
    BY <2>2, <2>3, <2>4, <2>5, CallsOnFrames
  <2> QED
    BY <1>1, <2>3, <2>4, <2>5, <2>6, SamePrinting
<1>6. CASE HeapReturn(t)
  <2>1. /\ StackOK' /\ Live' = Live \ {This(t)} /\ Top(t) = At(This(t))
        /\ \A p \in Live' : At(p)' = At(p)
    BY <1>6, LastFrames
  <2>2. Printing' = Printing
    BY <1>6, <2>1 DEF Printing, HeapReturn
  <2> QED
    BY <1>1, <2>1, <2>2 DEF PrintInv
<1> QED
  BY <1>2, <1>3, <1>4, <1>5, <1>6 DEF HandlerStep

\* The frames through the steps of the log.
LEMMA LogStep ==
  ASSUME StackOK, NEW t \in Threads, Lock(t) \/ PrintPiece(t) \/ PrintLast(t)
  PROVE  StackOK'
<1>1. CASE Lock(t)
  <2>1. Top(t).at = "lock" /\ Goto(t, "print") /\ UNCHANGED msg
    BY <1>1 DEF Lock, memory
  <2>2. msg' \in Threads \X Nat \cup {Nobody}
    BY <2>1 DEF StackOK
  <2> QED
    BY <2>1, <2>2, GoesOnFrames DEF FrameAt, CallAt
<1> QED
  BY <1>1, PieceFrames, LastFrames

\* No handler is installed and no frame exists before the first call.
LEMMA InvInit == Init => IInv
<1> SUFFICES ASSUME Init PROVE IInv
  OBVIOUS
<1> USE DEF Init
<1>1. InstallInv
  BY SignalsSpelled DEF InstallInv, InstallOK, Installed
<1>2. stack \in [Threads -> Seq(Frames)]
  OBVIOUS
<1>3. Live = {}
  BY DEF Live
<1>4. StackOK /\ PrintInv
  BY <1>2, <1>3 DEF StackOK, PrintInv, Printing
<1>5. Handlers = {}
  BY <1>3, <1>4, HandlersAre
<1>6. HandlerInv
  BY <1>3, <1>5, FS_EmptySet DEF HandlerInv, ShownInv, AloneInv, LoneHandlerSafe
<1> QED
  BY <1>1, <1>4, <1>6 DEF IInv

\* Every step keeps the invariant.
LEMMA InvStep == IInv /\ [Next]_vars => IInv'
<1> SUFFICES ASSUME IInv, [Next]_vars PROVE IInv'
  OBVIOUS
<1> USE DEF IInv
<1>1. ASSUME UNCHANGED install PROVE InstallInv'
  BY <1>1 DEF install, InstallInv, InstallOK, Installed
<1>2. ASSUME UNCHANGED <<output, memory, stack>> PROVE StackOK' /\ PrintInv'
  <2>1. UNCHANGED <<stream_mutex, line, msg, stack>>
    BY <1>2 DEF output, memory
  <2>2. Live' = Live /\ Printing' = Printing /\ \A p \in Live : At(p)' = At(p)
    BY <2>1 DEF Live, Printing, At
  <2> QED
    BY <2>1, <2>2 DEF StackOK, PrintInv
<1>3. ASSUME UNCHANGED <<memory, stack, ended>>, ended = "no" \/ UNCHANGED old PROVE HandlerInv'
  <2>1. Live' = Live /\ Handlers' = Handlers /\ \A p \in Live : At(p)' = At(p)
    BY <1>3 DEF Live, Handlers, At
  <2>2. Handlers \subseteq Live /\ UNCHANGED <<msg, heap>>
    BY <1>3, HandlersAre DEF memory
  <2>3. ShownInv' /\ AloneInv'
    BY <2>1, <2>2 DEF HandlerInv, ShownInv, AloneInv
  <2>4. LoneHandlerSafe'
    BY <1>3, <2>1 DEF HandlerInv, LoneHandlerSafe
  <2> QED
    BY <2>1, <2>3, <2>4 DEF HandlerInv
<1>4. CASE Setup
  <2>1. UNCHANGED <<output, memory, stack, ended>> /\ ended = "no"
    BY <1>4 DEF Setup, CallInit, SetStack, Install, CallFini, Restore
  <2> QED
    BY <1>2, <1>3, <1>4, <2>1, InstallStep
<1>5. ASSUME NEW t \in Threads, ended = "no", \E s \in SignalSet : Deliver(t, s)
      PROVE  IInv'
  <2>1. UNCHANGED install
    BY <1>5 DEF Deliver
  <2> QED
    BY <1>1, <1>5, <2>1, FramesStep, DeliverHandlers
<1>6. ASSUME NEW t \in Threads, ended = "no",
             \/ Log(t) \/ UseHeap(t) \/ Lock(t) \/ PrintPiece(t) \/ PrintLast(t)
             \/ HeapLock(t) \/ HeapReturn(t)
      PROVE  IInv'
  <2>1. UNCHANGED install
    BY <1>6 DEF Log, UseHeap, Begin, Lock, PrintPiece, PrintLast, HeapLock, HeapReturn
  <2> QED
    BY <1>1, <1>6, <2>1, FramesStep, LogStep, PrintStep, CallHandlers, ReturnHandlers
<1>7. ASSUME NEW t \in Threads, ended = "no", HandlerStep(t)
      PROVE  IInv'
  <2>1. UNCHANGED install
    BY <1>7 DEF HandlerStep, Report, Allocate, Store, Show, Free, Forward
  <2> QED
    BY <1>1, <1>7, <2>1, FramesStep, HandlerHandlers
<1>8. ASSUME NEW t \in Threads, ended = "no",
             \/ PrintFreed(t) \/ FreeAgain(t) \/ TraceRace(t) \/ ForwardIgnored(t)
             \/ Overflow(t) \/ Exit(t)
      PROVE  IInv'
  <2>1. UNCHANGED <<install, output, memory, stack>>
    BY <1>8 DEF PrintFreed, FreeAgain, TraceRace, ForwardIgnored, Overflow, Exit, Crash
  <2> QED
    BY <1>1, <1>2, <1>8, <2>1, EndHandlers
<1>9. CASE UNCHANGED vars
  <2>1. UNCHANGED <<install, output, memory, stack, ended>> /\ UNCHANGED old
    BY <1>9 DEF vars, install
  <2> QED
    BY <1>1, <1>2, <1>3, <2>1
<1> QED
  BY <1>4, <1>5, <1>6, <1>7, <1>8, <1>9 DEF Next, Environment, Step, HandlerStep

\* In every behaviour the invariant holds throughout.
LEMMA InvAlways == Spec => []IInv
BY InvInit, InvStep, PTL DEF Spec

\* cc_except_init and cc_except_fini lose no action of the program and save
\* none of their own, in any number of rounds and whatever signals arrive.
THEOREM ActionsAreKept == Spec => []ActionsKept
<1>1. IInv => ActionsKept
  BY InstallGivesKept DEF IInv
<1> QED
  BY <1>1, InvAlways, PTL

\* In a build with assertions each signal has our handler once cc_except_init is
\* done: what CCASSERT loses under NDEBUG is all that it promises.
THEOREM DebugInstalls == ASSUME Asserts PROVE Spec => []InitInstalls
<1>1. IInv => InitInstalls
  <2> SUFFICES ASSUME IInv, phase = "on", NEW s \in SignalSet PROVE action[s] = "ours"
    BY DEF InitInstalls
  <2>1. PICK i \in DOMAIN Signals : s = Signals[i]
    BY SignalsSpelled
  <2> QED
    BY <2>1 DEF IInv, InstallInv, Installed
<1> QED
  BY <1>1, InvAlways, PTL

\* A handler that is alone in the program does not crash in cc_print_stack, nor in
\* the log, wherever it interrupts its thread.
THEOREM LoneHandlersAreSafe == Spec => []LoneHandlerSafe
<1>1. IInv => LoneHandlerSafe
  BY DEF IInv, HandlerInv
<1> QED
  BY <1>1, InvAlways, PTL

\* A line of cc_log is printed without another's pieces in it, whichever threads
\* log and whichever signals interrupt them.
THEOREM LinesStayWhole == Spec => LinesWhole
<1>1. ASSUME IInv PROVE \A t \in Threads : PrintPiece(t) \/ PrintLast(t) => line \in {Nobody, This(t)}
  <2> SUFFICES ASSUME NEW t \in Threads, PrintPiece(t) \/ PrintLast(t)
               PROVE  line \in {Nobody, This(t)}
    OBVIOUS
  <2>1. This(t) \in Printing
    BY <1>1, PieceFrames, LastFrames DEF IInv, Printing, PrintLast
  <2> QED
    BY <1>1, <2>1 DEF IInv, PrintInv
<1>2. IInv /\ [Next]_vars => [\A t \in Threads : PrintPiece(t) \/ PrintLast(t) => line \in {Nobody, This(t)}]_vars
  BY <1>1
<1> QED
  BY <1>2, InvAlways, PTL DEF Spec, LinesWhole

\* An overflow of the stack of the thread that calls cc_except_init reaches the handler
\* whenever it is installed for SIGSEGV.
THEOREM OverflowsAreReported == Spec => OverflowReported
<1>1. ASSUME IInv PROVE \A t \in Threads : Overflow(t) => t # Caller
  <2> SUFFICES ASSUME Overflow(Caller) PROVE FALSE
    OBVIOUS
  <2>1. "SIGSEGV" \in SignalSet /\ action["SIGSEGV"] = "ours" /\ Caller \notin altstack
    BY DEF Overflow
  <2>2. PICK i \in DOMAIN Signals : "SIGSEGV" = Signals[i]
    BY <2>1, SignalsSpelled
  <2>3. Installed(i)
    <3>1. program["SIGSEGV"] # "ours"
      BY <1>1, <2>1 DEF IInv, InstallInv, InstallOK
    <3> QED
      BY <1>1, <2>1, <2>2, <3>1 DEF IInv, InstallInv
  <2> QED
    BY <1>1, <2>1, <2>3 DEF Installed, IInv, InstallInv, InstallOK
<1>2. IInv /\ [Next]_vars => [\A t \in Threads : Overflow(t) => t # Caller]_vars
  BY <1>1
<1> QED
  BY <1>2, InvAlways, PTL DEF Spec, OverflowReported
=============================================================================
