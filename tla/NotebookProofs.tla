---------------------------- MODULE NotebookProofs ----------------------------
(***************************************************************************)
(* What the notebook shows of its runs and of its kernel is true, for any  *)
(* number of cells and of runs asked for.                                  *)
(***************************************************************************)
EXTENDS Notebook, SequenceTheorems, TLAPS

\* What the worker is at, and what of it the page has not heard yet.
PipeAgrees ==
    /\ ~Alive => run = "none" /\ job = "none" /\ wire = <<>>
    /\ worker \in {"booting", "broken"} =>
          /\ (job = "none" /\ run = "none") \/ (job = "posted" /\ run = "sent")
          /\ wire = IF worker = "booting" THEN <<>> ELSE <<"boot-error">>
    /\ worker = "up" =>
          \/ job = "none" /\ run = "none" /\ wire = <<>>
          \/ job = "posted" /\ run = "sent" /\ wire = <<>>
          \/ job \in {"exec", "loop"} /\ run = "sent" /\ wire = <<"exec">>
          \/ job \in {"exec", "loop"} /\ run = "exec" /\ wire = <<>>
          \/ job = "asleep" /\ run = "sent" /\ wire = <<"exec", "input">>
          \/ job = "asleep" /\ run = "exec" /\ wire = <<"input">>
          \/ job = "asleep" /\ run = "input" /\ wire = <<>>
          \/ job = "none" /\ run = "sent" /\ wire \in {<<"exec", "ok">>, <<"exec", "error">>, <<"error">>}
          \/ job = "none" /\ run = "exec" /\ wire \in {<<"ok">>, <<"error">>}

\* The run under way, or the end that waits for its continuation, is that of
\* the head of the line.
LineAgrees ==
    /\ run # "none" => result = "none" /\ queue # <<>> /\ Head(queue).who \in since
    /\ result # "none" => queue # <<>>
    /\ result \in {"timedOut", "stopped"} => ~Alive
    /\ \A i \in 1..Len(queue) :
          /\ queue[i].token <= cancel
          /\ queue[i].who \in Cells => kind[queue[i].who] # "unused"

\* Only a code cell is shown as queued or running, and it is where it says.
ShownAgrees ==
    \A c \in Cells :
        /\ kind[c] \in {"unused", "gone"} => look[c] = "idle" /\ count[c] = 0
        /\ look[c] \in {"queued", "running"} => kind[c] = "code"
        /\ look[c] = "running" => Served /\ queue # <<>> /\ Head(queue).who = c
        /\ look[c] = "queued" =>
              \E i \in 1..Len(queue) :
                  queue[i] = [who |-> c, token |-> cancel] /\ (Served => i # 1)

\* The counter is past every number, unless the next run gets a new kernel or
\* has one that the page has not taken note of.
NumbersAgree ==
    /\ generation = 0 => worker = "none" /\ result = "none"
    /\ lastGeneration <= generation
    /\ lastGeneration = 0 => \A c \in Cells : count[c] = 0
    /\ \/ \A c \in Cells : count[c] <= counter
       \/ generation # lastGeneration
       \/ ~Alive /\ result = "none"

\* A cell's run that ends well has left its definitions in the kernel.
KernelAgrees ==
    /\ result = "ok" /\ Alive /\ Head(queue).who \in Cells => Head(queue).who \in kernel
    /\ wire \in {<<"ok">>, <<"exec", "ok">>} /\ Head(queue).who \in Cells =>
           Head(queue).who \in kernel

\* What is still in the line when the screen was left is passed over.
LeftAgrees ==
    left /\ ~behind =>
        /\ ~Alive
        /\ result = "none" => \A i \in 1..Len(queue) : Skips(queue[i])
        /\ result # "none" =>
              /\ result = "stopped"
              /\ \A i \in 2..Len(queue) : queue[1].who \in Cells /\ queue[i].who \in Cells

NotebookInv ==
    /\ NotebookTypeOK
    /\ PipeAgrees /\ LineAgrees /\ ShownAgrees /\ NumbersAgree /\ KernelAgrees /\ LeftAgrees
    /\ NumbersAreOfThisKernel /\ NumberedAreRemembered /\ ResetForgets

-----------------------------------------------------------------------------
(* Lines and messages *)

LEMMA HeadAndTail ==
    ASSUME NEW S, NEW q \in Seq(S), q # <<>>
    PROVE  /\ Head(q) = q[1] /\ q[1] \in S /\ Len(q) \in Nat \ {0}
           /\ Tail(q) \in Seq(S) /\ Len(Tail(q)) = Len(q) - 1
           /\ \A i \in 1..(Len(q) - 1) : Tail(q)[i] = q[i + 1]
  OBVIOUS

LEMMA Appended ==
    ASSUME NEW S, NEW q \in Seq(S), NEW e \in S
    PROVE  /\ Append(q, e) \in Seq(S) /\ Append(q, e) # <<>> /\ Len(Append(q, e)) = Len(q) + 1
           /\ Len(q) \in Nat /\ Append(q, e)[Len(q) + 1] = e
           /\ \A i \in 1..Len(q) : Append(q, e)[i] = q[i]
           /\ q # <<>> => Head(Append(q, e)) = Head(q)
  <1>1. /\ Append(q, e) \in Seq(S) /\ Len(Append(q, e)) = Len(q) + 1
        /\ Len(q) \in Nat /\ Append(q, e)[Len(q) + 1] = e
        /\ \A i \in 1..Len(q) : Append(q, e)[i] = q[i]
    OBVIOUS
  <1>2. Append(q, e) # <<>>
    BY <1>1
  <1>3. ASSUME q # <<>>  PROVE Head(Append(q, e)) = Head(q)
    <2>1. Head(q) = q[1] /\ 1 \in 1..Len(q)
      BY <1>3
    <2>2. Head(Append(q, e)) = Append(q, e)[1]
      BY <1>1, <1>2
    <2> QED BY <1>1, <2>1, <2>2
  <1> QED BY <1>1, <1>2, <1>3

LEMMA InitNotebookInv == NotebookInit => NotebookInv
  <1> SUFFICES ASSUME NotebookInit  PROVE NotebookInv
    OBVIOUS
  <1>1. NotebookTypeOK
    <2>1. /\ kind \in [Cells -> {"unused", "code", "text", "gone"}]
          /\ look \in [Cells -> {"idle", "queued", "running", "ok", "error"}]
          /\ count \in [Cells -> Nat] /\ ranIn \in [Cells -> Nat]
      BY DEF NotebookInit
    <2>2. /\ queue \in Seq([who: Askers, token: Nat])
          /\ wire \in Seq({"boot-error", "exec", "input", "ok", "error"})
      BY DEF NotebookInit
    <2> QED BY <2>1, <2>2 DEF NotebookInit, NotebookTypeOK
  <1>2. PipeAgrees /\ LineAgrees /\ ShownAgrees /\ NumbersAgree /\ KernelAgrees /\ LeftAgrees
    BY DEF NotebookInit, PipeAgrees, LineAgrees, ShownAgrees, NumbersAgree, KernelAgrees,
           LeftAgrees, Alive
  <1>3. NumbersAreOfThisKernel /\ NumberedAreRemembered /\ ResetForgets
    BY DEF NotebookInit, NumbersAreOfThisKernel, NumberedAreRemembered, ResetForgets
  <1> QED BY <1>1, <1>2, <1>3 DEF NotebookInv

LEMMA Wires ==
    \A m :
        /\ Append(<<>>, m) = <<m>> /\ Append(<<"exec">>, m) = <<"exec", m>>
        /\ Head(<<m>>) = m /\ Head(<<"exec", m>>) = "exec"
        /\ Tail(<<m>>) = <<>> /\ Tail(<<"exec", m>>) = <<m>>
        /\ <<m>> # <<>> /\ <<"exec", m>> # <<>>
        /\ <<m>> \in {<<"ok">>, <<"exec", "ok">>} => m = "ok"
        /\ <<"exec", m>> \in {<<"ok">>, <<"exec", "ok">>} => m = "ok"
        /\ <<>> \notin {<<"ok">>, <<"exec", "ok">>}
  <1> TAKE m
  <1>1. Append(<<>>, m) = <<m>> /\ Append(<<"exec">>, m) = <<"exec", m>>
    <2>1. Append(<<>>, m) = <<m>>
      OBVIOUS
    <2>2. Append(<<"exec">>, m) = <<"exec", m>>
      <3> DEFINE S == {"exec", m}
                 one == Append(<<"exec">>, m)
                 two == <<"exec", m>>
      <3>1. one \in Seq(S) /\ Len(one) = 2 /\ one[1] = "exec" /\ one[2] = m
        OBVIOUS
      <3>2. two \in Seq(S) /\ Len(two) = 2 /\ two[1] = "exec" /\ two[2] = m
        OBVIOUS
      <3> HIDE DEF S, one, two
      <3>3. \A i \in 1..Len(one) : one[i] = two[i]
        BY <3>1, <3>2
      <3>4. one = two
        BY <3>1, <3>2, <3>3, SeqEqual
      <3> QED BY <3>4 DEF one, two
    <2> QED BY <2>1, <2>2
  <1>2. Head(<<m>>) = m /\ Head(<<"exec", m>>) = "exec"
    OBVIOUS
  <1>3. Tail(<<m>>) = <<>> /\ Tail(<<"exec", m>>) = <<m>>
    OBVIOUS
  <1>4. <<m>> # <<>> /\ <<"exec", m>> # <<>>
    OBVIOUS
  <1>5. <<m>> \in {<<"ok">>, <<"exec", "ok">>} => m = "ok"
    <2>1. <<m>> # <<"exec", "ok">>
      <3>1. Len(<<m>>) = 1 /\ Len(<<"exec", "ok">>) = 2
        OBVIOUS
      <3> QED BY <3>1
    <2> QED BY <2>1
  <1>6. <<"exec", m>> \in {<<"ok">>, <<"exec", "ok">>} => m = "ok"
    <2>1. <<"exec", m>> # <<"ok">>
      <3>1. Len(<<"ok">>) = 1 /\ Len(<<"exec", m>>) = 2
        OBVIOUS
      <3> QED BY <3>1
    <2> QED BY <2>1
  <1>7. <<>> \notin {<<"ok">>, <<"exec", "ok">>}
    BY <1>4
  <1> QED BY <1>1, <1>2, <1>3, <1>4, <1>5, <1>6, <1>7

\* The messages of the worker.
Messages == {"boot-error", "exec", "input", "ok", "error"}

LEMMA WiresType ==
    /\ <<>> \in Seq(Messages)
    /\ \A m \in Messages : <<m>> \in Seq(Messages) /\ <<"exec", m>> \in Seq(Messages)
  BY DEF Messages

-----------------------------------------------------------------------------
(* The worker's steps *)

LEMMA BootStep ==
    ASSUME NotebookInv, Boot
    PROVE  NotebookInv'
  <1>0. /\ NotebookTypeOK /\ PipeAgrees /\ LineAgrees /\ ShownAgrees /\ NumbersAgree /\ KernelAgrees
        /\ LeftAgrees /\ NumbersAreOfThisKernel /\ NumberedAreRemembered /\ ResetForgets
    BY DEF NotebookInv
  <1>1. /\ worker = "booting" /\ wire = <<>>
        /\ \/ worker' = "up" /\ wire' = <<>>
           \/ worker' = "broken" /\ wire' = <<"boot-error">>
        /\ UNCHANGED <<pageVars, generation, job, kernel, left, history>>
    <2>1. worker = "booting" /\ wire = <<>>
      BY <1>0 DEF Boot, PipeAgrees
    <2>2. Append(wire, "boot-error") = <<"boot-error">>
      BY <2>1, Wires
    <2> QED BY <2>1, <2>2 DEF Boot
  <1>2. Alive /\ Alive'
    BY <1>1 DEF Alive
  <1>3. wire' \in Seq(Messages)
    BY <1>1, WiresType DEF Messages
  <1>4. NotebookTypeOK'
    BY <1>0, <1>1, <1>3 DEF NotebookTypeOK, pageVars, history, Messages
  <1>5. PipeAgrees'
    BY <1>0, <1>1, <1>2 DEF PipeAgrees, pageVars
  <1>6. LineAgrees' /\ ShownAgrees'
    BY <1>0, <1>1, <1>2 DEF LineAgrees, ShownAgrees, Served, pageVars, history
  <1>7. NumbersAgree' /\ LeftAgrees' /\ NumbersAreOfThisKernel' /\ NumberedAreRemembered' /\ ResetForgets'
    BY <1>0, <1>1, <1>2 DEF NumbersAgree, LeftAgrees, NumbersAreOfThisKernel, NumberedAreRemembered,
                            ResetForgets, pageVars, history
  <1>8. KernelAgrees'
    BY <1>0, <1>1, <1>2, Wires DEF KernelAgrees, pageVars
  <1> QED BY <1>4, <1>5, <1>6, <1>7, <1>8 DEF NotebookInv

LEMMA LoadStep ==
    ASSUME NotebookInv, Load
    PROVE  NotebookInv'
  <1>0. /\ NotebookTypeOK /\ PipeAgrees /\ LineAgrees /\ ShownAgrees /\ NumbersAgree /\ KernelAgrees
        /\ LeftAgrees /\ NumbersAreOfThisKernel /\ NumberedAreRemembered /\ ResetForgets
    BY DEF NotebookInv
  <1>1. /\ worker = "up" /\ wire = <<>> /\ run = "sent"
        /\ \/ job' = "exec" /\ wire' = <<"exec">>
           \/ job' = "none" /\ wire' = <<"error">>
        /\ UNCHANGED <<pageVars, worker, generation, kernel, left, history>>
    BY <1>0, Wires DEF Load, PipeAgrees
  <1>2. Alive /\ Alive'
    BY <1>1 DEF Alive
  <1>3. wire' \in Seq(Messages)
    BY <1>1, WiresType DEF Messages
  <1>4. NotebookTypeOK'
    BY <1>0, <1>1, <1>3 DEF NotebookTypeOK, pageVars, history, Messages
  <1>5. PipeAgrees'
    BY <1>0, <1>1, <1>2 DEF PipeAgrees, pageVars
  <1>6. LineAgrees' /\ ShownAgrees'
    BY <1>0, <1>1, <1>2 DEF LineAgrees, ShownAgrees, Served, pageVars, history
  <1>7. NumbersAgree' /\ LeftAgrees' /\ NumbersAreOfThisKernel' /\ NumberedAreRemembered' /\ ResetForgets'
    BY <1>0, <1>1, <1>2 DEF NumbersAgree, LeftAgrees, NumbersAreOfThisKernel, NumberedAreRemembered,
                            ResetForgets, pageVars, history
  <1>8. KernelAgrees'
    BY <1>0, <1>1, <1>2, Wires DEF KernelAgrees, pageVars
  <1> QED BY <1>4, <1>5, <1>6, <1>7, <1>8 DEF NotebookInv

\* The code that runs leaves its definitions, if it is not a grading, before it
\* tells that it is done.
LEMMA ExecuteStep ==
    ASSUME NotebookInv, Execute
    PROVE  NotebookInv'
  <1>0. /\ NotebookTypeOK /\ PipeAgrees /\ LineAgrees /\ ShownAgrees /\ NumbersAgree /\ KernelAgrees
        /\ LeftAgrees /\ NumbersAreOfThisKernel /\ NumberedAreRemembered /\ ResetForgets
    BY DEF NotebookInv
  <1> DEFINE who == Head(queue).who
  <1>1. /\ worker = "up" /\ job = "exec" /\ Alive
        /\ (run = "sent" /\ wire = <<"exec">>) \/ (run = "exec" /\ wire = <<>>)
        /\ UNCHANGED <<pageVars, worker, generation, left, history>>
    BY <1>0 DEF Execute, PipeAgrees, Alive
  <1>2. who \in Askers /\ who \in since
    <2>1. queue # <<>> /\ who \in since
      BY <1>0, <1>1 DEF LineAgrees
    <2> QED BY <1>0, <2>1, HeadAndTail DEF NotebookTypeOK
  <1>3. \A m \in Messages : Append(wire, m) \in {<<m>>, <<"exec", m>>}
    BY <1>1, Wires
  <1>4. wire' \in Seq(Messages) /\ job' \in {"none", "asleep", "loop"}
    <2>1. wire' = wire \/ \E m \in Messages : wire' = Append(wire, m)
      BY DEF Execute, Messages
    <2>2. wire \in Seq(Messages)
      BY <1>0 DEF NotebookTypeOK, Messages
    <2> QED BY <1>3, <2>1, <2>2, WiresType DEF Execute
  <1>5. kernel \subseteq kernel' /\ kernel' \subseteq kernel \cup {who}
    BY DEF Execute, Defines
  <1>6. NotebookTypeOK'
    BY <1>0, <1>1, <1>2, <1>4, <1>5 DEF NotebookTypeOK, pageVars, history, Messages
  <1>7. PipeAgrees'
    <2>1. Alive' /\ worker' = "up" /\ run' = run
      BY <1>1 DEF Alive, pageVars
    <2>2. CASE wire = <<>> /\ run = "exec"
      BY <2>1, <2>2, Wires DEF Execute, PipeAgrees
    <2>3. CASE wire = <<"exec">> /\ run = "sent"
      BY <2>1, <2>3, Wires DEF Execute, PipeAgrees
    <2> QED BY <1>1, <2>2, <2>3
  <1>8. LineAgrees' /\ ShownAgrees'
    BY <1>0, <1>1 DEF LineAgrees, ShownAgrees, Served, Alive, pageVars, history
  <1>9. /\ NumbersAgree' /\ LeftAgrees' /\ NumbersAreOfThisKernel'
    BY <1>0, <1>1 DEF NumbersAgree, LeftAgrees, NumbersAreOfThisKernel, Alive, pageVars, history
  <1>10. NumberedAreRemembered'
    BY <1>0, <1>1, <1>5 DEF NumberedAreRemembered, Alive, pageVars
  <1>11. ResetForgets'
    BY <1>0, <1>1, <1>2, <1>5 DEF ResetForgets, history
  <1>12. KernelAgrees'
    <2>1. result' = "none"
      BY <1>0, <1>1 DEF LineAgrees, pageVars
    <2>2. wire' \in {<<"ok">>, <<"exec", "ok">>} => who \notin Cells \/ who \in kernel'
      <3>1. CASE kernel' = kernel \cup Defines(who)
        BY <3>1, NotebookAssumption DEF Defines
      <3>2. CASE wire' = wire
        BY <1>1, <3>2, Wires
      <3>3. CASE wire' \in {Append(wire, "error"), Append(wire, "input")}
        BY <1>1, <3>3, Wires
      <3> QED BY <3>1, <3>2, <3>3 DEF Execute
    <2>3. who' = who
      BY <1>1 DEF pageVars
    <2> QED BY <2>1, <2>2, <2>3 DEF KernelAgrees
  <1> QED BY <1>6, <1>7, <1>8, <1>9, <1>10, <1>11, <1>12 DEF NotebookInv

-----------------------------------------------------------------------------
(* The runner's steps *)

LEMMA WarmStep ==
    ASSUME NotebookInv, Warm
    PROVE  NotebookInv'
  <1>0. /\ NotebookTypeOK /\ PipeAgrees /\ LineAgrees /\ ShownAgrees /\ NumbersAgree /\ KernelAgrees
        /\ LeftAgrees /\ NumbersAreOfThisKernel /\ NumberedAreRemembered /\ ResetForgets
    BY DEF NotebookInv
  <1>1. /\ worker = "none" /\ generation = 0 /\ run = "none" /\ ~left
        /\ worker' = "booting" /\ generation' = 1 /\ job' = "none" /\ wire' = <<>> /\ kernel' = {}
        /\ UNCHANGED <<pageVars, left, history>>
    BY <1>0 DEF Warm, Spawn, PipeAgrees, Alive
  <1>2. Alive' /\ result = "none" /\ lastGeneration = 0 /\ \A c \in Cells : count[c] = 0
    BY <1>0, <1>1 DEF Alive, NumbersAgree, NotebookTypeOK
  <1>3. NotebookTypeOK'
    BY <1>0, <1>1, WiresType DEF NotebookTypeOK, pageVars, history, Messages
  <1>4. PipeAgrees' /\ LineAgrees'
    BY <1>0, <1>1, <1>2 DEF PipeAgrees, LineAgrees, pageVars, history
  <1>5. ShownAgrees' /\ NumbersAgree' /\ LeftAgrees'
    BY <1>0, <1>1, <1>2 DEF ShownAgrees, Served, NumbersAgree, LeftAgrees, NotebookTypeOK, pageVars
  <1>6. KernelAgrees'
    BY <1>1, <1>2, Wires DEF KernelAgrees, pageVars
  <1>7. NumbersAreOfThisKernel' /\ NumberedAreRemembered' /\ ResetForgets'
    BY <1>1, <1>2 DEF NumbersAreOfThisKernel, NumberedAreRemembered, ResetForgets, pageVars
  <1> QED BY <1>3, <1>4, <1>5, <1>6, <1>7 DEF NotebookInv

\* A run is broken off, and its worker with it.
LEMMA BreakStep ==
    ASSUME NotebookInv, TimeOut \/ Stop
    PROVE  NotebookInv'
  <1>0. /\ NotebookTypeOK /\ PipeAgrees /\ LineAgrees /\ ShownAgrees /\ NumbersAgree /\ KernelAgrees
        /\ LeftAgrees /\ NumbersAreOfThisKernel /\ NumberedAreRemembered /\ ResetForgets
    BY DEF NotebookInv
  <1>1. /\ run # "none" /\ run' = "none" /\ result' \in {"timedOut", "stopped"}
        /\ worker' = "none" /\ job' = "none" /\ wire' = <<>> /\ kernel' = {}
        /\ UNCHANGED <<kind, look, count, queue, cancel, counter, lastGeneration, left, history, generation>>
    BY DEF TimeOut, Stop, Settled, Free, StopRunner, Finish, Kill
  <1>2. Alive /\ ~Alive'
    BY <1>0, <1>1 DEF PipeAgrees, Alive
  <1>3. NotebookTypeOK'
    BY <1>0, <1>1, WiresType DEF NotebookTypeOK, history, Messages, Ends
  <1>4. PipeAgrees' /\ LineAgrees'
    BY <1>0, <1>1, <1>2 DEF PipeAgrees, LineAgrees, history
  <1>5. ShownAgrees'
    BY <1>0, <1>1 DEF ShownAgrees, Served
  <1>6. NumbersAgree' /\ LeftAgrees'
    BY <1>0, <1>1, <1>2 DEF NumbersAgree, LeftAgrees, history, Alive
  <1>7. KernelAgrees'
    BY <1>1, <1>2, Wires DEF KernelAgrees
  <1>8. NumbersAreOfThisKernel' /\ NumberedAreRemembered' /\ ResetForgets'
    BY <1>0, <1>1, <1>2 DEF NumbersAreOfThisKernel, NumberedAreRemembered, ResetForgets, history
  <1> QED BY <1>3, <1>4, <1>5, <1>6, <1>7, <1>8 DEF NotebookInv

\* What the worker has told reaches the page.
LEMMA ReceiveStep ==
    ASSUME NotebookInv, Receive
    PROVE  NotebookInv'
  <1>0. /\ NotebookTypeOK /\ PipeAgrees /\ LineAgrees /\ ShownAgrees /\ NumbersAgree /\ KernelAgrees
        /\ LeftAgrees /\ NumbersAreOfThisKernel /\ NumberedAreRemembered /\ ResetForgets
    BY DEF NotebookInv
  <1>1. /\ wire # <<>> /\ result = "none" /\ (queue # <<>> => run # "none")
        /\ UNCHANGED <<kind, look, count, queue, cancel, counter, lastGeneration, left, history>>
    BY DEF Receive, Settled
  <1>2. Alive /\ ~(left /\ ~behind) /\ UNCHANGED <<left, behind, since, asked, ranIn>>
    BY <1>0, <1>1 DEF PipeAgrees, LeftAgrees, history
  <1>3. CASE worker = "broken"
    <2>1. /\ wire = <<"boot-error">> /\ Head(wire) = "boot-error"
      BY <1>0, <1>3, Wires DEF PipeAgrees
    <2>2. /\ run' = "none" /\ result' = (IF run # "none" THEN "error" ELSE "none")
          /\ worker' = "error" /\ job' = "none" /\ wire' = <<>> /\ kernel' = {} /\ generation' = generation
      BY <1>1, <2>1 DEF Receive, Finish, Kill
    <2>3. ~Alive'
      BY <2>2 DEF Alive
    <2>4. NotebookTypeOK'
      BY <1>0, <1>1, <1>2, <2>2, WiresType DEF NotebookTypeOK, Messages, Ends
    <2>5. PipeAgrees' /\ LineAgrees'
      BY <1>0, <1>1, <1>2, <2>2, <2>3 DEF PipeAgrees, LineAgrees
    <2>6. ShownAgrees'
      BY <1>0, <1>1, <2>2 DEF ShownAgrees, Served
    <2>7. NumbersAgree' /\ LeftAgrees' /\ KernelAgrees'
      BY <1>0, <1>1, <1>2, <1>3, <2>2, <2>3, Wires DEF NumbersAgree, LeftAgrees, KernelAgrees
    <2>8. NumbersAreOfThisKernel' /\ NumberedAreRemembered' /\ ResetForgets'
      BY <1>0, <1>1, <1>2, <2>2, <2>3 DEF NumbersAreOfThisKernel, NumberedAreRemembered, ResetForgets
    <2> QED BY <2>4, <2>5, <2>6, <2>7, <2>8 DEF NotebookInv
  <1>4. CASE worker = "up"
    <2>1. \/ /\ run = "sent" /\ wire = <<"exec">> /\ job \in {"exec", "loop"}
             /\ Head(wire) = "exec" /\ Tail(wire) = <<>>
          \/ /\ run = "sent" /\ wire = <<"exec", "input">> /\ job = "asleep"
             /\ Head(wire) = "exec" /\ Tail(wire) = <<"input">>
          \/ /\ run = "exec" /\ wire = <<"input">> /\ job = "asleep"
             /\ Head(wire) = "input" /\ Tail(wire) = <<>>
          \/ /\ run = "sent" /\ wire = <<"exec", "ok">> /\ job = "none"
             /\ Head(wire) = "exec" /\ Tail(wire) = <<"ok">>
          \/ /\ run = "sent" /\ wire = <<"exec", "error">> /\ job = "none"
             /\ Head(wire) = "exec" /\ Tail(wire) = <<"error">>
          \/ /\ run \in {"sent", "exec"} /\ wire = <<"error">> /\ job = "none"
             /\ Head(wire) = "error" /\ Tail(wire) = <<>>
          \/ /\ run = "exec" /\ wire = <<"ok">> /\ job = "none"
             /\ Head(wire) = "ok" /\ Tail(wire) = <<>>
      <3>1. /\ Head(<<"exec">>) = "exec" /\ Tail(<<"exec">>) = <<>>
            /\ Head(<<"input">>) = "input" /\ Tail(<<"input">>) = <<>>
            /\ Head(<<"ok">>) = "ok" /\ Tail(<<"ok">>) = <<>>
            /\ Head(<<"error">>) = "error" /\ Tail(<<"error">>) = <<>>
        BY Wires
      <3>2. /\ Head(<<"exec", "input">>) = "exec" /\ Tail(<<"exec", "input">>) = <<"input">>
            /\ Head(<<"exec", "ok">>) = "exec" /\ Tail(<<"exec", "ok">>) = <<"ok">>
            /\ Head(<<"exec", "error">>) = "exec" /\ Tail(<<"exec", "error">>) = <<"error">>
        BY Wires
      <3>3. \/ job \in {"exec", "loop"} /\ run = "sent" /\ wire = <<"exec">>
            \/ job = "asleep" /\ run = "sent" /\ wire = <<"exec", "input">>
            \/ job = "asleep" /\ run = "exec" /\ wire = <<"input">>
            \/ job = "none" /\ run = "sent" /\ wire \in {<<"exec", "ok">>, <<"exec", "error">>, <<"error">>}
            \/ job = "none" /\ run = "exec" /\ wire \in {<<"ok">>, <<"error">>}
        BY <1>0, <1>1, <1>4 DEF PipeAgrees
      <3> QED BY <3>1, <3>2, <3>3, Zenon
    <2>2. /\ UNCHANGED <<worker, generation, job, kernel>> /\ wire' = Tail(wire)
          /\ \/ /\ Head(wire) \in {"exec", "input"} /\ run' = Head(wire) /\ result' = "none"
             \/ /\ Head(wire) \in {"ok", "error"} /\ run' = "none" /\ result' = Head(wire)
      BY <1>1, <2>1 DEF Receive, Finish
    <2>3. Alive' /\ run # "none"
      BY <1>4, <2>1, <2>2 DEF Alive
    <2>4. wire' \in Seq(Messages) /\ run' \in {"none", "exec", "input"} /\ result' \in {"none", "ok", "error"}
      BY <2>1, <2>2, WiresType DEF Messages
    <2>5. NotebookTypeOK'
      BY <1>0, <1>1, <1>2, <2>2, <2>4 DEF NotebookTypeOK, Messages, Ends
    <2>6. PipeAgrees'
      <3>1. worker' = "up"
        BY <1>4, <2>2
      <3> QED BY <2>1, <2>2, <2>3, <3>1 DEF PipeAgrees
    <2>7. LineAgrees' /\ ShownAgrees'
      BY <1>0, <1>1, <1>2, <2>2, <2>3, <2>4 DEF LineAgrees, ShownAgrees, Served
    <2>8. NumbersAgree' /\ LeftAgrees'
      <3>1. generation # 0
        BY <1>0, <1>4 DEF NumbersAgree
      <3>2. NumbersAgree'
        BY <1>0, <1>1, <1>2, <2>2, <3>1 DEF NumbersAgree
      <3>3. LeftAgrees'
        BY <1>1, <1>2 DEF LeftAgrees
      <3> QED BY <3>2, <3>3
    <2>9. KernelAgrees'
      <3>1. CASE wire = <<"exec", "ok">> \/ wire = <<"ok">>
        BY <1>0, <1>1, <2>2, <3>1 DEF KernelAgrees
      <3>2. CASE Tail(wire) # <<"ok">> /\ Head(wire) # "ok"
        BY <2>1, <2>2, <3>2, Wires DEF KernelAgrees
      <3>3. Tail(wire) = <<"ok">> \/ Head(wire) = "ok" => wire = <<"exec", "ok">> \/ wire = <<"ok">>
        BY <2>1, Wires
      <3> QED BY <3>1, <3>2, <3>3
    <2>10. NumbersAreOfThisKernel' /\ NumberedAreRemembered' /\ ResetForgets'
      BY <1>0, <1>1, <1>2, <2>2 DEF NumbersAreOfThisKernel, NumberedAreRemembered, ResetForgets
    <2> QED BY <2>5, <2>6, <2>7, <2>8, <2>9, <2>10 DEF NotebookInv
  <1>5. worker # "booting"
    BY <1>0, <1>1 DEF PipeAgrees
  <1> QED BY <1>2, <1>3, <1>4, <1>5 DEF Alive

-----------------------------------------------------------------------------
(* The page's own steps *)

\* When a run has ended, the numbers left standing are those of the kernel it
\* ran in, and the counter is past them.
LEMMA Renumbering ==
    ASSUME NotebookInv, result # "none", NEW keep
    PROVE  /\ Renumbered(keep) \in [Cells -> Nat]
           /\ \A d \in Cells : Renumbered(keep)[d] \in {0, count[d]}
           /\ keep \in Cells => Renumbered(keep)[keep] = count[keep]
           /\ \A d \in Cells : d # keep /\ Renumbered(keep)[d] # 0 =>
                 /\ ~Restarted /\ generation = lastGeneration
                 /\ Renumbered(keep)[d] = count[d] /\ count[d] <= counter
           /\ generation # 0
  <1>0. NotebookTypeOK /\ NumbersAgree /\ ShownAgrees
    BY DEF NotebookInv
  <1>1. count \in [Cells -> Nat] /\ counter \in Nat /\ generation # 0
    BY <1>0 DEF NotebookTypeOK, NumbersAgree
  <1>2. CASE Restarted
    BY <1>1, <1>2 DEF Renumbered
  <1>3. CASE ~Restarted
    <2>1. Renumbered(keep) = count
      BY <1>3 DEF Renumbered
    <2>2. ASSUME NEW d \in Cells, count[d] # 0
          PROVE  generation = lastGeneration /\ count[d] <= counter
      BY <1>0, <1>3, <2>2 DEF NumbersAgree, Restarted
    <2> QED BY <1>1, <1>3, <2>1, <2>2
  <1> QED BY <1>2, <1>3

\* What is left in the line, once its head is done with.
LEMMA LineGoesOn ==
    ASSUME NotebookInv, queue # <<>>
    PROVE  /\ Head(queue) = queue[1] /\ queue[1].who \in Askers /\ Len(queue) \in Nat \ {0}
           /\ Tail(queue) \in Seq([who: Askers, token: Nat]) /\ Len(Tail(queue)) = Len(queue) - 1
           /\ \A i \in 1..(Len(queue) - 1) : Tail(queue)[i] = queue[i + 1]
           /\ \A i \in 1..Len(Tail(queue)) :
                 /\ Tail(queue)[i].token \in Nat /\ Tail(queue)[i].token <= cancel
                 /\ Tail(queue)[i].who \in Cells => kind[Tail(queue)[i].who] # "unused"
           /\ queue[1].who \in Cells => kind[queue[1].who] # "unused"
  <1>0. NotebookTypeOK /\ LineAgrees
    BY DEF NotebookInv
  <1> DEFINE S == [who: Askers, token: Nat]
  <1>1. queue \in Seq(S)
    BY <1>0 DEF NotebookTypeOK
  <1>2. /\ Head(queue) = queue[1] /\ queue[1] \in S /\ Len(queue) \in Nat \ {0}
        /\ Tail(queue) \in Seq(S) /\ Len(Tail(queue)) = Len(queue) - 1
        /\ \A i \in 1..(Len(queue) - 1) : Tail(queue)[i] = queue[i + 1]
    BY <1>1, HeadAndTail
  <1>5. \A j \in 1..Len(queue) : queue[j] \in S
    <2> HIDE DEF S
    <2> QED BY <1>1, ElementOfSeq
  <1>3. ASSUME NEW i \in 1..Len(Tail(queue))
        PROVE  /\ Tail(queue)[i].token \in Nat /\ Tail(queue)[i].token <= cancel
               /\ Tail(queue)[i].who \in Cells => kind[Tail(queue)[i].who] # "unused"
    <2>1. i + 1 \in 1..Len(queue) /\ Tail(queue)[i] = queue[i + 1]
      BY <1>2
    <2>2. queue[i + 1] \in S
      BY <1>5, <2>1
    <2> QED BY <1>0, <2>1, <2>2 DEF LineAgrees
  <1>4. 1 \in 1..Len(queue)
    BY <1>2
  <1> QED BY <1>0, <1>2, <1>3, <1>4 DEF LineAgrees

LEMMA TailIsShorter ==
    ASSUME NotebookInv, queue # <<>>
    PROVE  queue # Tail(queue)
  <1> SUFFICES ASSUME queue = Tail(queue)  PROVE FALSE
    OBVIOUS
  <1>1. Len(queue) = Len(Tail(queue))
    BY Zenon
  <1>2. Len(queue) \in Nat \ {0} /\ Len(Tail(queue)) = Len(queue) - 1
    BY LineGoesOn
  <1> QED BY <1>1, <1>2

\* The continuation of a cell's run.
LEMMA ContinueCellStep ==
    ASSUME NotebookInv, Continue, Head(queue).who \in Cells
    PROVE  NotebookInv'
  <1>0. /\ NotebookTypeOK /\ PipeAgrees /\ LineAgrees /\ ShownAgrees /\ NumbersAgree /\ KernelAgrees
        /\ LeftAgrees /\ NumbersAreOfThisKernel /\ NumberedAreRemembered /\ ResetForgets
    BY DEF NotebookInv
  <1> DEFINE c == Head(queue).who
             broken == result \in {"timedOut", "stopped"}
             number == (IF Restarted THEN 0 ELSE counter) + 1
             old == Renumbered(c)
             seen == kind[c] \in {"code", "text"}
             ended == IF seen THEN [look EXCEPT ![c] = Shown(result)] ELSE look
  <1>1. /\ result # "none" /\ run = "none" /\ queue # <<>> /\ c \in Cells
        /\ count' = IF seen THEN [old EXCEPT ![c] = number] ELSE old
        /\ ranIn' = [d \in Cells |-> IF count'[d] = 0 THEN 0 ELSE IF d = c THEN generation ELSE ranIn[d]]
        /\ look' = IF broken THEN Unqueued(ended) ELSE ended
        /\ cancel' = IF broken THEN cancel + 1 ELSE cancel
        /\ counter' = IF broken THEN 0 ELSE number
        /\ lastGeneration' = generation /\ queue' = Tail(queue) /\ result' = "none"
        /\ UNCHANGED <<kind, run, workerVars, left, asked, since, behind>>
    BY <1>0 DEF Continue, ContinueCell, LineAgrees
  <1>2. UNCHANGED <<kind, run, worker, generation, job, wire, kernel, left, asked, since, behind>>
    BY <1>1 DEF workerVars
  <1>3. /\ old \in [Cells -> Nat] /\ old[c] = count[c] /\ generation # 0
        /\ \A d \in Cells : old[d] \in {0, count[d]}
        /\ \A d \in Cells \ {c} : old[d] # 0 =>
              ~Restarted /\ generation = lastGeneration /\ old[d] = count[d] /\ count[d] <= counter
    BY <1>1, Renumbering
  <1>4. counter \in Nat /\ number \in Nat /\ number # 0 /\ (~Restarted => number = counter + 1)
    BY <1>0 DEF NotebookTypeOK
  <1>5. /\ look \in [Cells -> {"idle", "queued", "running", "ok", "error"}]
        /\ count \in [Cells -> Nat] /\ cancel \in Nat /\ generation \in Nat
    BY <1>0 DEF NotebookTypeOK
  <1>6. Shown(result) \in {"ok", "error"} /\ (Shown(result) = "ok" => result = "ok")
    BY DEF Shown
  <1> HIDE DEF old, number, c
  <1>7. /\ count' \in [Cells -> Nat]
        /\ \A d \in Cells \ {c} : count'[d] = old[d]
        /\ seen => count'[c] = number
        /\ ~seen => count'[c] = count[c] /\ kind[c] = "gone" /\ count[c] = 0 /\ look[c] = "idle"
    <2>1. kind[c] # "unused"
      BY <1>1, LineGoesOn DEF c
    <2>2. ~seen => kind[c] = "gone"
      BY <1>0, <1>1, <2>1 DEF NotebookTypeOK
    <2>3. ~seen => count[c] = 0 /\ look[c] = "idle"
      BY <1>0, <1>1, <2>2 DEF ShownAgrees
    <2> QED BY <1>1, <1>3, <1>4, <2>2, <2>3
  <1>8. /\ ended \in [Cells -> {"idle", "queued", "running", "ok", "error"}]
        /\ \A d \in Cells \ {c} : ended[d] = look[d]
        /\ ended[c] \notin {"queued", "running"}
        /\ seen => ended[c] = Shown(result)
    BY <1>1, <1>5, <1>6, <1>7
  <1> HIDE DEF ended
  <1>9. /\ look' \in [Cells -> {"idle", "queued", "running", "ok", "error"}]
        /\ \A d \in Cells : look'[d] = ended[d] \/ (look'[d] = "idle" /\ ended[d] = "queued" /\ broken)
        /\ broken => \A d \in Cells : look'[d] # "queued"
    BY <1>1, <1>8 DEF Unqueued
  <1>10. NotebookTypeOK'
    <2>1. ranIn' \in [Cells -> Nat]
      BY <1>0, <1>1, <1>5 DEF NotebookTypeOK
    <2>2. queue' \in Seq([who: Askers, token: Nat])
      BY <1>1, LineGoesOn
    <2>3. {cancel', counter', lastGeneration', generation', asked'} \subseteq Nat
      BY <1>0, <1>1, <1>2, <1>4, <1>5 DEF NotebookTypeOK
    <2> QED BY <1>0, <1>1, <1>2, <1>7, <1>9, <2>1, <2>2, <2>3 DEF NotebookTypeOK
  <1>11. PipeAgrees' /\ KernelAgrees' /\ ResetForgets'
    <2>1. PipeAgrees' /\ ResetForgets'
      BY <1>0, <1>2 DEF PipeAgrees, ResetForgets, Alive
    <2>2. wire \in {<<>>, <<"boot-error">>}
      BY <1>0, <1>1 DEF PipeAgrees, Alive
    <2> QED BY <1>1, <1>2, <2>1, <2>2, Wires DEF KernelAgrees
  <1>12. LineAgrees'
    <2>1. \A i \in 1..Len(queue') :
             queue'[i].token <= cancel' /\ (queue'[i].who \in Cells => kind'[queue'[i].who] # "unused")
      BY <1>1, <1>2, <1>5, LineGoesOn
    <2> QED BY <1>1, <1>2, <2>1 DEF LineAgrees
  <1>13. ShownAgrees'
    <2> SUFFICES ASSUME NEW d \in Cells
                 PROVE  /\ kind[d] \in {"unused", "gone"} => look'[d] = "idle" /\ count'[d] = 0
                        /\ look'[d] \in {"queued", "running"} => kind[d] = "code"
                        /\ look'[d] # "running"
                        /\ look'[d] = "queued" =>
                              \E i \in 1..Len(queue') : queue'[i] = [who |-> d, token |-> cancel']
      BY <1>1, <1>2 DEF ShownAgrees, Served
    <2>1. /\ kind[d] \in {"unused", "gone"} => look[d] = "idle" /\ count[d] = 0
          /\ look[d] \in {"queued", "running"} => kind[d] = "code"
          /\ look[d] = "running" => d = c
          /\ look[d] = "queued" =>
                \E i \in 1..Len(queue) : queue[i] = [who |-> d, token |-> cancel] /\ i # 1
      BY <1>0, <1>1 DEF ShownAgrees, Served, c
    <2>2. kind[d] \in {"unused", "gone"} => look'[d] = "idle" /\ count'[d] = 0
      <3>1. CASE d = c
        BY <1>7, <1>8, <1>9, <2>1, <3>1 DEF ended
      <3>2. CASE d # c
        BY <1>3, <1>7, <1>8, <1>9, <2>1, <3>2
      <3> QED BY <3>1, <3>2
    <2>3. /\ look'[d] \in {"queued", "running"} => d # c /\ look[d] = look'[d]
          /\ look'[d] = "queued" => ~broken
      BY <1>8, <1>9
    <2>4. ASSUME look'[d] = "queued"
          PROVE  \E i \in 1..Len(queue') : queue'[i] = [who |-> d, token |-> cancel']
      <3>1. PICK i \in 1..Len(queue) : queue[i] = [who |-> d, token |-> cancel] /\ i # 1
        BY <2>1, <2>3, <2>4
      <3>2. i - 1 \in 1..(Len(queue) - 1) /\ (i - 1) + 1 = i /\ Len(queue') = Len(queue) - 1
        BY <1>1, <3>1, LineGoesOn
      <3>3. queue'[i - 1] = queue[i]
        BY <1>1, <3>2, LineGoesOn
      <3> QED BY <1>1, <2>3, <2>4, <3>1, <3>2, <3>3
    <2> QED BY <2>1, <2>2, <2>3, <2>4
  <1>14. NumbersAgree'
    <2>1. ~broken => \A d \in Cells : count'[d] <= counter'
      BY <1>1, <1>3, <1>4, <1>5, <1>7
    <2>2. broken => ~Alive'
      BY <1>0, <1>1, <1>2 DEF LineAgrees, Alive
    <2> QED BY <1>1, <1>2, <1>3, <1>5, <2>1, <2>2 DEF NumbersAgree
  <1>15. LeftAgrees'
    <2> SUFFICES ASSUME left, ~behind
                 PROVE  ~Alive' /\ \A i \in 1..Len(queue') : Skips(queue[i])'
      BY <1>1, <1>2 DEF LeftAgrees
    <2>1. ~Alive /\ result = "stopped" /\ \A i \in 2..Len(queue) : queue[i].who \in Cells
      BY <1>0, <1>1 DEF LeftAgrees
    <2>2. ~Alive' /\ cancel' = cancel + 1
      BY <1>1, <1>2, <2>1 DEF Alive
    <2>3. ASSUME NEW i \in 1..Len(queue')
          PROVE  queue'[i].who \in Cells /\ queue'[i].token # cancel'
      <3>1. i + 1 \in 2..Len(queue) /\ queue'[i] = queue[i + 1]
        BY <1>1, LineGoesOn
      <3>2. queue'[i].token \in Nat /\ queue'[i].token <= cancel
        BY <1>1, LineGoesOn
      <3> QED BY <1>5, <2>1, <2>2, <3>1, <3>2
    <2> QED BY <2>2, <2>3 DEF Skips
  <1>16. NumbersAreOfThisKernel'
    <2> SUFFICES ASSUME NEW d \in Cells, count'[d] # 0
                 PROVE  ranIn'[d] = generation /\ \A e \in Cells \ {d} : count'[e] # count'[d]
      BY <1>1 DEF NumbersAreOfThisKernel
    <2>1. ASSUME NEW e \in Cells \ {c}, count'[e] # 0
          PROVE  /\ ranIn'[e] = generation /\ count'[e] = count[e] /\ count[e] # 0
                 /\ seen => count'[e] # count'[c]
      BY <1>0, <1>1, <1>3, <1>4, <1>5, <1>7, <2>1 DEF NumbersAreOfThisKernel
    <2>2. ranIn'[d] = generation
      BY <1>1, <2>1
    <2>3. ASSUME NEW e \in Cells \ {d}, count'[e] = count'[d]  PROVE FALSE
      BY <1>0, <1>7, <2>1, <2>3 DEF NumbersAreOfThisKernel
    <2> QED BY <2>2, <2>3
  <1>17. NumberedAreRemembered'
    <2> SUFFICES ASSUME NEW d \in Cells, count'[d] # 0, look'[d] = "ok", Alive
                 PROVE  d \in kernel
      BY <1>1, <1>2 DEF NumberedAreRemembered, Alive
    <2>1. ended[d] = "ok"
      BY <1>9
    <2>2. CASE d = c
      <3>1. result = "ok"
        BY <1>6, <1>7, <1>8, <2>1, <2>2
      <3> QED BY <1>0, <1>1, <2>2, <3>1 DEF KernelAgrees, c
    <2>3. CASE d # c
      BY <1>0, <1>3, <1>7, <1>8, <2>1, <2>3 DEF NumberedAreRemembered
    <2> QED BY <2>2, <2>3
  <1> QED BY <1>10, <1>11, <1>12, <1>13, <1>14, <1>15, <1>16, <1>17 DEF NotebookInv

\* The continuation of a problem's run, which no break cancels.
LEMMA ContinueProblemStep ==
    ASSUME NotebookInv, Continue, Head(queue).who \notin Cells
    PROVE  NotebookInv'
  <1>0. /\ NotebookTypeOK /\ PipeAgrees /\ LineAgrees /\ ShownAgrees /\ NumbersAgree /\ KernelAgrees
        /\ LeftAgrees /\ NumbersAreOfThisKernel /\ NumberedAreRemembered /\ ResetForgets
    BY DEF NotebookInv
  <1> DEFINE old == Renumbered(Nobody)
  <1>1. /\ result # "none" /\ run = "none" /\ queue # <<>> /\ queue[1].who \notin Cells
        /\ count' = old /\ counter' = (IF Restarted THEN 0 ELSE counter)
        /\ ranIn' = [d \in Cells |-> IF count'[d] = 0 THEN 0 ELSE ranIn[d]]
        /\ lastGeneration' = generation /\ queue' = Tail(queue) /\ result' = "none"
        /\ UNCHANGED <<kind, run, look, cancel, left, asked, since, behind>>
        /\ UNCHANGED <<worker, generation, job, wire, kernel>>
    <2>1. /\ result # "none" /\ run = "none" /\ queue # <<>>
      BY <1>0 DEF Continue, LineAgrees
    <2>2. Head(queue) = queue[1]
      BY <2>1, LineGoesOn
    <2> QED BY <2>1, <2>2 DEF Continue, ContinueProblem, workerVars
  <1>2. /\ old \in [Cells -> Nat] /\ generation # 0
        /\ \A d \in Cells : old[d] \in {0, count[d]}
        /\ \A d \in Cells : old[d] # 0 =>
              ~Restarted /\ generation = lastGeneration /\ old[d] = count[d] /\ count[d] <= counter
    BY <1>1, Renumbering, NotebookAssumption
  <1> HIDE DEF old
  <1>3. /\ count \in [Cells -> Nat] /\ counter \in Nat /\ generation \in Nat
    BY <1>0 DEF NotebookTypeOK
  <1>4. NotebookTypeOK'
    <2>1. ranIn' \in [Cells -> Nat]
      BY <1>0, <1>1 DEF NotebookTypeOK
    <2>2. queue' \in Seq([who: Askers, token: Nat])
      BY <1>1, LineGoesOn
    <2> QED BY <1>0, <1>1, <1>2, <1>3, <2>1, <2>2 DEF NotebookTypeOK
  <1>5. PipeAgrees' /\ KernelAgrees' /\ ResetForgets'
    <2>1. PipeAgrees' /\ ResetForgets'
      BY <1>0, <1>1 DEF PipeAgrees, ResetForgets, Alive
    <2>2. wire \in {<<>>, <<"boot-error">>}
      BY <1>0, <1>1 DEF PipeAgrees, Alive
    <2> QED BY <1>1, <2>1, <2>2, Wires DEF KernelAgrees
  <1>6. LineAgrees'
    <2>1. \A i \in 1..Len(queue') :
             queue'[i].token <= cancel' /\ (queue'[i].who \in Cells => kind'[queue'[i].who] # "unused")
      BY <1>1, LineGoesOn
    <2> QED BY <1>1, <2>1 DEF LineAgrees
  <1>7. ShownAgrees'
    <2> SUFFICES ASSUME NEW d \in Cells
                 PROVE  /\ kind[d] \in {"unused", "gone"} => look[d] = "idle" /\ count'[d] = 0
                        /\ look[d] \in {"queued", "running"} => kind[d] = "code"
                        /\ look[d] # "running"
                        /\ look[d] = "queued" =>
                              \E i \in 1..Len(queue') : queue'[i] = [who |-> d, token |-> cancel]
      BY <1>1 DEF ShownAgrees, Served
    <2>1. /\ kind[d] \in {"unused", "gone"} => look[d] = "idle" /\ count[d] = 0
          /\ look[d] \in {"queued", "running"} => kind[d] = "code"
          /\ look[d] # "running"
          /\ look[d] = "queued" =>
                \E i \in 1..Len(queue) : queue[i] = [who |-> d, token |-> cancel] /\ i # 1
      BY <1>0, <1>1, LineGoesOn DEF ShownAgrees, Served
    <2>2. ASSUME look[d] = "queued"
          PROVE  \E i \in 1..Len(queue') : queue'[i] = [who |-> d, token |-> cancel]
      <3>1. PICK i \in 1..Len(queue) : queue[i] = [who |-> d, token |-> cancel] /\ i # 1
        BY <2>1, <2>2
      <3>2. i - 1 \in 1..(Len(queue) - 1) /\ (i - 1) + 1 = i /\ Len(queue') = Len(queue) - 1
        BY <1>1, <3>1, LineGoesOn
      <3>3. queue'[i - 1] = queue[i]
        BY <1>1, <3>2, LineGoesOn
      <3> QED BY <3>1, <3>2, <3>3
    <2> QED BY <1>1, <1>2, <2>1, <2>2
  <1>8. NumbersAgree'
    <2>1. \A d \in Cells : count'[d] <= counter'
      BY <1>1, <1>2, <1>3
    <2> QED BY <1>1, <1>2, <1>3, <2>1 DEF NumbersAgree
  <1>9. LeftAgrees'
    <2>1. ASSUME left, ~behind
          PROVE  ~Alive /\ Len(queue') = 0
      <3>1. ~Alive /\ \A i \in 2..Len(queue) : queue[1].who \in Cells
        BY <1>0, <1>1, <2>1 DEF LeftAgrees
      <3>2. 2 \notin 2..Len(queue)
        BY <1>1, <3>1
      <3>3. Len(queue) \in Nat \ {0} /\ Len(queue') = Len(queue) - 1
        BY <1>1, LineGoesOn
      <3>4. Len(queue) = 1
        BY <3>2, <3>3
      <3> QED BY <3>1, <3>3, <3>4
    <2>2. Len(queue') = 0 => 1..Len(queue') = {}
      OBVIOUS
    <2>3. left' = left /\ behind' = behind /\ (Alive' <=> Alive) /\ result' = "none"
      BY <1>1 DEF Alive
    <2> QED BY <2>1, <2>2, <2>3 DEF LeftAgrees
  <1>10. NumbersAreOfThisKernel' /\ NumberedAreRemembered'
    BY <1>0, <1>1, <1>2, <1>3 DEF NumbersAreOfThisKernel, NumberedAreRemembered, Alive
  <1> QED BY <1>4, <1>5, <1>6, <1>7, <1>8, <1>9, <1>10 DEF NotebookInv

\* The head of the line is passed over.
LEMMA SkipStep ==
    ASSUME NotebookInv, Begin, queue' = Tail(queue), Skips(Head(queue)), UNCHANGED <<look, run, workerVars, since>>
    PROVE  NotebookInv'
  <1>0. /\ NotebookTypeOK /\ PipeAgrees /\ LineAgrees /\ ShownAgrees /\ NumbersAgree /\ KernelAgrees
        /\ LeftAgrees /\ NumbersAreOfThisKernel /\ NumberedAreRemembered /\ ResetForgets
    BY DEF NotebookInv
  <1>1. /\ result = "none" /\ run = "none" /\ queue # <<>> /\ Skips(queue[1]) /\ queue' = Tail(queue)
        /\ UNCHANGED <<kind, count, cancel, counter, lastGeneration, result, left, asked, ranIn, behind>>
        /\ UNCHANGED <<look, run, worker, generation, job, wire, kernel, since>>
    <2>1. queue # <<>>
      BY DEF Begin
    <2>2. Head(queue) = queue[1]
      BY <2>1, LineGoesOn
    <2> QED BY <2>1, <2>2 DEF Begin, workerVars
  <1>2. NotebookTypeOK'
    <2>1. queue' \in Seq([who: Askers, token: Nat])
      BY <1>1, LineGoesOn
    <2> QED BY <1>0, <1>1, <2>1 DEF NotebookTypeOK
  <1>3. PipeAgrees' /\ NumbersAgree' /\ NumbersAreOfThisKernel' /\ NumberedAreRemembered' /\ ResetForgets'
    BY <1>0, <1>1 DEF PipeAgrees, NumbersAgree, NumbersAreOfThisKernel, NumberedAreRemembered,
                      ResetForgets, Alive
  <1>4. KernelAgrees'
    <2>1. wire \in {<<>>, <<"boot-error">>}
      BY <1>0, <1>1 DEF PipeAgrees, Alive
    <2> QED BY <1>1, <2>1, Wires DEF KernelAgrees
  <1>5. LineAgrees'
    <2>1. \A i \in 1..Len(queue') :
             queue'[i].token <= cancel' /\ (queue'[i].who \in Cells => kind'[queue'[i].who] # "unused")
      BY <1>1, LineGoesOn
    <2> QED BY <1>1, <2>1 DEF LineAgrees
  <1>6. ShownAgrees'
    <2> SUFFICES ASSUME NEW d \in Cells
                 PROVE  /\ kind[d] \in {"unused", "gone"} => look[d] = "idle" /\ count[d] = 0
                        /\ look[d] \in {"queued", "running"} => kind[d] = "code"
                        /\ look[d] # "running"
                        /\ look[d] = "queued" =>
                              \E i \in 1..Len(queue') : queue'[i] = [who |-> d, token |-> cancel]
      BY <1>1 DEF ShownAgrees, Served
    <2>1. /\ kind[d] \in {"unused", "gone"} => look[d] = "idle" /\ count[d] = 0
          /\ look[d] \in {"queued", "running"} => kind[d] = "code"
          /\ look[d] # "running"
          /\ look[d] = "queued" =>
                \E i \in 1..Len(queue) : queue[i] = [who |-> d, token |-> cancel]
      BY <1>0, <1>1 DEF ShownAgrees, Served
    <2>2. ASSUME look[d] = "queued"
          PROVE  \E i \in 1..Len(queue') : queue'[i] = [who |-> d, token |-> cancel]
      <3>1. PICK i \in 1..Len(queue) : queue[i] = [who |-> d, token |-> cancel]
        BY <2>1, <2>2
      <3>2. i # 1
        BY <1>1, <2>1, <2>2, <3>1 DEF Skips
      <3>3. i - 1 \in 1..(Len(queue) - 1) /\ (i - 1) + 1 = i /\ Len(queue') = Len(queue) - 1
        BY <1>1, <3>1, <3>2, LineGoesOn
      <3>4. queue'[i - 1] = queue[i]
        BY <1>1, <3>3, LineGoesOn
      <3> QED BY <3>1, <3>3, <3>4
    <2> QED BY <2>1, <2>2
  <1>7. LeftAgrees'
    <2> SUFFICES ASSUME left, ~behind
                 PROVE  ~Alive' /\ \A i \in 1..Len(queue') : Skips(queue[i])'
      BY <1>1 DEF LeftAgrees
    <2>1. ~Alive' /\ \A i \in 1..Len(queue) : Skips(queue[i])
      BY <1>0, <1>1 DEF LeftAgrees, Alive
    <2>2. ASSUME NEW i \in 1..Len(queue')
          PROVE  queue'[i].who \in Cells /\ (queue'[i].token # cancel' \/ kind'[queue'[i].who] # "code")
      <3>1. i + 1 \in 1..Len(queue) /\ queue'[i] = queue[i + 1]
        BY <1>1, LineGoesOn
      <3> QED BY <1>1, <2>1, <3>1 DEF Skips
    <2> QED BY <2>1, <2>2 DEF Skips
  <1> QED BY <1>2, <1>3, <1>4, <1>5, <1>6, <1>7 DEF NotebookInv

\* The head of the line is run, in a new worker if there is none.
LEMMA StartStep ==
    ASSUME NotebookInv, Begin, UNCHANGED queue
    PROVE  NotebookInv'
  <1>0. /\ NotebookTypeOK /\ PipeAgrees /\ LineAgrees /\ ShownAgrees /\ NumbersAgree /\ KernelAgrees
        /\ LeftAgrees /\ NumbersAreOfThisKernel /\ NumberedAreRemembered /\ ResetForgets
    BY DEF NotebookInv
  <1> DEFINE w == Head(queue).who
  <1>1. /\ result = "none" /\ run = "none" /\ queue # <<>> /\ ~Skips(queue[1])
        /\ w \in Askers /\ w = queue[1].who /\ 1 \in 1..Len(queue)
        /\ look' = IF w \in Cells THEN [look EXCEPT ![w] = "running"] ELSE look
        /\ run' = "sent" /\ since' = since \cup {w} /\ job' = "posted"
        /\ UNCHANGED <<kind, count, cancel, counter, lastGeneration, result, left, asked, ranIn, behind, queue>>
    <2>1. queue # <<>>
      BY DEF Begin
    <2>2. /\ Head(queue) = queue[1] /\ queue[1].who \in Askers /\ 1 \in 1..Len(queue)
          /\ queue # Tail(queue)
      <3>1. Head(queue) = queue[1] /\ queue[1].who \in Askers /\ Len(queue) \in Nat \ {0}
        BY <2>1, LineGoesOn
      <3>2. queue # Tail(queue)
        BY <2>1, TailIsShorter
      <3>3. 1 \in 1..Len(queue)
        BY <3>1
      <3> QED BY <3>1, <3>2, <3>3
    <2>3. /\ result = "none" /\ run = "none" /\ ~Skips(Head(queue))
          /\ look' = IF w \in Cells THEN [look EXCEPT ![w] = "running"] ELSE look
          /\ run' = "sent" /\ since' = since \cup {w} /\ job' = "posted"
          /\ UNCHANGED <<kind, count, cancel, counter, lastGeneration, result, left, asked, ranIn, behind, queue>>
      BY <2>2 DEF Begin, Spawn
    <2> QED BY <2>1, <2>2, <2>3
  <1>2. \/ Alive /\ UNCHANGED <<worker, generation, wire, kernel>>
        \/ /\ ~Alive /\ worker' = "booting" /\ generation' = generation + 1 /\ wire' = <<>> /\ kernel' = {}
    <2>1. queue # Tail(queue)
      BY <1>1, TailIsShorter
    <2> QED BY <2>1 DEF Begin, Spawn
  <1>3. Alive' /\ wire \in {<<>>, <<"boot-error">>} /\ wire' \in {<<>>, <<"boot-error">>}
    BY <1>0, <1>1, <1>2 DEF Alive, PipeAgrees
  <1>4. ~(left /\ ~behind)
    BY <1>0, <1>1 DEF LeftAgrees
  <1>5. w \in Cells => kind[w] = "code"
    BY <1>1 DEF Skips
  <1>6. generation \in Nat /\ lastGeneration \in Nat /\ generation' \in Nat /\ lastGeneration <= generation
    BY <1>0, <1>2 DEF NotebookTypeOK, NumbersAgree
  <1> HIDE DEF w
  <1>7. NotebookTypeOK'
    <2>1. look' \in [Cells -> {"idle", "queued", "running", "ok", "error"}]
      BY <1>0, <1>1 DEF NotebookTypeOK
    <2>2. wire' \in Seq(Messages)
      BY <1>3, WiresType DEF Messages
    <2>3. kernel' \subseteq Askers /\ since' \subseteq Askers
          /\ worker' \in {"none", "error", "booting", "up", "broken"}
      BY <1>0, <1>1, <1>2 DEF NotebookTypeOK
    <2> QED BY <1>0, <1>1, <1>6, <2>1, <2>2, <2>3 DEF NotebookTypeOK, Messages
  <1>8. PipeAgrees'
    BY <1>0, <1>1, <1>2, <1>3 DEF PipeAgrees, Alive
  <1>9. LineAgrees'
    BY <1>0, <1>1 DEF LineAgrees, w
  <1>10. ShownAgrees'
    <2> SUFFICES ASSUME NEW d \in Cells
                 PROVE  /\ kind[d] \in {"unused", "gone"} => look'[d] = "idle" /\ count[d] = 0
                        /\ look'[d] \in {"queued", "running"} => kind[d] = "code"
                        /\ look'[d] = "running" => d = w
                        /\ look'[d] = "queued" =>
                              \E i \in 1..Len(queue) : queue[i] = [who |-> d, token |-> cancel] /\ i # 1
      BY <1>1 DEF ShownAgrees, Served, w
    <2>1. /\ kind[d] \in {"unused", "gone"} => look[d] = "idle" /\ count[d] = 0
          /\ look[d] \in {"queued", "running"} => kind[d] = "code"
          /\ look[d] # "running"
          /\ look[d] = "queued" =>
                \E i \in 1..Len(queue) : queue[i] = [who |-> d, token |-> cancel]
      BY <1>0, <1>1 DEF ShownAgrees, Served
    <2>2. CASE d = w
      <3>1. look'[d] = "running"
        BY <1>0, <1>1, <2>2 DEF NotebookTypeOK
      <3> QED BY <1>5, <2>2, <3>1
    <2>3. CASE d # w
      <3>1. look'[d] = look[d]
        BY <1>0, <1>1, <2>3 DEF NotebookTypeOK
      <3>2. \A i \in 1..Len(queue) : queue[i] = [who |-> d, token |-> cancel] => i # 1
        BY <1>1, <2>3
      <3> QED BY <2>1, <3>1, <3>2
    <2> QED BY <2>2, <2>3
  <1>11. NumbersAgree'
    <2>1. generation' # 0
      BY <1>0, <1>2, <1>6 DEF NumbersAgree, Alive
    <2> QED BY <1>0, <1>1, <1>2, <1>3, <1>6, <2>1 DEF NumbersAgree
  <1>12. KernelAgrees' /\ LeftAgrees'
    BY <1>1, <1>3, <1>4, Wires DEF KernelAgrees, LeftAgrees
  <1>13. NumbersAreOfThisKernel' /\ ResetForgets'
    BY <1>0, <1>1, <1>2 DEF NumbersAreOfThisKernel, ResetForgets
  <1>14. NumberedAreRemembered'
    <2> SUFFICES ASSUME NEW d \in Cells, count[d] # 0, look'[d] = "ok", generation' = lastGeneration
                 PROVE  d \in kernel'
      BY <1>1 DEF NumberedAreRemembered
    <2>1. look[d] = "ok"
      BY <1>0, <1>1 DEF NotebookTypeOK
    <2> QED BY <1>0, <1>2, <1>6, <2>1 DEF NumberedAreRemembered
  <1> QED BY <1>7, <1>8, <1>9, <1>10, <1>11, <1>12, <1>13, <1>14 DEF NotebookInv

LEMMA BeginStep ==
    ASSUME NotebookInv, Begin
    PROVE  NotebookInv'
  <1>1. \/ queue' = Tail(queue) /\ Skips(Head(queue)) /\ UNCHANGED <<look, run, workerVars, since>>
        \/ UNCHANGED queue
    BY DEF Begin
  <1> QED BY <1>1, SkipStep, StartStep

-----------------------------------------------------------------------------
(* The student's steps *)

\* A run joins the line at its end.
LEMMA JoinStep ==
    ASSUME NotebookInv, Settled, ~left, NEW w \in Askers, w \in Cells => kind[w] = "code",
           Join(w), look' \in {look, [look EXCEPT ![w] = "queued"]},
           UNCHANGED <<kind, count, cancel, counter, lastGeneration, run, result, worker, generation,
                       job, wire, kernel, left, ranIn, since, behind>>
    PROVE  NotebookInv'
  <1>0. /\ NotebookTypeOK /\ PipeAgrees /\ LineAgrees /\ ShownAgrees /\ NumbersAgree /\ KernelAgrees
        /\ LeftAgrees /\ NumbersAreOfThisKernel /\ NumberedAreRemembered /\ ResetForgets
    BY DEF NotebookInv
  <1> DEFINE S == [who: Askers, token: Nat]
             e == [who |-> w, token |-> cancel]
  <1>1. queue \in Seq(S) /\ e \in S /\ cancel \in Nat
    BY <1>0 DEF NotebookTypeOK
  <1>2. queue' = Append(queue, e) /\ asked' = asked + 1
    BY DEF Join
  <1>3. /\ queue' \in Seq(S) /\ queue' # <<>> /\ Len(queue') = Len(queue) + 1 /\ Len(queue) \in Nat
        /\ queue'[Len(queue) + 1] = e
        /\ \A i \in 1..Len(queue) : queue'[i] = queue[i]
        /\ queue # <<>> => Head(queue') = Head(queue)
    <2> HIDE DEF S, e
    <2> QED BY <1>1, <1>2, Appended
  <1>4. result = "none" /\ (run # "none" <=> queue # <<>>) /\ (queue # <<>> => Len(queue) # 0)
    <2>1. result = "none" /\ (run # "none" <=> queue # <<>>)
      BY <1>0 DEF Settled, LineAgrees
    <2>2. queue # <<>> => Len(queue) # 0
      BY <1>1, HeadAndTail
    <2> QED BY <2>1, <2>2
  <1>5. /\ look' \in [Cells -> {"idle", "queued", "running", "ok", "error"}]
        /\ \A d \in Cells : look'[d] = look[d] \/ (d = w /\ look'[d] = "queued")
    BY <1>0 DEF NotebookTypeOK
  <1>6. NotebookTypeOK'
    BY <1>0, <1>2, <1>3, <1>5 DEF NotebookTypeOK
  <1>7. PipeAgrees' /\ NumbersAgree' /\ LeftAgrees' /\ NumbersAreOfThisKernel' /\ ResetForgets'
    BY <1>0 DEF PipeAgrees, NumbersAgree, LeftAgrees, NumbersAreOfThisKernel, ResetForgets, Alive
  <1>8. NumberedAreRemembered'
    BY <1>0, <1>5 DEF NumberedAreRemembered, Alive
  <1>9. KernelAgrees'
    <2>1. CASE run = "none"
      <3>1. wire \in {<<>>, <<"boot-error">>}
        BY <1>0, <2>1 DEF PipeAgrees, Alive
      <3> QED BY <1>4, <3>1, Wires DEF KernelAgrees
    <2>2. CASE run # "none"
      BY <1>0, <1>3, <1>4, <2>2 DEF KernelAgrees
    <2> QED BY <2>1, <2>2
  <1>10. LineAgrees'
    <2>1. ASSUME NEW i \in 1..Len(queue')
          PROVE  queue'[i].token <= cancel /\ (queue'[i].who \in Cells => kind[queue'[i].who] # "unused")
      <3>1. CASE i = Len(queue) + 1
        BY <1>1, <1>3, <3>1
      <3>2. CASE i \in 1..Len(queue)
        BY <1>0, <1>3, <3>2 DEF LineAgrees
      <3> QED BY <1>3, <3>1, <3>2
    <2> QED BY <1>0, <1>3, <1>4, <2>1 DEF LineAgrees
  <1>11. ShownAgrees'
    <2> SUFFICES ASSUME NEW d \in Cells
                 PROVE  /\ kind[d] \in {"unused", "gone"} => look'[d] = "idle" /\ count[d] = 0
                        /\ look'[d] \in {"queued", "running"} => kind[d] = "code"
                        /\ look'[d] = "running" => run # "none" /\ Head(queue').who = d
                        /\ look'[d] = "queued" =>
                              \E i \in 1..Len(queue') :
                                  queue'[i] = [who |-> d, token |-> cancel] /\ (run # "none" => i # 1)
      BY <1>3, <1>4 DEF ShownAgrees, Served
    <2>1. /\ kind[d] \in {"unused", "gone"} => look[d] = "idle" /\ count[d] = 0
          /\ look[d] \in {"queued", "running"} => kind[d] = "code"
          /\ look[d] = "running" => run # "none" /\ queue # <<>> /\ Head(queue).who = d
          /\ look[d] = "queued" =>
                \E i \in 1..Len(queue) :
                    queue[i] = [who |-> d, token |-> cancel] /\ (run # "none" => i # 1)
      BY <1>0, <1>4 DEF ShownAgrees, Served
    <2>2. CASE look'[d] = look[d]
      <3>1. ASSUME look[d] = "queued"
            PROVE  \E i \in 1..Len(queue') :
                       queue'[i] = [who |-> d, token |-> cancel] /\ (run # "none" => i # 1)
        <4>1. PICK i \in 1..Len(queue) :
                  queue[i] = [who |-> d, token |-> cancel] /\ (run # "none" => i # 1)
          BY <2>1, <3>1
        <4>2. i \in 1..Len(queue') /\ queue'[i] = queue[i]
          BY <1>3, <4>1
        <4> QED BY <4>1, <4>2
      <3> QED BY <1>3, <2>1, <2>2, <3>1
    <2>3. CASE d = w /\ look'[d] = "queued"
      <3>1. kind[d] = "code"
        BY <2>3
      <3>2. /\ Len(queue) + 1 \in 1..Len(queue') /\ queue'[Len(queue) + 1] = [who |-> d, token |-> cancel]
            /\ run # "none" => Len(queue) + 1 # 1
        BY <1>3, <1>4, <2>3
      <3> QED BY <2>3, <3>1, <3>2
    <2> QED BY <1>5, <2>2, <2>3
  <1> QED BY <1>6, <1>7, <1>8, <1>9, <1>10, <1>11 DEF NotebookInv

\* The student answers a cell that waits for input.
LEMMA AnswerStep ==
    ASSUME NotebookInv, AnswerInput
    PROVE  NotebookInv'
  <1>0. /\ NotebookTypeOK /\ PipeAgrees /\ LineAgrees /\ ShownAgrees /\ NumbersAgree /\ KernelAgrees
        /\ LeftAgrees /\ NumbersAreOfThisKernel /\ NumberedAreRemembered /\ ResetForgets
    BY DEF NotebookInv
  <1>1. /\ run = "input" /\ run' = "exec" /\ job' = "exec" /\ ~left
        /\ UNCHANGED <<kind, look, count, queue, cancel, counter, lastGeneration, result, worker,
                       generation, wire, kernel, left, asked, ranIn, since, behind>>
    BY DEF AnswerInput, Free, Waits, Armed, history
  <1>2. worker = "up" /\ wire = <<>> /\ Alive'
    BY <1>0, <1>1 DEF PipeAgrees, Alive
  <1>3. NotebookTypeOK' /\ PipeAgrees' /\ LineAgrees'
    BY <1>0, <1>1, <1>2 DEF NotebookTypeOK, PipeAgrees, LineAgrees, Alive
  <1>4. ShownAgrees' /\ NumbersAgree' /\ LeftAgrees'
    BY <1>0, <1>1 DEF ShownAgrees, Served, NumbersAgree, LeftAgrees, Alive
  <1>5. KernelAgrees' /\ NumbersAreOfThisKernel' /\ NumberedAreRemembered' /\ ResetForgets'
    BY <1>0, <1>1 DEF KernelAgrees, NumbersAreOfThisKernel, NumberedAreRemembered, ResetForgets, Alive
  <1> QED BY <1>3, <1>4, <1>5 DEF NotebookInv

\* The session is forgotten, and with it all numbers.
LEMMA ForgetStep ==
    ASSUME NotebookInv, Settled, ~left, ForgetSession, ClearOutputs, counter' = 0, since' = {},
           kind' \in [Cells -> {"unused", "code", "text", "gone"}],
           \A c \in Cells : kind[c] # "unused" => kind'[c] # "unused",
           UNCHANGED <<queue, cancel, lastGeneration, left, asked, behind>>
    PROVE  NotebookInv'
  <1>0. /\ NotebookTypeOK /\ PipeAgrees /\ LineAgrees /\ ShownAgrees /\ NumbersAgree /\ KernelAgrees
        /\ LeftAgrees /\ NumbersAreOfThisKernel /\ NumberedAreRemembered /\ ResetForgets
    BY DEF NotebookInv
  <1>1. /\ result = "none" /\ run' = "none" /\ kernel' = {} /\ generation' = generation
        /\ \/ /\ queue # <<>> /\ Alive /\ result' = "stopped"
              /\ worker' = "none" /\ job' = "none" /\ wire' = <<>>
           \/ queue = <<>> /\ run = "none" /\ UNCHANGED <<worker, job, wire, result>>
    <2>1. CASE queue # <<>>
      BY <1>0, <2>1 DEF Settled, ForgetSession, StopRunner, Finish, Kill, PipeAgrees
    <2>2. CASE queue = <<>>
      BY <1>0, <2>2 DEF Settled, ForgetSession, LineAgrees
    <2> QED BY <2>1, <2>2
  <1>2. /\ look' = [c \in Cells |-> "idle"]
        /\ count' = [c \in Cells |-> 0] /\ ranIn' = [c \in Cells |-> 0]
    BY DEF ClearOutputs
  <1>3. NotebookTypeOK'
    <2>1. wire' \in Seq(Messages)
      BY <1>0, <1>1, WiresType DEF NotebookTypeOK, Messages
    <2>2. look' \in [Cells -> {"idle", "queued", "running", "ok", "error"}]
          /\ count' \in [Cells -> Nat] /\ ranIn' \in [Cells -> Nat]
      BY <1>2
    <2>3. {cancel', counter', lastGeneration', generation', asked'} \subseteq Nat
      BY <1>0, <1>1 DEF NotebookTypeOK
    <2>4. /\ run' \in {"none", "sent", "exec", "input"} /\ result' \in {"none"} \cup Ends
          /\ worker' \in {"none", "error", "booting", "up", "broken"}
          /\ job' \in {"none", "posted", "exec", "loop", "asleep"}
      BY <1>0, <1>1 DEF NotebookTypeOK, Ends
    <2>5. queue' \in Seq([who: Askers, token: Nat]) /\ left' \in BOOLEAN /\ behind' \in BOOLEAN
      BY <1>0 DEF NotebookTypeOK
    <2>6. kernel' \subseteq Askers /\ since' \subseteq Askers
      BY <1>1
    <2> QED BY <2>1, <2>2, <2>3, <2>4, <2>5, <2>6 DEF NotebookTypeOK, Messages
  <1>4. PipeAgrees'
    BY <1>0, <1>1 DEF PipeAgrees, Alive
  <1>5. LineAgrees'
    <2>1. \A i \in 1..Len(queue) :
             queue[i].token <= cancel /\ (queue[i].who \in Cells => kind'[queue[i].who] # "unused")
      BY <1>0 DEF LineAgrees
    <2> QED BY <1>1, <2>1 DEF LineAgrees, Alive
  <1>6. ShownAgrees' /\ NumbersAreOfThisKernel' /\ NumberedAreRemembered' /\ ResetForgets'
    BY <1>1, <1>2 DEF ShownAgrees, NumbersAreOfThisKernel, NumberedAreRemembered, ResetForgets
  <1>7. NumbersAgree'
    BY <1>0, <1>1, <1>2 DEF NumbersAgree, Alive
  <1>8. KernelAgrees' /\ LeftAgrees'
    <2>1. wire' \in {<<>>, <<"boot-error">>} /\ result' # "ok"
      BY <1>0, <1>1 DEF PipeAgrees, Alive
    <2> QED BY <2>1, Wires DEF KernelAgrees, LeftAgrees
  <1> QED BY <1>3, <1>4, <1>5, <1>6, <1>7, <1>8 DEF NotebookInv

\* A cell comes, goes, or changes its type.
LEMMA SetKindStep ==
    ASSUME NotebookInv, NEW c \in Cells, NEW k \in {"code", "text", "gone"}, SetKind(c, k)
    PROVE  NotebookInv'
  <1>0. /\ NotebookTypeOK /\ PipeAgrees /\ LineAgrees /\ ShownAgrees /\ NumbersAgree /\ KernelAgrees
        /\ LeftAgrees /\ NumbersAreOfThisKernel /\ NumberedAreRemembered /\ ResetForgets
    BY DEF NotebookInv
  <1>1. /\ ~left
        /\ kind' = [kind EXCEPT ![c] = k]
        /\ look' = [look EXCEPT ![c] = "idle"] /\ count' = [count EXCEPT ![c] = 0]
        /\ ranIn' = [ranIn EXCEPT ![c] = 0]
        /\ UNCHANGED <<queue, cancel, counter, lastGeneration, run, result, worker, generation, job,
                       wire, kernel, left, asked, since, behind>>
    BY DEF SetKind, Free, workerVars
  <1>2. /\ kind \in [Cells -> {"unused", "code", "text", "gone"}]
        /\ look \in [Cells -> {"idle", "queued", "running", "ok", "error"}]
        /\ count \in [Cells -> Nat] /\ ranIn \in [Cells -> Nat]
    BY <1>0 DEF NotebookTypeOK
  <1>3. /\ kind'[c] = k /\ look'[c] = "idle" /\ count'[c] = 0
        /\ \A d \in Cells \ {c} :
              kind'[d] = kind[d] /\ look'[d] = look[d] /\ count'[d] = count[d] /\ ranIn'[d] = ranIn[d]
    BY <1>1, <1>2
  <1>4. NotebookTypeOK'
    <2>1. /\ kind' \in [Cells -> {"unused", "code", "text", "gone"}]
          /\ look' \in [Cells -> {"idle", "queued", "running", "ok", "error"}]
          /\ count' \in [Cells -> Nat] /\ ranIn' \in [Cells -> Nat]
      BY <1>1, <1>2
    <2> QED BY <1>0, <1>1, <2>1 DEF NotebookTypeOK
  <1>5. PipeAgrees' /\ KernelAgrees' /\ LeftAgrees' /\ ResetForgets'
    BY <1>0, <1>1 DEF PipeAgrees, KernelAgrees, LeftAgrees, ResetForgets, Alive
  <1>6. LineAgrees'
    BY <1>0, <1>1, <1>2 DEF LineAgrees, Alive
  <1>7. ShownAgrees'
    BY <1>0, <1>1, <1>3 DEF ShownAgrees, Served
  <1>8. NumbersAgree'
    <2>1. \A d \in Cells : count'[d] \in {0, count[d]}
      BY <1>3
    <2> QED BY <1>0, <1>1, <1>2, <2>1 DEF NumbersAgree, NotebookTypeOK, Alive
  <1>9. NumbersAreOfThisKernel' /\ NumberedAreRemembered'
    BY <1>0, <1>1, <1>3 DEF NumbersAreOfThisKernel, NumberedAreRemembered, Alive
  <1> QED BY <1>4, <1>5, <1>6, <1>7, <1>8, <1>9 DEF NotebookInv

LEMMA LeaveStep ==
    ASSUME NotebookInv, Leave
    PROVE  NotebookInv'
  <1>0. /\ NotebookTypeOK /\ PipeAgrees /\ LineAgrees /\ ShownAgrees /\ NumbersAgree /\ KernelAgrees
        /\ LeftAgrees /\ NumbersAreOfThisKernel /\ NumberedAreRemembered /\ ResetForgets
    BY DEF NotebookInv
  <1>1. /\ result = "none" /\ (queue # <<>> => run # "none")
        /\ run' = "none" /\ result' = (IF run # "none" THEN "stopped" ELSE "none")
        /\ worker' = "none" /\ job' = "none" /\ wire' = <<>> /\ kernel' = {}
        /\ left' = TRUE
        /\ behind' = (\E i \in 2..Len(queue) : ~(queue[1].who \in Cells /\ queue[i].who \in Cells))
        /\ UNCHANGED <<generation, kind, look, count, queue, cancel, counter, lastGeneration, asked, ranIn, since>>
    BY DEF Leave, Free, Settled, Dispose, Finish, Kill
  <1>2. ~Alive' /\ (run # "none" => Alive)
    BY <1>0, <1>1 DEF PipeAgrees, Alive
  <1>3. NotebookTypeOK'
    BY <1>0, <1>1, WiresType DEF NotebookTypeOK, Messages, Ends
  <1>4. PipeAgrees' /\ LineAgrees'
    BY <1>0, <1>1, <1>2 DEF PipeAgrees, LineAgrees
  <1>5. ShownAgrees'
    BY <1>0, <1>1 DEF ShownAgrees, Served
  <1>6. NumbersAgree'
    BY <1>0, <1>1, <1>2 DEF NumbersAgree, Alive
  <1>7. LeftAgrees'
    <2>1. result' = "none" => queue = <<>>
      BY <1>1
    <2> QED BY <1>1, <1>2, <2>1 DEF LeftAgrees
  <1>8. KernelAgrees' /\ NumbersAreOfThisKernel' /\ NumberedAreRemembered' /\ ResetForgets'
    BY <1>0, <1>1, <1>2, Wires DEF KernelAgrees, NumbersAreOfThisKernel, NumberedAreRemembered, ResetForgets
  <1> QED BY <1>3, <1>4, <1>5, <1>6, <1>7, <1>8 DEF NotebookInv

-----------------------------------------------------------------------------
(* Every step, and what follows *)

LEMMA NextNotebookInv == NotebookInv /\ [NotebookNext]_notebookVars => NotebookInv'
  <1> SUFFICES ASSUME NotebookInv, [NotebookNext]_notebookVars  PROVE NotebookInv'
    OBVIOUS
  <1>1. CASE RunSteps
    BY <1>1, ReceiveStep, BootStep, LoadStep, ExecuteStep, ContinueCellStep, ContinueProblemStep, BeginStep
       DEF RunSteps
  <1>2. CASE Warm
    BY <1>2, WarmStep
  <1>3. CASE TimeOut \/ Stop
    BY <1>3, BreakStep
  <1>4. ASSUME NEW c \in Cells, Enqueue(c)  PROVE NotebookInv'
    <2>1. /\ Settled /\ ~left /\ kind[c] = "code" /\ Join(c) /\ look' = [look EXCEPT ![c] = "queued"]
          /\ UNCHANGED <<kind, count, cancel, counter, lastGeneration, run, result, worker, generation,
                         job, wire, kernel, left, ranIn, since, behind>>
      BY <1>4 DEF Enqueue, Free, workerVars
    <2>2. c \in Askers
      BY DEF Askers
    <2> QED BY <2>1, <2>2, JoinStep
  <1>5. ASSUME NEW p \in {Problem, Grade}, RunQueued(p)  PROVE NotebookInv'
    <2>1. /\ Settled /\ ~left /\ Join(p)
          /\ UNCHANGED <<look, kind, count, cancel, counter, lastGeneration, run, result, worker, generation,
                         job, wire, kernel, left, ranIn, since, behind>>
      BY <1>5 DEF RunQueued, Free, workerVars
    <2>2. p \in Askers /\ p \notin Cells
      BY NotebookAssumption DEF Askers
    <2> QED BY <2>1, <2>2, JoinStep
  <1>6. ASSUME NEW c \in Cells, Replace(c)  PROVE NotebookInv'
    <2>1. kind' \in [Cells -> {"unused", "code", "text", "gone"}]
      BY <1>6 DEF Replace
    <2>2. \A d \in Cells : kind[d] # "unused" => kind'[d] # "unused"
      BY <1>6 DEF Replace
    <2> QED BY <1>6, <2>1, <2>2, ForgetStep DEF Replace, Free
  <1>7. ASSUME NEW c \in Cells, Insert(c) \/ ChangeType(c) \/ Remove(c)  PROVE NotebookInv'
    BY <1>7, SetKindStep DEF Insert, ChangeType, Remove
  <1>8. CASE AnswerInput
    BY <1>8, AnswerStep
  <1>9. CASE ResetKernel
    <2>1. kind' = kind /\ kind \in [Cells -> {"unused", "code", "text", "gone"}]
      BY <1>9 DEF ResetKernel, NotebookInv, NotebookTypeOK
    <2> QED BY <1>9, <2>1, ForgetStep DEF ResetKernel, Free
  <1>10. CASE Leave
    BY <1>10, LeaveStep
  <1>11. CASE UNCHANGED notebookVars
    <2>1. /\ UNCHANGED <<kind, look, count, queue, cancel, counter, lastGeneration, run, result>>
          /\ UNCHANGED <<worker, generation, job, wire, kernel, left, asked, ranIn, since, behind>>
      BY <1>11 DEF notebookVars, pageVars, workerVars, history
    <2>2. NotebookTypeOK' /\ PipeAgrees' /\ LineAgrees' /\ ShownAgrees'
      BY <2>1 DEF NotebookInv, NotebookTypeOK, PipeAgrees, LineAgrees, ShownAgrees, Served, Alive
    <2>3. /\ NumbersAgree' /\ KernelAgrees' /\ LeftAgrees'
          /\ NumbersAreOfThisKernel' /\ NumberedAreRemembered' /\ ResetForgets'
      BY <2>1 DEF NotebookInv, NumbersAgree, KernelAgrees, LeftAgrees, Skips, Alive, NumbersAreOfThisKernel,
                  NumberedAreRemembered, ResetForgets
    <2> QED BY <2>2, <2>3 DEF NotebookInv
  <1> QED
    BY <1>1, <1>2, <1>3, <1>4, <1>5, <1>6, <1>7, <1>8, <1>9, <1>10, <1>11 DEF NotebookNext, CellSteps

\* The notebook keeps its inductive invariant, whatever the student, the
\* worker and the timer do (useNotebook.ts, pythonRunner.ts, pythonWorker.ts).
THEOREM NotebookInvariance == NotebookSpec => []NotebookInv
  <1> QED BY InitNotebookInv, NextNotebookInv, PTL DEF NotebookSpec

\* No cell is shown as running that is not being run, none as queued that the
\* line will not reach (useNotebook.ts: execute, enqueue).
THEOREM NoCellIsStuck == NotebookSpec => []NothingIsStuck
  <1>1. NotebookInv => NothingIsStuck
    <2> SUFFICES ASSUME NotebookInv  PROVE NothingIsStuck
      OBVIOUS
    <2>1. DOMAIN queue = 1..Len(queue)
      BY DEF NotebookInv, NotebookTypeOK
    <2> QED BY <2>1 DEF NotebookInv, ShownAgrees, Served, NothingIsStuck
  <1> QED BY <1>1, NotebookInvariance, PTL

\* A number beside a cell was earned in the kernel the page last saw, and no
\* other cell shows it (useNotebook.ts: noteGeneration).
THEOREM NumbersTellTheKernel == NotebookSpec => []NumbersAreOfThisKernel
  <1>1. NotebookInv => NumbersAreOfThisKernel
    BY DEF NotebookInv
  <1> QED BY <1>1, NotebookInvariance, PTL

\* What a cell that shows a number and no error defined is still in the kernel
\* (useNotebook.ts: execute; pythonWorker.ts: run).
THEOREM TheKernelRemembers == NotebookSpec => []NumberedAreRemembered
  <1>1. NotebookInv => NumberedAreRemembered
    BY DEF NotebookInv
  <1> QED BY <1>1, NotebookInvariance, PTL

\* After a reset the kernel holds nothing of what began before it
\* (useNotebook.ts: resetKernel; pythonRunner.ts: reset).
THEOREM AResetForgets == NotebookSpec => []ResetForgets
  <1>1. NotebookInv => ResetForgets
    BY DEF NotebookInv
  <1> QED BY <1>1, NotebookInvariance, PTL

\* A screen left with nothing but cells in its line leaves no worker behind
\* (pythonRunner.ts: dispose).
THEOREM LeavingEndsTheWorker == NotebookSpec => []LeavesNoWorker
  <1>1. NotebookInv => LeavesNoWorker
    BY DEF NotebookInv, LeftAgrees, LeavesNoWorker
  <1> QED BY <1>1, NotebookInvariance, PTL
-----------------------------------------------------------------------------
(* The line as SerialRuns has it: numbers in place of a sequence *)

\* A worker that is gone has taken its definitions along.
GoneForgets == ~Alive => kernel = {}

LEMMA WaitingIs ==
    ASSUME NotebookInv
    PROVE  /\ Len(queue) \in Nat /\ asked \in Nat /\ DOMAIN queue = 1..Len(queue)
           /\ Waiting = [n \in DOMAIN Waiting |-> Waiting[n]]
           /\ DOMAIN Waiting \subseteq Int
           /\ \A n \in Int :
                 /\ n \in DOMAIN Waiting <=>
                       /\ n - FirstNumber \in 1..Len(queue)
                       /\ Live(queue[n - FirstNumber])
                       /\ Served => n - FirstNumber # 1
                 /\ n \in DOMAIN Waiting => Waiting[n] = queue[n - FirstNumber].who
  <1>1. Len(queue) \in Nat /\ asked \in Nat /\ DOMAIN queue = 1..Len(queue)
    BY DEF NotebookInv, NotebookTypeOK
  <1>2. FirstNumber \in Int /\ InLine \subseteq Int
    BY <1>1 DEF FirstNumber, InLine
  <1>3. DOMAIN Waiting = {FirstNumber + i : i \in InLine}
    BY DEF Waiting
  <1>4. \A n \in Int : n \in DOMAIN Waiting <=> n - FirstNumber \in InLine
    BY <1>2, <1>3
  <1>5. DOMAIN Waiting \subseteq Int
    BY <1>2, <1>3
  <1>6. \A n \in DOMAIN Waiting : Waiting[n] = queue[n - FirstNumber].who
    BY <1>3 DEF Waiting
  <1>7. Waiting = [n \in DOMAIN Waiting |-> Waiting[n]]
    BY <1>3, <1>6 DEF Waiting
  <1> QED BY <1>1, <1>4, <1>5, <1>6, <1>7 DEF InLine

\* Steps that leave the line alone
LEMMA SameLine ==
    ASSUME UNCHANGED <<queue, asked, cancel>>, Served' <=> Served
    PROVE  UNCHANGED <<asked, Waiting, Active>>
  <1>1. InLine' = InLine /\ FirstNumber' = FirstNumber
    BY DEF InLine, FirstNumber, Live
  <1> QED BY <1>1 DEF Waiting, Active

\* The head of the line leaves it: who is behind keeps the number drawn.
LEMMA HeadLeaves ==
    ASSUME NotebookInv, queue # <<>>, queue' = Tail(queue), asked' = asked, ~Served'
    PROVE  /\ Waiting' = [n \in DOMAIN Waiting' |-> Waiting'[n]]
           /\ DOMAIN Waiting' \subseteq Int /\ FirstNumber \in Int
           /\ \A n \in Int :
                 LET e == queue[n - FirstNumber]
                 IN  /\ n \in DOMAIN Waiting' <=>
                           n - FirstNumber \in 2..Len(queue) /\ (e.who \notin Cells \/ e.token = cancel')
                     /\ n \in DOMAIN Waiting' => Waiting'[n] = e.who
  <1>1. /\ Len(queue) \in Nat \ {0} /\ Len(queue') = Len(queue) - 1 /\ asked \in Nat
        /\ \A i \in 1..(Len(queue) - 1) : queue'[i] = queue[i + 1]
        /\ DOMAIN queue' = 1..Len(queue')
    BY LineGoesOn DEF NotebookInv, NotebookTypeOK
  <1>2. FirstNumber' = FirstNumber + 1 /\ FirstNumber \in Int
    BY <1>1 DEF FirstNumber
  <1>3. InLine' = {i \in 1..(Len(queue) - 1) :
                      queue[i + 1].who \notin Cells \/ queue[i + 1].token = cancel'}
    BY <1>1 DEF InLine, Live
  <1>4. DOMAIN Waiting' = {FirstNumber' + i : i \in InLine'}
    BY DEF Waiting
  <1>5. InLine' \subseteq Int
    BY <1>1, <1>3
  <1>6. \A n \in Int : n \in DOMAIN Waiting' <=> n - FirstNumber - 1 \in InLine'
    BY <1>2, <1>4, <1>5
  <1>7. \A n \in DOMAIN Waiting' : Waiting'[n] = queue'[n - FirstNumber'].who
    BY <1>4 DEF Waiting
  <1>8. DOMAIN Waiting' \subseteq Int
    BY <1>2, <1>4, <1>5
  <1>9. Waiting' = [n \in DOMAIN Waiting' |-> Waiting'[n]]
    BY <1>4, <1>7 DEF Waiting
  <1>10. ASSUME NEW n \in Int
         PROVE  LET e == queue[n - FirstNumber]
                IN  /\ n \in DOMAIN Waiting' <=>
                          n - FirstNumber \in 2..Len(queue) /\ (e.who \notin Cells \/ e.token = cancel')
                    /\ n \in DOMAIN Waiting' => Waiting'[n] = e.who
    <2> DEFINE i == n - FirstNumber - 1
    <2>1. i \in Int /\ i + 1 = n - FirstNumber /\ n - FirstNumber' = i
      BY <1>2
    <2>2. n \in DOMAIN Waiting' <=>
             i \in 1..(Len(queue) - 1) /\ (queue[i + 1].who \notin Cells \/ queue[i + 1].token = cancel')
      BY <1>3, <1>6
    <2>3. i \in 1..(Len(queue) - 1) <=> i + 1 \in 2..Len(queue)
      BY <1>1, <2>1
    <2>4. n \in DOMAIN Waiting' => Waiting'[n] = queue[i + 1].who
      BY <1>1, <1>7, <2>1, <2>2
    <2> QED BY <2>1, <2>2, <2>3, <2>4
  <1> QED BY <1>2, <1>8, <1>9, <1>10

LEMMA GoneForgetsNext ==
    ASSUME NotebookInv, GoneForgets, [NotebookNext]_notebookVars
    PROVE  GoneForgets'
  <1>1. ASSUME kernel' = {}  PROVE GoneForgets'
    BY <1>1 DEF GoneForgets
  <1>2. ASSUME UNCHANGED <<worker, kernel>>  PROVE GoneForgets'
    BY <1>2 DEF GoneForgets, Alive
  <1>3. ASSUME Alive'  PROVE GoneForgets'
    BY <1>3 DEF GoneForgets
  <1>4. CASE RunSteps
    <2>1. CASE Boot \/ Load \/ Execute
      BY <1>3, <2>1 DEF Boot, Load, Execute, Alive
    <2>2. CASE Receive
      BY <1>1, <1>2, <2>2 DEF Receive, Kill
    <2>3. CASE Continue
      BY <1>2, <2>3 DEF Continue, workerVars
    <2>4. CASE Begin
      BY <1>1, <1>2, <2>4 DEF Begin, workerVars, Spawn
    <2> QED BY <1>4, <2>1, <2>2, <2>3, <2>4 DEF RunSteps
  <1>5. CASE Warm \/ TimeOut \/ Leave
    BY <1>1, <1>5 DEF Warm, Spawn, TimeOut, Leave, Dispose, Kill
  <1>6. CASE Stop
    BY <1>1, <1>2, <1>6 DEF Stop, StopRunner, Kill, workerVars
  <1>7. CASE ResetKernel \/ \E c \in Cells : Replace(c)
    BY <1>1, <1>2, <1>7 DEF ResetKernel, Replace, ForgetSession, StopRunner, Kill, workerVars
  <1>8. CASE \/ AnswerInput \/ RunQueued(Problem) \/ RunQueued(Grade)
             \/ \E c \in Cells : Enqueue(c) \/ Insert(c) \/ ChangeType(c) \/ Remove(c)
    BY <1>2, <1>8 DEF AnswerInput, RunQueued, Enqueue, Insert, ChangeType, Remove, SetKind, workerVars
  <1>9. CASE UNCHANGED notebookVars
    BY <1>2, <1>9 DEF notebookVars, workerVars
  <1> QED BY <1>4, <1>5, <1>6, <1>7, <1>8, <1>9 DEF NotebookNext, CellSteps

\* Whatever ends a pending run leaves it served until its continuation.
LEMMA FinishServes == ASSUME NEW r \in Ends, Finish(r)  PROVE Served' <=> Served
  BY DEF Finish, Served, Ends

LEMMA JoinAsks ==
    ASSUME NotebookInv, NEW who \in Askers, Join(who), UNCHANGED <<cancel, run, result, kernel>>
    PROVE  Serial!Ask(who)
  <1>1. /\ queue \in Seq([who: Askers, token: Nat]) /\ cancel \in Nat /\ asked \in Nat
        /\ asked' = asked + 1 /\ queue' = Append(queue, [who |-> who, token |-> cancel])
    BY DEF NotebookInv, NotebookTypeOK, Join
  <1> DEFINE e == [who |-> who, token |-> cancel]
             L == Len(queue)
  <1>2. e \in [who: Askers, token: Nat]
    BY <1>1
  <1>3. /\ DOMAIN queue' = 1..(L + 1) /\ L \in Nat /\ queue'[L + 1] = e /\ Len(queue') = L + 1
        /\ \A i \in 1..L : queue'[i] = queue[i]
        /\ DOMAIN queue = 1..L /\ (queue = <<>> <=> L = 0)
    <2> HIDE DEF e
    <2> QED BY <1>1, <1>2, Appended DEF e
  <1>4. Served' <=> Served
    BY DEF Served
  <1>5. Served => queue # <<>>
    BY DEF NotebookInv, LineAgrees, Served
  <1>6. FirstNumber' = FirstNumber /\ FirstNumber + L + 1 = asked + 1 /\ FirstNumber \in Int
    BY <1>1, <1>3 DEF FirstNumber
  <1>7. InLine' = InLine \cup {L + 1}
    <2>1. \A i \in 1..L : i \in InLine' <=> i \in InLine
      BY <1>3, <1>4 DEF InLine, Live
    <2>2. L + 1 \in InLine'
      BY <1>1, <1>3, <1>4, <1>5 DEF InLine, Live
    <2>3. InLine \subseteq 1..L /\ InLine' \subseteq 1..(L + 1)
      BY <1>3 DEF InLine
    <2>4. \A i \in 1..(L + 1) : i \in 1..L \/ i = L + 1
      BY <1>3
    <2>5. \A i : i \in InLine' <=> i \in InLine \/ i = L + 1
      BY <2>1, <2>2, <2>3, <2>4
    <2> QED BY <2>5
  <1>8. InLine \subseteq 1..L
    BY <1>3 DEF InLine
  <1>9. /\ DOMAIN Waiting' = {FirstNumber + i : i \in InLine'}
        /\ DOMAIN Waiting = {FirstNumber + i : i \in InLine}
        /\ \A n \in DOMAIN Waiting' : Waiting'[n] = queue'[n - FirstNumber].who
        /\ \A n \in DOMAIN Waiting : Waiting[n] = queue[n - FirstNumber].who
    BY <1>6 DEF Waiting
  <1>10. DOMAIN Waiting' = DOMAIN Waiting \cup {asked + 1}
    BY <1>3, <1>6, <1>7, <1>8, <1>9
  <1>11. \A n \in DOMAIN Waiting' : Waiting'[n] = IF n = asked + 1 THEN who ELSE Waiting[n]
    <2> TAKE n \in DOMAIN Waiting'
    <2>1. CASE n = asked + 1
      <3>1. n - FirstNumber = L + 1
        BY <1>1, <1>3, <1>6, <2>1
      <3> QED BY <1>3, <1>9, <2>1, <3>1
    <2>2. CASE n # asked + 1
      <3>1. n \in DOMAIN Waiting
        BY <1>10, <2>2
      <3>2. n - FirstNumber \in 1..L
        BY <1>3, <1>6, <1>8, <1>9, <3>1
      <3> QED BY <1>3, <1>9, <2>2, <3>1, <3>2
    <2> QED BY <2>1, <2>2
  <1>12. Waiting' = [n \in DOMAIN Waiting \cup {asked + 1} |->
                        IF n = asked + 1 THEN who ELSE Waiting[n]]
    <2>1. Waiting' = [n \in DOMAIN Waiting' |-> Waiting'[n]]
      BY <1>9 DEF Waiting
    <2> QED BY <1>10, <1>11, <2>1
  <1>13. Active' = Active
    <2>1. CASE ~Served
      BY <1>4, <2>1 DEF Active
    <2>2. CASE Served
      <3>1. Head(queue') = Head(queue)
        BY <1>1, <1>2, <1>5, <2>2, Appended
      <3> QED BY <1>4, <2>2, <3>1 DEF Active
    <2> QED BY <2>1, <2>2
  <1> QED BY <1>1, <1>12, <1>13 DEF Serial!Ask

\* A run that breaks off takes along the cells behind it, any other end does not.
LEMMA ContinueEnds ==
    ASSUME NotebookInv, Continue
    PROVE  Serial!End \/ Serial!BreakOff
  <1>1. /\ result # "none" /\ result' = "none" /\ queue' = Tail(queue) /\ run' = run
        /\ kernel' = kernel /\ asked' = asked
    BY DEF Continue, workerVars
  <1>2. queue # <<>> /\ run = "none" /\ cancel \in Nat
    BY <1>1 DEF NotebookInv, LineAgrees, NotebookTypeOK
  <1>3. Served /\ ~Served'
    BY <1>1, <1>2 DEF Served
  <1>4. Head(queue) = queue[1] /\ Head(queue).who \in Askers /\ Nobody \notin Askers
    BY <1>2, LineGoesOn, NotebookAssumption DEF Askers
  <1>5. Active = Head(queue).who /\ Active # Nobody /\ Active' = Nobody
    BY <1>3, <1>4 DEF Active
  <1>6. /\ Waiting' = [n \in DOMAIN Waiting' |-> Waiting'[n]]
        /\ DOMAIN Waiting' \subseteq Int /\ FirstNumber \in Int
        /\ \A n \in Int :
              LET e == queue[n - FirstNumber]
              IN  /\ n \in DOMAIN Waiting' <=>
                        n - FirstNumber \in 2..Len(queue) /\ (e.who \notin Cells \/ e.token = cancel')
                  /\ n \in DOMAIN Waiting' => Waiting'[n] = e.who
    BY <1>1, <1>2, <1>3, HeadLeaves
  <1>7. /\ Waiting = [n \in DOMAIN Waiting |-> Waiting[n]] /\ DOMAIN Waiting \subseteq Int
        /\ Len(queue) \in Nat
        /\ \A n \in Int :
              LET e == queue[n - FirstNumber]
              IN  /\ n \in DOMAIN Waiting <=>
                        n - FirstNumber \in 2..Len(queue) /\ (e.who \notin Cells \/ e.token = cancel)
                  /\ n \in DOMAIN Waiting => Waiting[n] = e.who
    <2>1. \A i \in Int : i \in 1..Len(queue) /\ i # 1 <=> i \in 2..Len(queue)
      BY WaitingIs
    <2> QED BY <1>3, <1>6, <2>1, WaitingIs DEF Live
  <1>8. CASE cancel' = cancel
    <2>1. DOMAIN Waiting' = DOMAIN Waiting
      BY <1>6, <1>7, <1>8
    <2>2. \A n \in DOMAIN Waiting : Waiting'[n] = Waiting[n]
      BY <1>6, <1>7, <2>1
    <2>3. Waiting' = Waiting
      BY <1>6, <1>7, <2>1, <2>2
    <2> QED BY <1>1, <1>5, <2>3 DEF Serial!End
  <1>9. CASE cancel' = cancel + 1 /\ Head(queue).who \in Cells
    <2> DEFINE gone == {n \in DOMAIN Waiting : Waiting[n] \in Cells}
    <2>1. \A i \in 1..Len(queue) : queue[i].token \in Nat /\ queue[i].token <= cancel
      <3>1. \A i \in 1..Len(queue) : queue[i].token <= cancel
        BY DEF NotebookInv, LineAgrees
      <3>2. queue \in Seq([who: Askers, token: Nat])
        BY DEF NotebookInv, NotebookTypeOK
      <3>3. \A i \in 1..Len(queue) : queue[i] \in [who: Askers, token: Nat]
        BY <3>2, ElementOfSeq
      <3> QED BY <3>1, <3>3
    <2>2. \A i \in 2..Len(queue) : queue[i].token # cancel'
      BY <1>2, <1>7, <1>9, <2>1
    <2>3. DOMAIN Waiting' = DOMAIN Waiting \ gone
      BY <1>6, <1>7, <2>2
    <2>4. \A n \in DOMAIN Waiting' : Waiting'[n] = Waiting[n]
      BY <1>6, <1>7, <2>3
    <2>5. Waiting' = [n \in DOMAIN Waiting \ gone |-> Waiting[n]]
      BY <1>6, <2>3, <2>4
    <2> QED BY <1>1, <1>5, <1>9, <2>5 DEF Serial!BreakOff, Serial!Without
  <1>10. cancel' = cancel \/ (cancel' = cancel + 1 /\ Head(queue).who \in Cells)
    BY DEF Continue, ContinueCell, ContinueProblem
  <1> QED BY <1>8, <1>9, <1>10

\* The head of the line is passed over, starts, or has left the line before.
LEMMA BeginServes ==
    ASSUME NotebookInv, GoneForgets, Begin
    PROVE  \/ \E n \in DOMAIN Waiting : Serial!Start(n) \/ Serial!PassOver(n)
           \/ UNCHANGED <<asked, Waiting, Active, kernel>>
  <1>1. /\ result = "none" /\ run = "none" /\ queue # <<>> /\ result' = "none"
        /\ cancel' = cancel /\ asked' = asked /\ ~Served
    BY DEF Begin, Served
  <1> DEFINE h == Head(queue)
             first == FirstNumber + 1
  <1>2. h = queue[1] /\ Len(queue) \in Nat \ {0} /\ h.who \in Askers
    BY <1>1, LineGoesOn
  <1>3. /\ Waiting = [n \in DOMAIN Waiting |-> Waiting[n]] /\ DOMAIN Waiting \subseteq Int
        /\ \A n \in Int :
              LET e == queue[n - FirstNumber]
              IN  /\ n \in DOMAIN Waiting <=>
                        n - FirstNumber \in 1..Len(queue) /\ (e.who \notin Cells \/ e.token = cancel)
                  /\ n \in DOMAIN Waiting => Waiting[n] = e.who
    BY <1>1, WaitingIs DEF Live
  <1>4. FirstNumber \in Int /\ asked \in Nat
    BY <1>2, WaitingIs DEF FirstNumber
  <1>5. /\ first \in Int /\ first - FirstNumber = 1
        /\ \A n \in DOMAIN Waiting : first <= n
        /\ first \in DOMAIN Waiting <=> Live(h)
        /\ first \in DOMAIN Waiting => Waiting[first] = h.who /\ Serial!IsNext(first)
    <2>1. first \in Int /\ first - FirstNumber = 1 /\ 1 \in 1..Len(queue)
      BY <1>2, <1>4
    <2>2. \A n \in DOMAIN Waiting : first <= n
      BY <1>2, <1>3, <1>4
    <2>3. /\ first \in DOMAIN Waiting <=> Live(h)
          /\ first \in DOMAIN Waiting => Waiting[first] = h.who
      BY <1>2, <1>3, <2>1 DEF Live
    <2> QED BY <2>1, <2>2, <2>3 DEF Serial!IsNext
  <1>6. CASE Skips(h) /\ queue' = Tail(queue) /\ UNCHANGED <<run, workerVars>>
    <2>1. ~Served' /\ kernel' = kernel
      BY <1>1, <1>6 DEF Served, workerVars
    <2>2. Active = Nobody /\ Active' = Nobody
      BY <1>1, <2>1 DEF Active
    <2>3. /\ Waiting' = [n \in DOMAIN Waiting' |-> Waiting'[n]]
          /\ DOMAIN Waiting' \subseteq Int
          /\ \A n \in Int :
                LET e == queue[n - FirstNumber]
                IN  /\ n \in DOMAIN Waiting' <=>
                          n - FirstNumber \in 2..Len(queue) /\ (e.who \notin Cells \/ e.token = cancel)
                    /\ n \in DOMAIN Waiting' => Waiting'[n] = e.who
      BY <1>1, <1>6, <2>1, HeadLeaves
    <2>4. DOMAIN Waiting' = DOMAIN Waiting \ {first}
      <3>1. \A n \in Int : n - FirstNumber \in 2..Len(queue) <=>
                              n - FirstNumber \in 1..Len(queue) /\ n # first
        BY <1>2, <1>4
      <3>2. \A n \in Int : n \in DOMAIN Waiting' <=> n \in DOMAIN Waiting /\ n # first
        BY <1>3, <2>3, <3>1
      <3> QED BY <1>3, <2>3, <3>2
    <2>5. \A n \in DOMAIN Waiting' : Waiting'[n] = Waiting[n]
      BY <1>3, <2>3, <2>4
    <2>6. Waiting' = [n \in DOMAIN Waiting \ {first} |-> Waiting[n]]
      BY <2>3, <2>4, <2>5
    <2>7. CASE Live(h)
      <3>1. h.who \in Cells
        BY <1>6 DEF Skips
      <3> QED BY <1>1, <1>5, <2>1, <2>2, <2>6, <2>7, <3>1 DEF Serial!PassOver, Serial!Without
    <2>8. CASE ~Live(h)
      <3>1. DOMAIN Waiting \ {first} = DOMAIN Waiting
        BY <1>5, <2>8
      <3>2. Waiting' = Waiting
        BY <1>3, <2>6, <3>1
      <3> QED BY <1>1, <2>1, <2>2, <3>2
    <2> QED BY <2>7, <2>8
  <1>7. CASE ~Skips(h) /\ queue' = queue /\ run' = "sent" /\ kernel' \in {kernel, {}} /\ (Alive => kernel' = kernel)
    <2>1. Live(h) /\ Served' /\ kernel' = kernel
      BY <1>7 DEF Skips, Live, Served, GoneForgets
    <2>2. Active = Nobody /\ Active' = h.who
      BY <1>1, <1>7, <2>1 DEF Active
    <2>3. InLine' = InLine \ {1}
      BY <1>1, <1>7, <2>1 DEF InLine, Live
    <2>4. FirstNumber' = FirstNumber
      BY <1>1, <1>7 DEF FirstNumber
    <2>5. InLine \subseteq Int
      BY <1>2 , WaitingIs DEF InLine
    <2>6. /\ DOMAIN Waiting' = {FirstNumber + i : i \in InLine'}
          /\ DOMAIN Waiting = {FirstNumber + i : i \in InLine}
          /\ \A n \in DOMAIN Waiting' : Waiting'[n] = queue[n - FirstNumber].who
          /\ \A n \in DOMAIN Waiting : Waiting[n] = queue[n - FirstNumber].who
          /\ Waiting' = [n \in DOMAIN Waiting' |-> Waiting'[n]]
      BY <1>7, <2>4 DEF Waiting
    <2>7. DOMAIN Waiting' = DOMAIN Waiting \ {first}
      BY <1>4, <2>3, <2>5, <2>6
    <2>8. Waiting' = [n \in DOMAIN Waiting \ {first} |-> Waiting[n]]
      BY <2>6, <2>7
    <2> QED BY <1>1, <1>5, <2>1, <2>2, <2>8 DEF Serial!Start, Serial!Without
  <1>8. \/ Skips(h) /\ queue' = Tail(queue) /\ UNCHANGED <<run, workerVars>>
        \/ ~Skips(h) /\ queue' = queue /\ run' = "sent" /\ kernel' \in {kernel, {}} /\ (Alive => kernel' = kernel)
    BY DEF Begin, Spawn
  <1> QED BY <1>6, <1>7, <1>8

\* Every step of the notebook is a step of its line or leaves it alone.
LEMMA StepsServe ==
    ASSUME NotebookInv, GoneForgets, [NotebookNext]_notebookVars
    PROVE  [Serial!SerialNext]_(Serial!serialVars)
  <1>1. ASSUME UNCHANGED <<queue, asked, cancel>>, Served' <=> Served, kernel' = {} \/ kernel' = kernel
        PROVE  Serial!Forget \/ UNCHANGED <<asked, Waiting, Active, kernel>>
    BY <1>1, SameLine DEF Serial!Forget
  <1>2. CASE Warm
    BY <1>1, <1>2 DEF Warm, Spawn, pageVars, history, Served, Serial!SerialNext, Serial!serialVars
  <1>3. CASE TimeOut \/ Stop \/ Leave \/ Receive
    <2>1. (Served' <=> Served) /\ (kernel' = {} \/ kernel' = kernel) /\ UNCHANGED <<queue, asked, cancel>>
      <3>1. CASE TimeOut
        BY <3>1, FinishServes DEF TimeOut, Kill, Ends, history
      <3>2. CASE Stop
        BY <3>2, FinishServes DEF Stop, StopRunner, Kill, Ends, history, workerVars
      <3>3. CASE Leave
        BY <3>3, FinishServes DEF Leave, Dispose, Kill, Ends
      <3>4. CASE Receive
        <4>1. UNCHANGED <<queue, asked, cancel>> /\ wire # <<>>
          BY <3>4 DEF Receive, history
        <4>2. CASE Head(wire) = "boot-error"
          BY <3>4, <4>1, <4>2, FinishServes DEF Receive, Kill, Ends
        <4>3. CASE Head(wire) \in {"exec", "input"}
          <5>1. run' # "none" /\ kernel' = kernel
            BY <3>4, <4>3 DEF Receive
          <5>2. run # "none"
            BY <4>1, <4>3, Wires DEF NotebookInv, NotebookTypeOK, PipeAgrees, Alive
          <5> QED BY <4>1, <5>1, <5>2 DEF Served
        <4>4. CASE Head(wire) \in {"ok", "error"}
          BY <3>4, <4>1, <4>4, FinishServes DEF Receive, Ends
        <4>5. Head(wire) \in {"boot-error", "exec", "input", "ok", "error"}
          BY <4>1 DEF NotebookInv, NotebookTypeOK
        <4> QED BY <4>2, <4>3, <4>4, <4>5
      <3> QED BY <1>3, <3>1, <3>2, <3>3, <3>4
    <2> QED BY <1>1, <2>1 DEF Serial!SerialNext, Serial!serialVars
  <1>4. CASE Boot \/ Load \/ AnswerInput
    BY <1>1, <1>4 DEF Boot, Load, AnswerInput, pageVars, history, Served, Free, Settled, Waits, Armed,
                      Serial!SerialNext, Serial!serialVars
  <1>5. CASE Execute
    <2>1. /\ UNCHANGED <<queue, asked, cancel, run, result>>
          /\ worker = "up" /\ job = "exec"
          /\ kernel' = kernel \/ kernel' = kernel \cup Defines(Head(queue).who)
      BY <1>5 DEF Execute, pageVars, history
    <2>2. run # "none" /\ queue # <<>>
      BY <2>1 DEF NotebookInv, PipeAgrees, LineAgrees
    <2>3. Served /\ Served' /\ Active = Head(queue).who /\ Head(queue).who \in Askers
      BY <2>1, <2>2, LineGoesOn DEF Served, Active
    <2>4. UNCHANGED <<asked, Waiting, Active>>
      BY <2>1, <2>3, SameLine
    <2>5. CASE kernel' = kernel
      BY <2>4, <2>5 DEF Serial!serialVars
    <2>6. CASE kernel' = kernel \cup {Active} /\ Active \in Cells \cup {Problem}
      BY <2>4, <2>6 DEF Serial!SerialNext, Serial!Remember
    <2> QED BY <2>1, <2>3, <2>5, <2>6 DEF Defines, Askers
  <1>6. CASE Continue
    BY <1>6, ContinueEnds DEF Serial!SerialNext
  <1>7. CASE Begin
    BY <1>7, BeginServes DEF Serial!SerialNext, Serial!serialVars
  <1>8. ASSUME NEW who \in Askers, Join(who), UNCHANGED <<cancel, run, result, workerVars>>
        PROVE  Serial!SerialNext
    <2>1. Serial!Ask(who)
      BY <1>8, JoinAsks DEF workerVars
    <2> QED BY <2>1 DEF Serial!SerialNext, Askers
  <1>9. CASE RunQueued(Problem) \/ RunQueued(Grade) \/ \E c \in Cells : Enqueue(c)
    <2>1. PICK who \in Askers : Join(who) /\ UNCHANGED <<cancel, run, result, workerVars>>
      BY <1>9 DEF RunQueued, Enqueue, Askers
    <2> QED BY <1>8, <2>1
  <1>10. CASE ResetKernel \/ \E c \in Cells : Replace(c)
    <2>1. ForgetSession /\ UNCHANGED <<queue, asked, cancel>>
      BY <1>10 DEF ResetKernel, Replace
    <2>2. (Served' <=> Served) /\ (kernel' = {} \/ kernel' = kernel)
      <3>1. CASE queue # <<>>
        BY <2>1, <3>1, FinishServes DEF ForgetSession, StopRunner, Kill, workerVars, Ends
      <3>2. CASE queue = <<>>
        BY <2>1, <3>2 DEF ForgetSession, Served
      <3> QED BY <3>1, <3>2
    <2> QED BY <1>1, <2>1, <2>2 DEF Serial!SerialNext, Serial!serialVars
  <1>11. CASE \E c \in Cells : Insert(c) \/ ChangeType(c) \/ Remove(c)
    <2>1. UNCHANGED <<queue, asked, cancel, run, result, kernel>>
      BY <1>11 DEF Insert, ChangeType, Remove, SetKind, workerVars
    <2> QED BY <1>1, <2>1 DEF Served, Serial!SerialNext, Serial!serialVars
  <1>12. CASE UNCHANGED notebookVars
    <2>1. UNCHANGED <<queue, asked, cancel, run, result, kernel>>
      BY <1>12 DEF notebookVars, pageVars, workerVars, history
    <2> QED BY <1>1, <2>1 DEF Served, Serial!SerialNext, Serial!serialVars
  <1> QED BY <1>2, <1>3, <1>4, <1>5, <1>6, <1>7, <1>9, <1>10, <1>11, <1>12
          DEF NotebookNext, RunSteps, CellSteps

LEMMA InitServes == NotebookInit => Serial!SerialInit /\ GoneForgets
  <1> SUFFICES ASSUME NotebookInit  PROVE Serial!SerialInit /\ GoneForgets
    OBVIOUS
  <1>1. queue = <<>> /\ asked = 0 /\ run = "none" /\ result = "none" /\ kernel = {}
    BY DEF NotebookInit
  <1>2. InLine = {} /\ Active = Nobody
    BY <1>1 DEF InLine, Active, Served
  <1>3. Waiting = [n \in {} |-> Nobody]
    BY <1>2 DEF Waiting
  <1> QED BY <1>1, <1>2, <1>3 DEF Serial!SerialInit, GoneForgets

\* The notebook implements SerialRuns: runs are served one at a time in the
\* order they were asked for, a break drops the cells behind it and nothing
\* else, and only what runs, gradings excepted, changes the session
\* (useNotebook.ts: enqueue, execute).
THEOREM RunsAreServedInOrder == NotebookSpec => ServesInOrder
  <1>1. NotebookInv /\ GoneForgets /\ [NotebookNext]_notebookVars =>
            GoneForgets' /\ [Serial!SerialNext]_(Serial!serialVars)
    BY GoneForgetsNext, StepsServe
  <1> QED BY <1>1, InitServes, NotebookInvariance, PTL DEF NotebookSpec, ServesInOrder, Serial!SerialSpec
-----------------------------------------------------------------------------
(* Nothing is waited for that does not come *)

\* While the line is not empty and no input is waited for, one of the steps the
\* browser takes by itself can be taken: their guards, in the order Continue,
\* Begin, Receive, Boot, Load or Execute, TimeOut.
SomethingGoesOn ==
    queue # <<>> /\ ~Waits =>
        \/ result # "none"
        \/ result = "none" /\ run = "none"
        \/ Settled /\ wire # <<>>
        \/ worker = "booting"
        \/ worker = "up" /\ job \in {"posted", "exec"}
        \/ Settled /\ run = "exec"

\* What is still to be done: for every entry of the line more than a run can
\* take, and for the run under way what is left of it.
JobToil(j) == CASE j = "posted" -> 4 [] j = "exec" -> 2 [] OTHER -> 0
StageOf(ended, r, w, j, n) ==
    IF ended THEN 1
    ELSE (IF r = "none" THEN 9 ELSE 2) + (IF w = "booting" THEN 2 ELSE 0) + JobToil(j) + n
Stage == StageOf(result # "none", run, worker, job, Len(wire))
Toil == 20 * Len(queue) + Stage

\* Every step the browser takes by itself leaves less to be done, and nothing
\* gives it more but a run that is asked for and an input that is answered.
WorksOff ==
    queue # <<>> =>
        /\ RunSteps \/ TimeOut => Toil' < Toil
        /\ Toil' > Toil => asked' # asked \/ AnswerInput
LineIsWorkedOff == [][WorksOff]_notebookVars

LEMMA WireLengths ==
    /\ Len(<<>>) = 0
    /\ \A m : Len(<<m>>) = 1 /\ Len(<<"exec", m>>) = 2
    /\ Len(<<"boot-error">>) = 1
  OBVIOUS

LEMMA JobToilIs ==
    ASSUME NEW j
    PROVE  JobToil(j) \in {0, 2, 4} /\ (j = "none" => JobToil(j) = 0)
  BY DEF JobToil

\* A run takes at most twelve.
LEMMA StageOfIsBounded ==
    ASSUME NEW ended \in BOOLEAN, NEW r, NEW w, NEW j, NEW n \in 0..2,
           r = "none" => j = "none" /\ n \in 0..1
    PROVE  StageOf(ended, r, w, j, n) \in 1..12
  <1> DEFINE a == IF r = "none" THEN 9 ELSE 2
             b == IF w = "booting" THEN 2 ELSE 0
             t == JobToil(j)
  <1>1. a \in {2, 9} /\ b \in {0, 2} /\ t \in {0, 2, 4} /\ n \in {0, 1, 2}
    BY JobToilIs
  <1>2. a = 9 => t = 0 /\ n <= 1
    BY JobToilIs
  <1> HIDE DEF a, b, t
  <1>3. a + b + t + n \in 1..12
    BY <1>1, <1>2
  <1> QED BY <1>3 DEF StageOf, a, b, t

\* What the pipe holds at most.
LEMMA StageIsBounded ==
    ASSUME NotebookInv
    PROVE  /\ Len(queue) \in Nat /\ Len(wire) \in 0..2
           /\ run = "none" => job = "none" /\ Len(wire) \in 0..1
           /\ Stage \in 1..12
  <1>1. Len(queue) \in Nat
    BY DEF NotebookInv, NotebookTypeOK
  <1>2. \/ wire = <<>> \/ \E m : wire = <<m>> \/ wire = <<"exec", m>>
    BY DEF NotebookInv, NotebookTypeOK, PipeAgrees, Alive
  <1>3. Len(wire) \in 0..2
    BY <1>2, WireLengths
  <1>4. run = "none" => job = "none" /\ (wire = <<>> \/ wire = <<"boot-error">>)
    BY DEF NotebookInv, NotebookTypeOK, PipeAgrees, Alive
  <1>5. run = "none" => job = "none" /\ Len(wire) \in 0..1
    <2>1. wire = <<>> \/ wire = <<"boot-error">> => Len(wire) \in 0..1
      BY WireLengths
    <2> QED BY <1>4, <2>1, Zenon
  <1>6. Stage \in 1..12
    BY <1>3, <1>5, StageOfIsBounded DEF Stage
  <1> QED BY <1>1, <1>3, <1>5, <1>6

LEMMA SomethingAlwaysDoes == NotebookInv => SomethingGoesOn
  <1> SUFFICES ASSUME NotebookInv, queue # <<>>, ~Waits, result = "none", run # "none"
               PROVE  \/ wire # <<>> \/ worker = "booting"
                      \/ worker = "up" /\ job \in {"posted", "exec"}
                      \/ run = "exec"
    BY DEF SomethingGoesOn, Settled
  <1>1. run \in {"sent", "exec"}
    BY DEF NotebookInv, NotebookTypeOK, Waits
  <1>2. Alive
    BY <1>1 DEF NotebookInv, PipeAgrees
  <1>3. <<"boot-error">> # <<>> /\ <<"exec">> # <<>> /\ <<"error">> # <<>>
        /\ \A m : <<"exec", m>> # <<>>
    BY Wires
  <1> QED BY <1>1, <1>2, <1>3 DEF NotebookInv, PipeAgrees, Alive

\* The end of a run leaves one.
LEMMA EndLeavesOne ==
    ASSUME NotebookInv, NotebookInv', queue' = queue, run # "none", run' = "none", result' # "none"
    PROVE  Toil' < Toil
  <1>1. result = "none"
    BY DEF NotebookInv, LineAgrees
  <1>2. Stage' = 1 /\ Stage >= 2
    <2>1. Stage' = 1
      BY DEF Stage, StageOf
    <2>2. Stage >= 2
      <3>1. StageOf(FALSE, run, worker, job, Len(wire)) >= 2
        BY JobToilIs, StageIsBounded DEF StageOf
      <3> QED BY <1>1, <3>1 DEF Stage
    <2> QED BY <2>1, <2>2
  <1> QED BY <1>2, StageIsBounded DEF Toil

\* The next of the line leaves less than what its predecessor had left.
LEMMA ShorterIsLess ==
    ASSUME NotebookInv, NotebookInv', queue # <<>>, queue' = Tail(queue)
    PROVE  Toil' < Toil
  <1>1. Len(queue') = Len(queue) - 1 /\ Len(queue) \in Nat
    BY LineGoesOn, StageIsBounded
  <1>2. Stage \in 1..12 /\ Stage' \in 1..12
    <2>1. \/ wire' = <<>> \/ \E m : wire' = <<m>> \/ wire' = <<"exec", m>>
      BY DEF NotebookInv, NotebookTypeOK, PipeAgrees, Alive
    <2>2. Len(wire') \in 0..2
      BY <2>1, WireLengths
    <2>3. run' = "none" => job' = "none" /\ (wire' = <<>> \/ wire' = <<"boot-error">>)
      BY DEF NotebookInv, NotebookTypeOK, PipeAgrees, Alive
    <2>4. run' = "none" => job' = "none" /\ Len(wire') \in 0..1
      <3>1. wire' = <<>> \/ wire' = <<"boot-error">> => Len(wire') \in 0..1
        BY WireLengths
      <3> QED BY <2>3, <3>1, Zenon
    <2>5. Stage' \in 1..12
      BY <2>2, <2>4, StageOfIsBounded DEF Stage
    <2> QED BY <2>5, StageIsBounded
  <1> QED BY <1>1, <1>2 DEF Toil
\* A run that has ended has a worker that has booted, or none.
EndedHasBooted == result # "none" => worker # "booting"

LEMMA EndedHasBootedNext ==
    NotebookInv /\ EndedHasBooted /\ [NotebookNext]_notebookVars => EndedHasBooted'
  <1> SUFFICES ASSUME NotebookInv, EndedHasBooted, [NotebookNext]_notebookVars, result' # "none"
               PROVE  worker' # "booting"
    BY DEF EndedHasBooted
  <1>1. CASE result = "none" /\ Receive
    <2>1. worker # "booting"
      BY <1>1 DEF Receive, NotebookInv, PipeAgrees
    <2> QED BY <1>1, <2>1 DEF Receive, Kill
  <1>2. CASE Boot
    BY <1>2 DEF Boot
  <1>3. ASSUME Spawn("none") \/ Spawn("posted"), result = "none", result' = result
        PROVE  FALSE
    BY <1>3
  <1>4. ASSUME StopRunner \/ Dispose
        PROVE  worker' # "booting"
    <2>1. CASE run # "none" \/ Dispose
      BY <1>4, <2>1 DEF StopRunner, Dispose, Kill
    <2>2. CASE run = "none" /\ StopRunner
      BY <2>2 DEF StopRunner, Finish, workerVars, EndedHasBooted
    <2> QED BY <1>4, <2>1, <2>2
  <1>5. CASE TimeOut
    BY <1>5 DEF TimeOut, Kill
  <1>6. CASE Stop \/ Leave
    BY <1>4, <1>6 DEF Stop, Leave
  <1>7. CASE ResetKernel \/ \E c \in Cells : Replace(c)
    <2>1. ForgetSession
      BY <1>7 DEF ResetKernel, Replace
    <2>2. CASE queue # <<>>
      BY <1>4, <2>1, <2>2 DEF ForgetSession
    <2>3. CASE queue = <<>>
      BY <2>1, <2>3 DEF ForgetSession, EndedHasBooted
    <2> QED BY <2>2, <2>3
  <1>8. CASE Warm
    BY <1>8 DEF Warm, Settled, pageVars
  <1>9. CASE Begin
    BY <1>9 DEF Begin
  <1>10. CASE Load \/ Execute \/ Continue \/ AnswerInput
    BY <1>10 DEF Load, Execute, Continue, AnswerInput, EndedHasBooted, pageVars, workerVars
  <1>11. CASE RunQueued(Problem) \/ RunQueued(Grade) \/ \E c \in Cells : Enqueue(c)
    BY <1>11 DEF RunQueued, Enqueue, EndedHasBooted, workerVars
  <1>12. CASE \E c \in Cells : Insert(c) \/ ChangeType(c) \/ Remove(c)
    BY <1>12 DEF Insert, ChangeType, Remove, SetKind, EndedHasBooted, workerVars
  <1>13. CASE UNCHANGED notebookVars
    BY <1>13 DEF notebookVars, pageVars, workerVars, EndedHasBooted
  <1>14. CASE result # "none" /\ Receive
    BY <1>14 DEF Receive, Settled
  <1> QED
    BY <1>1, <1>2, <1>5, <1>6, <1>7, <1>8, <1>9, <1>10, <1>11, <1>12, <1>13, <1>14
    DEF NotebookNext, RunSteps, CellSteps

-----------------------------------------------------------------------------
(* The steps of a run *)

LEMMA ToilFalls ==
    ASSUME NotebookInv, queue' = queue, Stage' \in Nat, Stage' < Stage
    PROVE  Toil' < Toil
  <1>1. Len(queue') = Len(queue) /\ Len(queue) \in Nat /\ Stage \in Nat
    BY StageIsBounded
  <1> DEFINE n == Len(queue)
             here == Stage
             then == Stage'
  <1>2. Toil = 20 * n + here /\ Toil' = 20 * n + then
    BY <1>1 DEF Toil
  <1>3. n \in Nat /\ here \in Nat /\ then \in Nat /\ then < here
    BY <1>1
  <1> HIDE DEF n, here, then
  <1> QED BY <1>2, <1>3

\* A message that has reached the page is no longer to come.
LEMMA ReceiveWorksOff ==
    ASSUME NotebookInv, NotebookInv', queue # <<>>, Receive
    PROVE  Toil' < Toil
  <1>1. /\ wire # <<>> /\ result = "none" /\ run # "none" /\ queue' = queue
        /\ wire \in Seq(Messages)
    BY DEF Receive, Settled, NotebookInv, NotebookTypeOK, Messages
  <1>2. Head(wire) \in Messages /\ Len(Tail(wire)) = Len(wire) - 1
    BY <1>1
  <1>3. CASE Head(wire) = "boot-error"
    <2>1. run' = "none" /\ result' = "error"
      BY <1>1, <1>3 DEF Receive, Finish
    <2> QED BY <1>1, <2>1, EndLeavesOne
  <1>4. CASE Head(wire) \in {"exec", "input"}
    <2>1. /\ run' # "none" /\ result' = "none" /\ wire' = Tail(wire)
          /\ worker' = worker /\ job' = job
      BY <1>1, <1>4 DEF Receive
    <2>2. Len(wire') = Len(wire) - 1 /\ Len(wire) \in 0..2
      BY <1>2, <2>1, StageIsBounded
    <2>3. StageOf(FALSE, run', worker, job, Len(wire) - 1) < StageOf(FALSE, run, worker, job, Len(wire))
      BY <1>1, <2>1, <2>2, JobToilIs DEF StageOf
    <2>4. Stage' < Stage
      BY <1>1, <2>1, <2>2, <2>3 DEF Stage
    <2>5. Stage' \in Nat
      BY <2>1, <2>2, JobToilIs DEF Stage, StageOf
    <2> QED BY <1>1, <2>4, <2>5, ToilFalls
  <1>5. CASE Head(wire) \in {"ok", "error"}
    <2>1. run' = "none" /\ result' \in {"ok", "error"}
      BY <1>1, <1>5 DEF Receive, Finish
    <2> QED BY <1>1, <2>1, EndLeavesOne
  <1> QED BY <1>2, <1>3, <1>4, <1>5 DEF Messages

\* The worker's steps: it is up or broken; the code is loaded; the code ends,
\* asks for input or never ends.
LEMMA WorkerWorksOff ==
    ASSUME NotebookInv, EndedHasBooted, queue # <<>>, Boot \/ Load \/ Execute
    PROVE  Toil' < Toil
  <1>u. queue' = queue /\ run' = run /\ result' = result
    BY DEF Boot, Load, Execute, pageVars
  <1>1. ASSUME result = "none", Len(wire') \in 0..3,
               StageOf(FALSE, run, worker', job', Len(wire')) < StageOf(FALSE, run, worker, job, Len(wire))
        PROVE  Toil' < Toil
    <2>1. /\ Stage = StageOf(FALSE, run, worker, job, Len(wire))
          /\ Stage' = StageOf(FALSE, run, worker', job', Len(wire'))
      BY <1>u, <1>1 DEF Stage
    <2>2. StageOf(FALSE, run, worker', job', Len(wire')) \in Nat
      BY <1>1, JobToilIs DEF StageOf
    <2> QED BY <1>u, <1>1, <2>1, <2>2, ToilFalls
  <1>2. CASE Boot
    <2>1. worker = "booting" /\ wire = <<>> /\ result = "none" /\ job' = job
      BY <1>2 DEF Boot, EndedHasBooted, NotebookInv, PipeAgrees
    <2>2. \/ worker' = "up" /\ Len(wire') = 0
          \/ worker' = "broken" /\ Len(wire') = 1
      BY <1>2, <2>1, Wires, WireLengths DEF Boot
    <2>3. /\ StageOf(FALSE, run, "up", job, 0) < StageOf(FALSE, run, "booting", job, 0)
          /\ StageOf(FALSE, run, "broken", job, 1) < StageOf(FALSE, run, "booting", job, 0)
      BY JobToilIs DEF StageOf
    <2>4. Len(wire) = 0 /\ Len(wire') \in 0..3
      BY <2>1, <2>2, WireLengths
    <2>5. StageOf(FALSE, run, worker', job', Len(wire')) < StageOf(FALSE, run, worker, job, Len(wire))
      BY <2>1, <2>2, <2>3, <2>4, Zenon
    <2> QED BY <1>1, <2>1, <2>4, <2>5
  <1>3. CASE Load
    <2>1. wire = <<>> /\ run = "sent" /\ result = "none" /\ job = "posted" /\ worker' = worker
      BY <1>3 DEF Load, NotebookInv, PipeAgrees, LineAgrees
    <2>2. job' \in {"exec", "none"} /\ Len(wire') = 1
      BY <1>3, <2>1, Wires, WireLengths DEF Load
    <2>3. \A j \in {"exec", "none"} :
              StageOf(FALSE, run, worker, j, 1) < StageOf(FALSE, run, worker, "posted", 0)
      BY DEF StageOf, JobToil
    <2>4. Len(wire) = 0 /\ Len(wire') \in 0..3
      BY <2>1, <2>2, WireLengths
    <2>5. StageOf(FALSE, run, worker', job', Len(wire')) < StageOf(FALSE, run, worker, job, Len(wire))
      BY <2>1, <2>2, <2>3, <2>4, Zenon
    <2> QED BY <1>1, <2>1, <2>4, <2>5
  <1>4. CASE Execute
    <2>1. /\ run \in {"sent", "exec"} /\ result = "none" /\ job = "exec" /\ worker' = worker
          /\ wire = <<"exec">> \/ wire = <<>>
      BY <1>4 DEF Execute, NotebookInv, PipeAgrees, LineAgrees
    <2>2. Len(wire) \in 0..1
      BY <2>1, WireLengths
    <2>3. /\ job' \in {"none", "asleep", "loop"}
          /\ wire' = wire \/ \E m \in Messages : wire' = Append(wire, m)
      BY <1>4 DEF Execute, Messages
    <2>4. Len(wire') \in {Len(wire), Len(wire) + 1}
      <3>1. \A m \in Messages : Len(Append(wire, m)) = Len(wire) + 1
        BY DEF NotebookInv, NotebookTypeOK, Messages
      <3> QED BY <2>3, <3>1
    <2>5. \A j \in {"none", "asleep", "loop"} : \A n \in {Len(wire), Len(wire) + 1} :
              StageOf(FALSE, run, worker, j, n) < StageOf(FALSE, run, worker, "exec", Len(wire))
      BY <2>2 DEF StageOf, JobToil
    <2>6. Len(wire') \in 0..3
      <3> DEFINE n == Len(wire)
                 m == Len(wire')
      <3>1. n \in 0..1 /\ m \in {n, n + 1}
        BY <2>2, <2>4
      <3> HIDE DEF n, m
      <3>2. m \in 0..3
        BY <3>1
      <3> QED BY <3>2 DEF m
    <2>7. StageOf(FALSE, run, worker', job', Len(wire')) < StageOf(FALSE, run, worker, job, Len(wire))
      BY <2>1, <2>3, <2>4, <2>5, Zenon
    <2> QED BY <1>1, <2>1, <2>6, <2>7
  <1> QED BY <1>2, <1>3, <1>4

\* The page's steps: a run is taken note of, the next begins.
LEMMA PageWorksOff ==
    ASSUME NotebookInv, NotebookInv', queue # <<>>, Continue \/ Begin
    PROVE  Toil' < Toil
  <1>1. CASE queue' = Tail(queue)
    BY <1>1, ShorterIsLess
  <1>2. CASE Begin /\ queue' = queue
    <2>1. Tail(queue) # queue
      BY TailIsShorter
    <2>2. /\ run = "none" /\ result = "none" /\ run' = "sent" /\ result' = "none" /\ job' = "posted"
          /\ IF Alive THEN UNCHANGED <<worker, wire>> ELSE worker' = "booting" /\ wire' = <<>>
      BY <1>2, <2>1 DEF Begin, Spawn
    <2>3. job = "none" /\ Len(wire) \in 0..1
      BY <2>2, StageIsBounded
    <2>4. /\ Stage = StageOf(FALSE, "none", worker, "none", Len(wire))
          /\ Stage' = StageOf(FALSE, "sent", worker', "posted", Len(wire'))
      BY <2>2, <2>3 DEF Stage
    <2>5. CASE Alive
      <3>1. StageOf(FALSE, "sent", worker, "posted", Len(wire)) < StageOf(FALSE, "none", worker, "none", Len(wire))
        BY <2>3 DEF StageOf, JobToil
      <3>2. StageOf(FALSE, "sent", worker, "posted", Len(wire)) \in Nat
        BY <2>3 DEF StageOf, JobToil
      <3>3. worker' = worker /\ wire' = wire
        BY <2>2, <2>5
      <3>4. Stage' = StageOf(FALSE, "sent", worker, "posted", Len(wire))
        BY <2>4, <3>3, Zenon
      <3> QED BY <1>2, <2>4, <3>1, <3>2, <3>4, ToilFalls
    <2>6. CASE ~Alive
      <3>1. StageOf(FALSE, "sent", "booting", "posted", 0) < StageOf(FALSE, "none", worker, "none", Len(wire))
        BY <2>3 DEF StageOf, JobToil
      <3>2. StageOf(FALSE, "sent", "booting", "posted", 0) \in Nat
        BY DEF StageOf, JobToil
      <3>3. Len(wire') = 0
        BY <2>2, <2>6, WireLengths
      <3>4. Stage' = StageOf(FALSE, "sent", "booting", "posted", 0)
        BY <2>2, <2>4, <2>6, <3>3, Zenon
      <3> QED BY <1>2, <2>4, <3>1, <3>2, <3>4, ToilFalls
    <2> QED BY <2>5, <2>6
  <1> QED BY <1>1, <1>2 DEF Continue, Begin
\* Whatever breaks a run off ends it.
LEMMA BreakLeavesOne ==
    ASSUME NotebookInv, NotebookInv', queue # <<>>, queue' = queue, result = "none", run # "none",
           NEW r \in Ends, Finish(r)
    PROVE  Toil' < Toil
  <1>1. run' = "none" /\ result' # "none"
    BY DEF Finish, Ends
  <1> QED BY <1>1, EndLeavesOne

LEMMA LineStep ==
    NotebookInv /\ NotebookInv' /\ EndedHasBooted /\ NotebookNext => WorksOff
  <1> SUFFICES ASSUME NotebookInv, NotebookInv', EndedHasBooted, NotebookNext, queue # <<>>
               PROVE  /\ RunSteps \/ TimeOut => Toil' < Toil
                      /\ Toil' > Toil => asked' # asked \/ AnswerInput
    BY DEF WorksOff
  <1>1. RunSteps => Toil' < Toil
    BY ReceiveWorksOff, WorkerWorksOff, PageWorksOff DEF RunSteps
  <1>2. TimeOut => Toil' < Toil
    BY BreakLeavesOne DEF TimeOut, Settled, Ends
  <1>3. ASSUME Settled
        PROVE  result = "none" /\ run # "none" /\ Alive
    BY <1>3 DEF Settled, NotebookInv, PipeAgrees
  <1>4. Toil \in Int
    BY StageIsBounded DEF Toil
  <1>5. ~Warm
    BY <1>3 DEF Warm, Alive
  <1>6. ASSUME RunQueued(Problem) \/ RunQueued(Grade) \/ \E c \in Cells : Enqueue(c)
        PROVE  asked' # asked
    <2>1. asked' = asked + 1 /\ asked \in Nat
      BY <1>6 DEF RunQueued, Enqueue, Join, NotebookInv, NotebookTypeOK
    <2> QED BY <2>1
  <1>7. ASSUME Settled, queue' = queue, StopRunner \/ Dispose
        PROVE  Toil' < Toil
    BY <1>3, <1>7, BreakLeavesOne DEF StopRunner, Dispose, Ends
  <1>8. Stop \/ Leave => Toil' < Toil
    BY <1>7 DEF Stop, Leave, Free
  <1>9. ResetKernel \/ (\E c \in Cells : Replace(c)) => Toil' < Toil
    BY <1>7 DEF ResetKernel, Replace, ForgetSession, Free
  <1>10. ASSUME \E c \in Cells : Insert(c) \/ ChangeType(c) \/ Remove(c)
         PROVE  Toil' = Toil
    BY <1>10 DEF Insert, ChangeType, Remove, SetKind, Toil, Stage, workerVars
  <1>11. Toil' < Toil => ~(Toil' > Toil)
    <2>1. Toil' \in Int
      <3>1. Len(queue') \in Nat
        BY DEF NotebookInv, NotebookTypeOK
      <3>2. Len(wire') \in Nat
        BY DEF NotebookInv, NotebookTypeOK
      <3>3. Stage' \in Nat
        BY <3>2, JobToilIs DEF Stage, StageOf
      <3> QED BY <3>1, <3>3 DEF Toil
    <2> QED BY <1>4, <2>1
  <1>12. Toil' = Toil => ~(Toil' > Toil)
    BY <1>4
  <1> QED
    BY <1>1, <1>2, <1>5, <1>6, <1>8, <1>9, <1>10, <1>11, <1>12 DEF NotebookNext, CellSteps

\* As long as the line is not empty and no input is waited for, the browser has
\* a step to take by itself: a run never waits for a message that is not to come
\* nor the line for a run that is over (useNotebook.ts: enqueue; pythonRunner.ts:
\* run, finish).
THEOREM TheLineNeverHangs == NotebookSpec => []SomethingGoesOn
  <1> QED BY SomethingAlwaysDoes, NotebookInvariance, PTL

\* Each of those steps brings the line nearer to its end, and nothing puts the
\* end off but a run that is asked for or an input that is answered: with
\* TheLineNeverHangs, what TheLineEmpties rests on.
THEOREM TheLineIsWorkedOff == NotebookSpec => LineIsWorkedOff
  <1>1. NotebookInit => EndedHasBooted
    BY DEF NotebookInit, EndedHasBooted
  <1>2. NotebookInv /\ NotebookInv' /\ EndedHasBooted /\ [NotebookNext]_notebookVars => [WorksOff]_notebookVars
    BY LineStep
  <1> QED
    BY <1>1, <1>2, EndedHasBootedNext, NotebookInvariance, PTL DEF NotebookSpec, LineIsWorkedOff
=============================================================================
